# dipper: TLA+ specifications, model checking and proofs

dipper finds indexers for subgraph indexing requests. For every indexer it picks
it proposes an agreement, stores an offer on the chain, follows the agreement
through an indexing-payments subgraph, announces what happened on Kafka, and
cancels agreements that are no longer wanted or whose indexer stopped serving.
Everything it knows is in PostgreSQL: a registry of agreements and a job queue.
This directory holds the specifications of the service, the TLC runs that check
them on small instances, and TLAPS proofs, for every instance, of every safety
property those runs check.

Paths below are relative to `src/bin/dipper-service/src/` unless they start with
`dipper-`.

## 1. The system

| Part | State | Operations | Talks to |
|---|---|---|---|
| Job queue (`dipper-pgmq`) | job rows: status, attempts, schedule, priority | push, pop (open transaction, `SKIP LOCKED`), remove, requeue | worker loops, everyone who pushes |
| Worker (`worker/service.rs`) | N loops, a stop signal, the job each runs, a LISTEN connection each | tick, pop, run under a timeout, settle, stop, drain, subscribe | queue, handlers, DB pool |
| Proposal, offer and check jobs (`worker/handlers/`) | none | ask the indexer; send `offer()`, withdraw it; reopen an ended row that is live | registry, indexer, chain |
| Reassessment (`reassess_indexing_request.rs`, `selection_*.rs`, `unresponsive_breaker.rs`) | one in-process lock, a cached pool, a breaker | diff wanted and current indexers, price, register, pair, cancel | registry, IISA, queue |
| Cancel dispatch and retry (`cancel_dispatch.rs`, `network/service/cancel_retry.rs`) | per-sweep list | mark, read the chain, send, confirm, record, end; repeat | registry, chain |
| Chain listener (`network/service/chain_listener.rs`, `chain_events.rs`) | cursor, hold, queued checks, persisted chain time, broker cooldown | drain changes into the registry, event and orphan sweeps, fan-out to replaced agreements | subgraph, registry, broker, queue |
| Expiration (`expiration.rs`) | none | Created -> Expired by the persisted chain time | registry |
| Liveness checker (`liveness_checker.rs`) | breaker; progress columns of the rows | ask for progress, abandon, replace | indexers, registry, chain |
| Terms watcher (`dips_info_watcher.rs`) | time without an answer, blocks, a pause | ask `/dips/info`, alert, block | indexers, registry |
| Reassignment (`reassignment.rs`) | timers | full and top-up passes | registry, queue |
| Chain client (`chain_client/`) | nonce counter, submit lock, newest block seen, ring of endpoints | send and watch transactions, fill gaps, reads that never go back | RPC endpoints |
| EIP-712 domain (`eip5267.rs`, `domain_refresh.rs`) | the domain in use | read, refresh, refuse | chain |
| Escrow reconciler (`escrow_reconciler.rs`) | cursors, rebalance schedule | release ended agreements, withdraw thaws, rebalance | chain |
| Events (`dipper-producer`), alerts (`alerts.rs`) | bounded queues, windows, counts | send, drop, flush, throttle, report | broker, Slack |
| Caches of network data (`indexer_urls.rs`, `entity_count_cache.rs`) | one map each | refresh page by page | subgraph |
| Process (`main.rs`, `supervisor.rs`, `health.rs`, `config.rs`) | task tree, shutdown flag, watermarks | check the configuration, start, supervise, stop | all services |
| Registry (`dipper-pgregistry`) | requests, agreements, pending cancellations, listener state | compare-and-set UPDATEs | all of the above |

The parts share the registry row and the chain, and never hold a lock across an
await (except a popped job's row lock and the client's submit lock). So the hard
behaviours are: two tasks deciding from copies of one row; a transaction whose
outcome is not known; a job that runs twice or is cut in the middle; the subgraph
showing the chain late, reorganised or not at all; counters, cursors and queues
at their limits; an outage on dipper's side that looks like everybody else's; and
a shutdown that finds tasks anywhere. What makes each part correct:

* **queue**: one live transaction per job, attempts counted exactly, nothing lost
  and nothing settled by a loop that no longer owns the job; a budget that lasts
  as long as there is something to gain;
* **agreement**: the row never claims an end that did not happen or blames the
  wrong party; a cancel is never undone and finishes; whatever goes live behind a
  dead row is found; an abandoned slot is not reused while it can be paid;
* **replacement**: the offers out stay within the window and no indexer is offered
  one request twice; a pass takes out no more than the target group can spare; what
  an accepted agreement replaces is cancelled; a cancelled request drains;
* **listener**: no change is passed in silence, the cursor and the stored time
  never go back, a change that cannot be applied holds the others up for a bounded
  time only;
* **chain client**: one slot per submission, every gap watched but one whose call
  was dropped or failed to fill it, no read older than an earlier one;
* **judging others**: serving indexers survive dipper's outages and the gone ones
  do not survive for ever;
* **telling**: what consumers are told is true, every end of an announced
  agreement is announced, every event is sent or counted, and every alert goes
  into a message that is posted once, or is counted;
* **process**: it comes up only with settings it can serve with, notices what
  died, and ends in bounded time with the right exit code.

`PROJECT.json` lists every part under `components` and every hazard, at its line,
under `hazards`.

## 2. Modules

| Module | Models |
|---|---|
| `JobLedger` | what the queue promises: a job is new, pending, held, done or dead |
| `JobQueue` | the queue's rows and the worker loops, with faults; implements `JobLedger` |
| `AgreementRow` | the agreement's row and each UPDATE, as a function from row to row |
| `AgreementLifecycle` | one agreement: row, chain, subgraph, and every task acting on it |
| `Replacement` | many agreements: requests, reassessments, pending cancellations, and what the other services do to the same rows |
| `ChainCursor` | the listener's drain: pages, reorg buffer, pin, hold, stored cursor |
| `ChainPoll` | the listener's loop: intervals, notifications, back-off, broker cooldown, recovery sweeps |
| `ChainClock` | the persisted chain time: skew, drift cap, expiry by it |
| `RpcPool` | walks of the ring of endpoints over a shared index |
| `TxSender` | submissions, nonces, receipts and gap filling |
| `SeenBlock` | the newest block seen, the reads that go by it, the cross check |
| `RcaDomain` | the EIP-712 domain, its refresh, and the hash a cancel names |
| `EscrowReconciler` | sweeps over the manager's lists |
| `LivenessCheck` | cycles, tolerance and the unreachable breaker |
| `DipsInfoWatch` | the terms watcher: counts, pause, alert, block |
| `Selection` | who may be offered what and at which price, the unresponsive breaker, the shortfall event, the reassignment passes |
| `NetworkCaches` | the paged refreshes of both caches |
| `Alerts`, `EventEmitter` | the two bounded queues and what drains them |
| `Process` | start-up, supervision, shutdown |
| `JobSignal`, `WorkerLoops` | one loop's subscription; the loops, the DB pool and the health endpoint |
| `Configuration` | what the checks accept, and what an accepted file commits dipper to |
| `OutboundCalls`, `OfferRetries` | timeouts and retries under the job's backstop; retry budgets |
| `MCJobQueue`, `MCAgreementLifecycle`, `MCReplacement` | instances for TLC |
| `MCChain`, `MCServices` | instances of the parts that face the chain, and of the others |
| `JobQueue_proofs`, `AgreementLifecycle_proofs`, `Replacement_proofs` | theorems about the queue, the agreement and its replacement |
| `ChainCursor_proofs`, `TxSender_proofs` | theorems about the listener's drain and the sender of transactions |
| `MCChain_proofs` | theorems about the other parts that face the chain, and about all of them side by side |
| `Services_proofs`, `MCServices_proofs` | theorems about the services, the process and the settings, and about all of them side by side |

Which definition stands for which lines is in `PROJECT.json` under `map`. The
mutants (a plausible slip in one definition) are kept next to the definition they
replace; each breaks the property `PROJECT.json` pairs it with.

### JobQueue

`pop` opens a transaction and keeps it open until the result is written back
(`dipper-pgmq/src/job.rs`). PostgreSQL shows other sessions the committed row, so
`status` and `attempts` hold committed values and `lock` says whose transaction
has the row; the `Running` status is never visible and does not occur. A loop
goes `waiting -> ticked -> running -> settling -> waiting` along `run_loop`.
`HandlerReturns` yields any `JobResult`; the timeout is the `Retryable` case.
`WriteBack` is the `match` of `run_loop`; `RequeueCounted` has the `CASE` of
`requeue`. Faults: a failed pop, a failed settlement, a connection lost under a
running handler (`SettleLost` is that handler's later, failing write), a panic
(`StopTheRest` is what the `JoinSet` does about it), a stop, a crash. NOTIFY only
makes a tick come earlier. `birth` orders rows as `created_at, id` do.

### AgreementRow and AgreementLifecycle

A row is a status, an `endEra` and a set of `marks` (the nullable columns that
are set). `canceled_at` is only ever compared with `accepted_at`, so `endEra`
says on which side of the accept it lies. Every status-guarded UPDATE is a
compare-and-set with the code's list of allowed statuses.

In `AgreementLifecycle` each task has a program counter with one place per await
between two effects; between them it holds only what it read: `starting` (the
starter's copy and reason), `listed` (the retry's copy and chain time), `saw`
(the status the listener read). The correspondence:

| Actions | Code |
|---|---|
| `ProposalStart/Accepted/Declined/Dies` | `handle` of the proposal job |
| `OfferStart/Sends/Rereads/Returns` | `next_step`, `handle`, `cancelled_meanwhile`, `withdraw_offer_if_stored` |
| `CancelReads/Sends/Confirms` | `cancel_if_live`, shared by offer jobs, starter, retry |
| `StartNotWanted`, `StartAbandoned`, `Starter...` | `start_cancel`, `finish_marked_cancel`, `start_replaced_cancel`, `cancel_and_reassess` |
| `Retry...` | `retry_cancel`, `confirm_if_over`, `record_end_by_indexer`, `replace_ended_abandoned` |
| `ListenNothing/Fetch/Prepare/Apply/Holds` | `drain_once`, `prepare_reconciliation`, `apply_reconciliation_batch` |
| `Sweeps...`, `MarksTerminated` | `run_event_sweeps` and the three sweeps |
| `Check...` | `cancel_rejected_agreement_on_chain` |
| `Expire` | the expiration service's write |
| `RunCut`, `Crash` | the job timeout, a panic, the process dying |
| `IndexerAccepts/Cancels`, `DeadlinePasses`, `LateOffer`, `SubgraphSyncs` | external |

Abstractions, with the reason each is safe, are in the module's header. The ones
that matter most: one agreement (nothing in these tasks reads two), time is the
offer deadline being past or not as seen by the chain, by the subgraph and by the
listener's persisted time; pauses may or may not have passed; the subgraph does
not regress and does not move during a drain; the database answers before a held
cursor is given up on. What the listener does when it is not so is `ChainCursor`.

### Replacement

Where `AgreementLifecycle` follows one agreement through every await,
`Replacement` follows what agreements do to each other. A row keeps its request
and indexer, the statuses another row's fate depends on, and its offer's clock
(`open`, `past` its deadline, `settled` once the listener can no longer see an
accept). A cancel, once started, ends in one step, `CancelEnds`, which
`AgreementLifecycle` covers in detail. A pass of the reassessment is
`counting -> selecting -> adding`, and `pass[w]` is what the handler holds in
memory between its awaits.

| Actions | Code |
|---|---|
| `SetTarget`, `SetTargetUnqueued` | `set_indexing_target_candidates` of the admin RPC and the registry |
| `Reassign` | the full pass of the reassignment service |
| `Start` | `handle` of the reassessment: lock, target, active agreements |
| `CountInFlight`, `DeferSaturated` | held slots, in-flight count, `should_defer_saturated` |
| `Select` (`Admits`, `ReservedCancelCount`) | IISA's answer, the diff, `plan_capped_additions`, `reserved_cancel_count` |
| `RegisterPaired/Plain/Fails`, `CancelUnpaired...`, `Finish`, `PassFails` | the two loops, the top-up deferral, every way the job ends early |
| `Decline`, `Expire`, `DoChore`, `ChoreFails` | a failed offer: the mark, then the cleaning and the reassessment |
| `Accept`, `AcceptCancelling`, `EndedByIndexer` | the listener's reconciliation |
| `FanOut`, `ExecutePending...`, `SweepOrphan` | `execute_pending_cancellations`, after an accept or swept; the orphan sweep |
| `Abandon`, `Vacate`, `ReplaceAbandoned`, `ReplaceUnmarked` | the liveness checker and the cancel retry |
| `ReopenLive`, `TimePasses`, `Crash` | the check job; deadlines and the listener's progress; the process dying |

IISA may answer any set of at most the target, and dipper may be able to offer to
any of the new picks, so what is shown does not depend on how candidates are
scored or priced (that is `Selection`). An agreement that is over counts as no row
and its identity is used again, which keeps the instances finite without bounding
how long a request lives.

### The parts that face the chain (`MCChain`)

Each of these modules is a component of its own, with its `Init`, `Next` and
properties; the code lets them meet only through values the other modules treat
as given (a page was applied, a transaction was sent, a block was seen). A state
of `MCChain` therefore names the `part` its behaviour is about, the other parts
stay as they started, and one run covers all of them. The same holds of
`MCServices`.

* `ChainCursor`. A change is a number; the subgraph's rows are ordered by (block,
  agreement) and read by `drain_once` in pages at a pinned block, from the cursor
  less the reorg buffer. A row may fail to parse or to apply (`Poison`); a page
  that fails holds the cursor until `MaxCursorHold`, then it is stepped over with
  an alert. The cursor is kept in memory and in the database; writes fail and the
  process restarts. Reorganisations orphan changes within `ReorgDepth` or move
  them to a later block; the ghost `undone` remembers which change of an agreement
  was ever taken back.
* `ChainPoll`. `new`'s loop: the two intervals, the notification, the doubling
  pause after failed fetches, the cooldown of the event sweeps, `SWEEP_POLLS`. A
  sweep of lost cancels may fail or not get to one; its counter starts again all the
  same, so the next try is `SWEEP_POLLS` complete polls later.
* `ChainClock`. The answer's timestamp goes through the skew check, the drift cap
  and the ratchet, in that order, and expiry compares with what was stored.
* `RpcPool`. A call walks `0 .. n-1` from the shared index it read at its start;
  others move that index meanwhile. Time is in seconds; an attempt is one request, or
  two where the closure makes two (`view_at_seen_block`, `get_gas_prices`), each with
  its own timeout.
* `TxSender`. Every call is `quote -> submit -> watch`, under the submit lock
  where the code holds it; the network is one pool of transactions and may lose
  answers, evict, report a stale count. The worker's job timeout may drop a call
  wherever it is (`JobTimeout`); the ghost `lost` has the slots that are left without
  a transaction and without a call that would fill them.
* `SeenBlock`. At most one endpoint is faulty, at a fixed distance from the head;
  the guard against a jump, the cross check and confirmation by receipts are as
  in `client.rs`. Two ghosts, the newest block read at that was remembered and the
  time of the first confirmation, serve only the properties.
* `RcaDomain`. A domain is a version with what `domain_from_report` looks at; an
  agreement meets it when it is planned, offered and cancelled.
* `EscrowReconciler`. The manager's lists are sequences read by position while
  they shift; each read and each transaction is a step.

### The services, the process and the settings (`MCServices`)

* `LivenessCheck`, `DipsInfoWatch`: a cycle asks everybody and judges; an outage
  is nobody answering. Time counts cycles, and intervals. The agreements are those
  with a terms hash: without one the cancel cannot be named and the row stays active.
* `Selection`: the five decline windows, the cached pool, the breaker with its
  dead band, the shortfall latch, and the reassignment passes that pick requests by
  age. A price is counted in parts of a wei (`Grain`); as a float it is off by up to
  `FloatError`, `as u128` cuts it off, takes what is not a number or below zero for 0
  and saturates at `MaxU128`. The monthly and the per-entity price each have a cap or
  none, and the table stands in for a missing price where there is a table.
* `NetworkCaches`: one keyset walk, with the two ways a failed page is treated.
* `Alerts`, `EventEmitter`: bounded queues with a poster and a drain task, whose
  program counters have a place for each await. A post to Slack that fails is logged
  and not tried again (`alLost`).
* `Process`: `Boot` follows the order of `main`; the handler task and the
  supervisor are two actors that share a flag and a notification.
* `JobSignal`, `WorkerLoops`: a loop races its listener against the poll timer, and
  an error of the connection ends the listener at once; loops and background services
  share the pool. A turn is charged its tick, its wait for a connection and its job
  (at most 451 s in the code). The watermark of a loop that ended goes on ageing, and
  `health.threshold` is any number: the endpoint may report 503 while the other loops
  drain, or with a threshold below a turn, although nothing is wedged. The default of
  840 s covers a turn.
* `Configuration`: a file is edited (`MaxEdits` settings away from the defaults),
  checked by the code's own conditions in their order, started, and then makes
  offers and gas limits.
* `OutboundCalls`, `OfferRetries`: the life of one call and of one job, in
  seconds, with the code's own constants. A reassessment makes the two IISA calls,
  reads the chain's clock where the answer calls for it, and submits its surplus
  cancels, all under the backstop; nothing bounds their timeouts by it.

## 3. Runs

The `job_queue` and `lifecycle` runs check for deadlock: the system they model
never stops by itself. The others do not: a cancelled request whose agreements
are over has nothing left to do, and the horizons of the parts end them.

| Run | Instance | Checks |
|---|---|---|
| `job_queue` | 2 jobs of one priority with ceilings 2 and 1, 2 loops, 2 faults, fair | `TypeOK`, `LockDiscipline`, `AttemptBudget`, `OnlyTheHolderSettles`, `LedgerSpec`, `JobsEnd`, `StopDrains` |
| `lifecycle` | 2 symmetric offer jobs, abandonment, all events, 1 fault of any kind | `TypeOK`, `BlameIsTrue`, `EndedIsOver`, `SlotHeldWhileLive`, `AnnouncementsAreTrue`, `CancelIsFinal` |
| `lifecycle_live` | 1 offer job, unwanted agreement, no faults, fair | `CancelEnds` |
| `lifecycle_zombie` | 1 offer job, accepted and terminated events, 1 job fault, fair | `ZombieEnds`, `EndIsAnnounced` |
| `replacement` | 1 request, targets 0 and 1, 2 indexers, 2 agreements, 2 loops, window 1, every event, 1 fault | `TypeOK`, `OneOfferPerIndexer`, `WindowRespected`, `KeepsEnough` |
| `replacement_live` | 1 loop, expiry, 1 fault, fair | `SwapCompletes`, `CanceledDrains` |
| `replacement_gap` | 1 request, target 1, 2 indexers, no faults | `OldStaysUntilReplaced` is violated |
| `chain` | the eight parts that face the chain | `ReadsSafe`, `SlotsSafe`, `CursorSafe`, `ListenerOnTime`, `UpkeepKept` |
| `chain_live` | tx, seen, cursor, domain, escrow, fair | `ClientRecovers`, `ChangesReached`, `UpkeepDone` |
| `services` | the twelve other parts | `JudgedFairly`, `OffersRight`, `AllAccounted`, `ExitsSafely`, `WorkerSound`, `SettingsAddUp` |
| `services_live` | selection, caches, alerts, emitter, fair | `ShortReassessed`, `TasksFinish` |
| `process_live` | process, signal, loops, fair | `ShutdownWorks`, `DeathNoticed` |

Each property of `MCChain` and `MCServices` is the conjunction of the types of the
parts it names and of what their modules state, each with a mutant of its own:

| Property | Part | Stated there | In words |
|---|---|---|---|
| `ReadsSafe` | pool | `WalksTheWholeRing`, `RefusalNamed`, `WalkWithinBudget` | a call gives up only after asking every endpoint, names a contract's refusal it met, and takes no longer than the deadline assumes if it makes one request an attempt (as both under the submit lock do), or than that and the second requests if it makes two |
| | seen | `SeenIsReal`, `ReadsNeverGoBack` | one faulty endpoint neither makes a confirmed number run ahead of the chain, but for the time it took to confirm it first, nor takes reads back behind one that was remembered |
| `SlotsSafe` | tx | `SlotsDistinct`, `GapsOwned` | no two submissions share a nonce, and a gap has a call that watches it, unless that call was dropped or failed to fill it |
| `CursorSafe` | cursor | `NothingLost`, `CheckedOnce`, `CursorForward` | no change is passed in silence, none is checked twice by one process, the cursor never goes back |
| `ListenerOnTime` | poll | `OpenPolledFast`, `SweepsBackOff`, `LostCancelsSwept` | a wake-up is not lost, a dead broker blocks ever more rarely, a lost cancel is tried in time, and again after every sweep that left it |
| | clock | `NotExpiredEarly`, `ClockForward`, `ClockCatchesUp` | stored time is never far ahead, never goes back and is not held back |
| `UpkeepKept` | domain, escrow | `DomainUsable`, `NoSlotSkipped` | the domain in use is one dipper can sign under; a rebalance is owed until it is done |
| `ClientRecovers` | tx, seen | `SentSlotMined`, `SeenSettles` | a sent slot is mined unless it, or one before it, was left; no false block refuses reads for good |
| `UpkeepDone` | domain, escrow | `DomainFollows`, `SteadyTermsCancel`, `EndedReleased`, `ThawsWithdrawn` | the domain follows the contract, cancels under settled terms work, what ended is released, finished thaws are withdrawn |
| `JudgedFairly` | liveness | `OutageSparesServing`, `GoneIsAbandoned` | an outage costs no serving indexer its agreement before the breaker's hold, and no gone one is spared for longer than the holds, restarts and failed cycles add up to |
| | dips | `CountsWhatPassed`, `AlertBeforeBlock`, `BlockOutlasts`, `OutageBlocksNobody` | no time counts twice, alert first, a block lasts until an answer, outages block nobody |
| `OffersRight` | selection | `OwnWindow`, `PaysWhatIsAsked`, `AnnouncedOnce` | each decline has its own window, an offer pays what was asked but for the last wei and what a float is off, and never above a cap, a shortfall is announced once |
| | caches | `RegisteredIsShown` | what was readable all through a refresh is found |
| `AllAccounted` | alerts | `AlertsAccounted`, `OneMessagePerWindow` | each alert is in a message that was posted (or whose post failed), waiting or counted; one message per window |
| | emitter | `EventsCounted`, `KeyOrder`, `MarkedWasStored` | each event is sent, failed or counted; a key's events keep their order; a set marker means stored |
| `ExitsSafely` | process | `CleanExitIsClean`, `PoolClosedAlone`, `TeardownWithinGrace` | exit 0 means nothing failed, the pool is closed last, the teardown is bounded |
| `WorkerSound` | signal | `FlapsBackOff`, `RecoveryTold` | flapping subscriptions back off, a recovery is told |
| | loops | `PoolNeverLocked`, `WedgedIsSeen`, `SlowIsHealthy`, `DeathFailsWorker` | the pool cannot deadlock, hung loops are reported, slow ones are not while all loops run and the threshold covers a turn, a dead loop fails the worker |
| `SettingsAddUp` | configuration | `CollectionFits`, `RunsAsAssumed`, `StartedServes`, `GasBounded` | accepted settings leave room to collect, have the relations between settings that the modules here assume, and start; gas stays in its bounds |
| | calls, retries | `SelectionWithinSpan`, `OutageKeepsJob`, `BudgetOutlastsWindow` | the IISA calls of a reassessment end within their two spans, so the backstop cuts them only where the two spans outlast it, an outage loses no job, the offer's budget lasts its window |
| `TasksFinish` | caches, alerts, emitter | `CacheStops`, `AlertsTold`, `FlushHeard` | a stop and the flush come to their end, and every alert is put in a message that is posted, or lost in its only post |
| `ShutdownWorks` | process | `RequestHeard`, `ShutdownEnds` | a request is heard whenever it comes, and ends the process though services hang |
| `DeathNoticed` | signal, loops | `LossNoticed`, `DeathDrainsWorker` | a dead subscription is given up, a dead loop takes the worker down |

**Bounds.** Two loops and two faults are what it takes for one loop to lose its
connection, another to take the job, and either to fail afterwards; of two jobs of one
priority the younger waits for the older. A second offer job exists only after a job
fault. One fault in `lifecycle` keeps the state space within minutes; the proofs cover
both reasons for a cancel and any number of faults, jobs and loops. In `Replacement`
two agreements are an old one and its replacement, two loops are what the reassess
lock keeps apart, and the window of one makes every offer compete for it. In `MCChain`
three endpoints are a faulty one and two that agree against it, of which one may stay
silent with it (`chain_live` silences only the faulty one: `SeenSettles` needs two
that answer); three submissions and three faults let a lost answer, an eviction, a
stale count and a job timeout meet (any three of them); two calls with three moves of
the shared index, of one and of two requests an attempt, meet on the ring; one fault
and four time steps let a sweep fail and the next one come, at two polls a sweep; two
agreements with two changes each over pages of one make a drain of more than one page
with a poisoned row in the first and an ended one behind it, and a later change that
hides an earlier one until it is taken back; the reorg depth equals the buffer, the
least the code can do with, and blocks go far enough for a change to leave the buffer
after it moved. In `MCServices` three indexers are the fewest of which a breaker's
minimum of two can be short of everybody; fifteen cycles are two trips of the liveness
breaker with a restart between; queues of one and two overflow with three events; the
teardown's grace is two steps longer than the stop sequence of two services; a
threshold of four is the longest turn of one tick, one wait and two for a job; the
quotes are prices at, above and below the caps, none, negative and not a number, in
halves of a wei with an error of one half; two surplus cancels of 300 s each outlast
the backstop of 420 s; `Configuration` tries every pair of settings away from the
defaults. Every bound is a named constant of its module.

Symmetry is used for loops, offer jobs, agreements, calls and indexers, which no
definition tells apart, and only in runs without liveness properties.

**Fairness.** `JobQueue`: every loop keeps stepping (it polls each second and a
job is cut after `PROCESS_JOB_TIMEOUT`), schedules come due, a worker that ended is
started again. `JobsEnd` excludes endless deferral: the code neither counts a
deferral nor moves the row back in the order. `AgreementLifecycle`: every service
is an endless loop on a timer and every job is polled, so each task's next step
is weakly fair; the strong fairness of `SubgraphSyncs`, `ListenFetch`,
`RetryConfirms` and `SweepSends("terminated")` stands for pauses that run out
(the subgraph's lag, the reorg buffer re-reading the last change,
`LISTENER_GRACE`, `TERMINATED_TX_WAIT_MINUTES`). `Replacement`: a pass once
started goes on, the listener's fan-outs and sweeps and the expiration service run
on timers, deadlines pass; nothing is assumed of queued reassessments, so
`CanceledDrains` does not rest on them. The indexer owes nothing. In `MCChain` and
`MCServices` each part keeps the fairness of its own module: its tasks go on when
they can (tokio runs what is ready and every wait has a timer), time passes, and
the network mines what is next in line. Strong fairness is assumed of a job being
popped (`StartRun`, `Pop`: jobs are taken in order and none is passed over for
ever), of a handler coming back from its calls (`JobEnds`), of the branch of a
`select!` that is ready again and again (`CacheHearsStop`, `Check`) and of time
(`LoopsTick`). A behaviour stays in its part, so fairness of a disjunction with
one disjunct of each part is fairness of each of them.

**The violated property.** `OldStaysUntilReplaced` is a sentence of a comment that
the code does not keep (`findings` quotes it): a second reassessment of a request
before its replacement is accepted takes the replacement for a current agreement
and cancels the old one at once, so for a while, or for good if the offer fails,
nothing serves in its place.

**Sentences stated but not run.** The modules also state, each next to the
properties that do hold, what other comments say and the code does not always do.
TLC finds a counterexample to each on an instance like the ones above:

* `AgreementLifecycle!ExpiredNeverContradicted`: a page that fails to apply holds
  the cursor, but the persisted chain time advances, so an agreement can be
  announced expired and then accepted;
* `AgreementLifecycle!AcceptedLeads`: a failed query in the accepted sweep counts
  as idle, so `terminated` can be announced before `accepted`;
* `AgreementLifecycle!RejectedNeverAccepted`: a proposal job that is run twice can
  mark its agreement Rejected although the offer of its first run is accepted (the
  check job then ends it: `ZombieEnds`);
* `ChainCursor!EverySnapshotReconciled`: while the reorg buffer holds a full run of
  pages, each drain reads the same pages again;
* `ChainCursor!ReorgsReread`, from the comment on `reorg_buffer_blocks`: a row is an
  agreement at its latest change. While a drain applies a full first page, an
  agreement's row is on the next page because of a change in the last blocks; a
  reorganisation takes that change back, the row falls back to its earlier change
  before the page just read, and the cursor passes it. `NothingLost` exempts exactly
  this case (a change followed by one that was taken back) and is proved otherwise;
* `TxSender!FailedSkipsNothing`: a submission that failed after its slot was taken
  leaves a slot the counter has passed;
* `TxSender!DroppedLeavesNoGap`, from the comment on `PROCESS_JOB_TIMEOUT` that a job
  can safely be run again: the timeout drops the call that watches a transaction, the
  transaction is evicted, and its slot stays empty below the counter;
* `RpcPool!LongestWalk`, from the comment on `worst_case_walk`: a walk of two requests
  an attempt takes longer (neither of the two under the submit deadline is one);
* `RcaDomain!StoredHashIsTheCollectors`: an upgrade between plan and offer leaves
  the row with a hash no cancel will match;
* `EscrowReconciler!NoSlotSkippedSinceStart`: a first sweep that fails before its
  window is handed out skips the slots it covered;
* `Selection!BreakerResumes`: the unresponsive breaker is evaluated only when
  somebody is unresponsive, so it stays tripped when everybody has recovered (it
  then has nobody to spare);
* `Process!StopSequenceCeiling`: a stop step may start while an earlier one is
  still running out, and the sequence takes longer than the comment on
  `TEARDOWN_GRACE` adds up;
* `OutboundCalls!BackstopMeansSilence`: four answered attempts of a slow indexer, or
  two slow cancels on the chain, outlast `PROCESS_JOB_TIMEOUT`.

## 4. Proofs

`tlapm` checks every leaf, for all values of the constants; bounds on faults, steps
and lengths are any natural numbers. Every invariant and every action property that
a run checks is the statement of a theorem; only liveness is left to TLC. The
assumptions are the `ASSUME`s of the modules, one or two in each, which TLC
evaluates on every run. They give the constants their shape and state what the code
relies on:

* a reorganisation is no deeper than the buffer and starts above the first blocks;
* the fast interval is not longer than the slow one; a stop order is not empty and
  does not name the signal handler;
* a block of the terms watcher lasts at least three intervals, and its alert comes
  before it (`block_duration`, `DipsInfoWatcherConfig::validate`); the breaker of
  the selection resets below where it trips;
* there are at least three endpoints and one is faulty; a minute of blocks is less
  than a week of them;
* indexers, endpoints, providers, agreements and loops are finite sets; estimates
  of gas are `u64`s.

That the pool has a connection for every loop and background service is not assumed:
it is what start-up accepts. What `RunsAsAssumed` lists holds of every accepted
configuration, and that is proved (`ConfigurationSound`): the order of the terms
watcher's two delays and the shares that trip the watcher and the liveness checker,
the dead band and the positive caps of the selection, caps on offers that can bind,
an event queue that is not empty, and the size of the pool. The health threshold and
the timeouts and retries of IISA, of the indexers and of the providers are not
validated by the code against the job's timeout, and the modules assume nothing of
them; where a property depends on them it says so (`SlowIsHealthy`,
`SelectionWithinSpan`). The back-ends have no exponentiation, so `ChainPoll`
and `JobSignal` assume the few facts about `2^n` that the doubling pauses need, as
bounded arithmetic that TLC evaluates.

Where a sum over a bounded range is needed (the back-offs of a walk, the time held,
the counts of the providers, the waits of a job) the model has a recursive function,
and what it adds up to is proved by the smallest number for which it would not
(`SmallestIn`, from the library's well-founded order of the natural numbers).

*JobQueue_proofs.* `QueueInvariant` proves an inductive invariant: types, a lock
belongs to the loop processing that job, a loop in `running` or `settling` has a
job, and the attempt budget. From it follow `QueueTypes`, `QueueLockDiscipline`,
`QueueAttemptBudget`, the action property `QueueOnlyTheHolderSettles`, and
`QueueImplementsLedger`, the refinement: each step maps to one ledger step or a
stutter, a crash to `GiveBack` of all held jobs.

*AgreementLifecycle_proofs.* First what each row function keeps and changes;
`Lasting` is the set of marks that no later write removes. None of the four
invariants is inductive: whether an end may be written depends on what a task saw
several steps before. `IInv` adds, per task, what it knows at each program point:
the subgraph trails the chain (`SubgraphTrails`); every trace of an accept came from
it (`AcceptWasSeen`); a starter about to record an end has seen the payer's cancel
on the chain (`StarterKnows`); the retry's outcome is still true when it writes,
because an end is never undone and nothing is accepted past the deadline
(`RetryKnows`); a row that is ended with an accept on record is over (`EndIsKnown`);
an abandoned row stays tracked until it is over (`AbandonIsTracked`). One step per
action shows that each part is kept. `LifecycleTypes`, `LifecycleBlame`,
`LifecycleEndedIsOver`, `LifecycleAnnouncements`, `LifecycleSlotHeld` and
`LifecycleCancelIsFinal` follow.

*Replacement_proofs.* A pass decides from counts it read several awaits before. The
invariant says that only the holder of the reassess lock is between counting and
finishing; while it selects, the offers out are among those it counted, because
others only take offers away; while it adds, the offers out and those still in its
plan fit the window together, and the indexers of the plan are distinct and have no
active agreement of the request. `ReplacementWindow`, `ReplacementOneOffer`,
`ReplacementKeepsEnough` and `ReplacementTypes` follow. Most of the work is about
cardinalities: an offer more, an offer less, a plan shorter by one.

*ChainCursor_proofs.* `CursorInvariant`. A change is over (`Over`) once it was taken,
or another of its agreement followed it, on the chain still or taken back since;
nothing undoes that. What is at least `ReorgDepth` before the pin of a drain can no
longer be replaced (`OutOfReach`), and every such change up to where the drain has
read is over (`DrainSound`). An answer has every row between the cursor it was asked
with and the next one, however much of it does not parse (`AnswerIs`, from
`PageIsFirst` and `ShortPageIsLast`), so all of those are over once the page was
applied or stepped over (`PageSound`); and what a drain from the new cursor would
not read again is out of reach (`BehindTheBuffer`). A check that was forgotten is
of a change no later drain reads (`ChecksSound`), which needs that no change is in
the first `Buffer` blocks: below them the place a drain starts from is not monotone
in the cursor. That finite sets have greatest elements is proved from the library's
well-founded order of finite sets (`Greatest`). The attempt to prove the earlier
form of `NothingLost` is what led to the case `ReorgsReread` describes.

*TxSender_proofs.* `SenderInvariant`: the submit lock serialises what reads or moves
the counter, so the slot of the call that sends is the counter; the counter passes a
slot only when the network has a transaction in it; such a slot empties when it is
mined, for good, or evicted, and then the call that sent it still watches it or was
dropped or gave up, in which case the slot is in `lost`. `SenderSlots` follows.

*MCChain_proofs.* One invariant for each part without a proof module of its own.

* The poll loop (`PollInv`): a listener that knows of an open agreement holds a
  permit or is fast, what it has waited and what is left of the timer fit the
  interval; the pause is the one the failed sweeps in a row call for; a lost cancel
  is no older than the polls since the last sweep and `SWEEP_POLLS` for each sweep
  that tried it and failed. The chain time (`ClockInv`).
* The endpoints (`PoolInv`): a walk has asked every endpoint between the index it
  read and the one it is at, whatever others made of the shared index, so after
  `Endpoints` of them it asked all (`RingWalked`, about remainders); it spent at
  most a full budget at each endpoint it left and the attempts at this one
  (`SpentAtMost`), and those add up to `WalkBudget` of its requests an attempt, which
  for one request is `WorstCaseWalk`.
* The newest block (`SeenInv`): the number is no further than the head or than what
  the faulty endpoint reports; once it is confirmed, either that endpoint is ahead
  by no more than a minute and the time to the first confirmation, or its block is
  within the chain's reach, or the number is not its (`StillFresh`). What a cross check agrees on is a
  block a right endpoint vouches for, or the faulty one's within a minute of it
  (`AgreedIs`: any two that agree include a right one). Each read carries what it
  found: its floor is within a minute of the lowest block it accepts (`ReadSound`).
* The domain (`DomainInv`) and the escrow (`EscrowInv`). A list of providers that
  was read to its end without a sign of a change has every tracked one: an entry
  moves into a place already read only when the list becomes shorter, and then its
  last entry cannot be read (`ListRead`). A window over `(from, to]` sees every slot
  in it, because whole periods are monotone (`SlotBetween`, `WindowIs`); whoever is
  found is owed until a transaction went through, and one that did is good for
  everything handed out (`Reconciled`), so no slot since the first window is neither
  owed nor done (`SlotsKept`).

Then the lifting: a step of the composition is, for each part, a step of its own or
none, so `ChainSlotsSafe`, `ChainListenerOnTime`, `ChainCursorSafe`,
`ChainReadsSafe` and `ChainUpkeepKept` hold of `ChainSpec` as the run `chain` checks
them.

*Services_proofs.* Eight parts of `MCServices`, each for itself.

* `ProcessInvariant`: what was joined, requested and stopped, the place in the stop
  sequence and the clock of the teardown agree. `ProcessExits` follows: exit 0 only
  when nothing failed, the pool closed alone, the grace kept.
* `CachesSound`: a refresh under way has read every entity it passed that was
  readable ever since it began; pages come in order of ids, so none is passed over.
* `SelectionSound`: an offer under way has prices dipper pays, which come to what was
  asked, less the last wei and what the float is off, though the monthly one is
  rounded to wei per second and back (`WholeWei`, `RatePays`, `OfferPays`, about
  quotients); what was announced and not covered since is still short.
* `DipsSound`: what is counted of an indexer fits between its last good answer and
  the last recorded cycle, however cycles fail between asking, writing and blocking
  (`CountSound`); a count past the limit was alerted on; a block reaches
  `BlockFor` past the last cycle that ended, and every cycle asks whoever is blocked
  and blocks again whoever is due (`BlockSound`); only who broke is counted while
  enough are watched (`FaultSound`).
* `ConfigurationSound`: a configuration past a check was accepted by it and is as it
  was then, so offers, gas limits and refusals have its terms. The values a file may
  have make this bounded arithmetic over saturating `u64`s.
* `CallsSound`: a reassessment has spent, at its n-th attempt, no more than the
  attempts before it can (`SpentSound`), so the first call is over after a span and
  the second after two, whatever the backstop is.
* `RetriesSound`: an offer that gave up has waited at least what its retries wait
  after the shorter back-off, which `retries_within_window` made longer than the
  window unless the cap cut it.
* `LivenessSound`: indexers that serve are treated alike; a trip that few gone ones
  cannot cause began in an outage that is not over (`TripsInOutage`); the span held
  reaches as far as the trip did, but for failed cycles (`SpanReaches`); nobody was
  without progress for longer than the tolerance, the time left out and the holds
  so far add up to (`ProgressSound`). The time left out is a sum
  over spans, at least the span of the trip and at most the longest hold
  (`GraceIs`).

*MCServices_proofs.* `LoopsSound`, by counting: the connections in use are those of
the loops and services that hold one, and the pool has as many as can want one at a
time, so a waiter is always served; a wedged loop's watermark goes stale, and a slow
one's age is at most what its turn took so far (so no threshold is assumed).
`SignalSound`: an attempt to subscribe waits for what the failures in a row call for.
`AlertsSound`: a count moves between the queue, the drop counter, a window and a
message, which is posted or lost in its post, and a queue loses or gains one place at
a time; that messages about an event are a window apart needs that its window is never
older than its last message (`QuietSince`). `EmitterSound`: the ids of the diagnostic
events are in the order they were produced in, those sent or failed before the one the
drain task holds and that before the queue (`IdsInOrder`), which is why an append
keeps a partition in order; the ones that are nowhere are as many as were counted
(`LostAreCounted`), at least for as long as every source stops when told: one that
outlives its stop can queue an event after the task's last look and before the channel
closes (`CloseQueue`). `ServicesExit`, `ServicesWorker`, `ServicesAccounted`,
`ServicesOffers`, `ServicesSettings` and `ServicesJudged` lift all of these to
`ServicesSpec`.

**What the proofs changed.** An invariant that TLC accepts on a small instance can be
false on a larger one; the attempt to prove it shows the case.

* `NothingLost` had to exempt the case `ReorgsReread` describes.
* `SeenIsReal` without the time to the first confirmation is false when a right
  endpoint stays silent as well and the number the faulty one set is confirmed late;
  `ReadsNeverGoBack` holds only against reads that were remembered, since a block
  over a minute ahead is used by its read and then waits for a second endpoint.
* `GoneIsAbandoned` and `OutageSparesServing` have the bounds restarts and failed
  cycles really cost, and `FewGone` leaves out the stuck ones, which answer only
  until they are abandoned.
* The cases of `Reports` overlapped: a stuck indexer in an outage is unreachable.
* What is proved of a watched slot, a walk and a health check names the case that is
  left out: a slot whose call the job timeout dropped, a walk of two requests an
  attempt, a threshold shorter than a turn.
* A block of the terms watcher outlasts the next cycle only if it lasts three
  intervals or more, which is what `block_duration` sees to.

**Only model-checked.** Liveness (`JobsEnd`, `StopDrains`, `CancelEnds`, `ZombieEnds`,
`EndIsAnnounced`, `SwapCompletes`, `CanceledDrains`, `ClientRecovers`,
`ChangesReached`, `UpkeepDone`, `ShortReassessed`, `TasksFinish`, `ShutdownWorks`,
`DeathNoticed`), since the prover does not reason about fairness; and the violated
property.

## 5. Plan

The model covers the parts `PROJECT.json` lists and every safety property of the
runs is proved. What would extend it:

1. `AgreementLifecycle` shown to implement the rows of `Replacement`, and
   `JobSignal` the ticks of `JobQueue`.
2. The safety half of the leads-to properties as invariants with a decreasing
   measure (`StopDrains`, `ShutdownWorks`), which would leave only fairness to TLC.

## 6. Not modelled

* The command line, the identifiers, the message types, the admin API's listing
  and authorisation: no state that changes.
* Encodings (ABI, EIP-712 bytes, Avro, JSON): a value is what the code later
  compares. The manager role probe is one read at start-up that is only logged.
* What IISA answers and how it scores is a remote service: any answer is allowed.
* Migrations and the SQL of listing queries.
* Agreements without a terms hash, which the liveness checker cannot cancel and leaves
  active. Gas limits are exact percentages; the code's float product is the same below
  2^53.
* The wall-clock length of pauses in `AgreementLifecycle` and `Replacement` is
  abstracted to "may have passed"; the modules of the parts count time.
* Settings the checks let through and the code cannot serve: an interval of zero
  (tokio panics and the supervisor ends the process), `agreements_per_sweep` of
  zero, a gas multiplier below one; and a gap is filled without regard to
  `max_gas_price`. They are consequences of one line each.
