------------------------------ MODULE Selection ------------------------------
(***************************************************************************)
(* Who is offered an agreement next, and when dipper looks again: the      *)
(* records that keep an indexer from a new offer, the mass-unresponsive    *)
(* breaker and its cached pool, the prices, the shortfall latch, and the   *)
(* reassignment service that queues reassessments.                         *)
(*                                                                         *)
(* The requests are on one chain, each on a deployment of its own, and are *)
(* numbered by age. What a reassessment does with its additions and        *)
(* removals is the module Replacement; here each may happen or not.        *)
(***************************************************************************)
EXTENDS Integers, FiniteSetsExt

CONSTANTS
  NumRequests,
  Pickable,         \* indexers
  Wanted,           \* num_candidates of every request
  TransientFor, UncertainFor, PriceFor, StandardFor,  \* lookbacks of declines
  UnresponsiveFor,  \* lookback of a failure to respond
  CacheFor,         \* TTL of the cached pool
  SnapshotFor,      \* age at which IISA's pool no longer counts
  TripFraction, ResetFraction,   \* in percent
  PeriodSeconds,    \* seconds of 30 days
  Grain,            \* the parts of a wei that prices are counted in
  FloatError,       \* how far a product of floats is off, in such parts
  MaxU128,          \* u128::MAX, in wei
  PriceCap, EntityCap,           \* PriceCeilings
  HasTable, TablePrice, TableEntityPrice,  \* the chain's entry of pricing_table
  Quotes,           \* the prices IISA may report for an indexer
  TopUpBatch,       \* batch_size
  FailedPushes,     \* MAX_FAILED_PUSHES_IN_A_ROW
  TopUpsPerDay,     \* top-up passes for each full pass
  SelChanges,       \* bound on agreements, indexers and pools that change
  SelFaults         \* bound on failed calls

(* A price of IISA: absent, a number, or a NaN or an infinity. A number is *)
(* told by what it comes to in wei over 30 days, exactly and in parts of a *)
(* wei, and by how far off the float product is that dipper computes.      *)
Amounts == [kind : {"none", "number", "nan"}, exact : Int, off : -FloatError .. FloatError]
NoPrice == [kind |-> "none", exact |-> 0, off |-> 0]
NaN     == [kind |-> "nan", exact |-> 0, off |-> 0]
Number(exact, off) == [kind |-> "number", exact |-> exact, off |-> off]
NoCap   == -1

ASSUME SelectionAssumption ==
  /\ {NumRequests, Wanted, TransientFor, UncertainFor, PriceFor, StandardFor, UnresponsiveFor,
      CacheFor, SnapshotFor, TripFraction, ResetFraction, PeriodSeconds, Grain,
      TopUpBatch, FailedPushes, TopUpsPerDay} \subseteq Nat \ {0}
  /\ {FloatError, MaxU128, TablePrice, TableEntityPrice, SelChanges, SelFaults} \subseteq Nat
  /\ {PriceCap, EntityCap} \subseteq Nat \cup {NoCap} /\ HasTable \in BOOLEAN
  /\ Quotes \subseteq [perMonth : Amounts, perEntity : Amounts]
  /\ ResetFraction < TripFraction   \* DipsAgreementConfig::validate

Requests == 1 .. NumRequests
Longest  == Max({TransientFor, UncertainFor, PriceFor, StandardFor, UnresponsiveFor,
                 CacheFor, SnapshotFor}) + 1

VARIABLES
  holds,      \* [request -> [indexer -> its open agreement]]
  ended,      \* [request -> [indexer -> its last declined agreement]]
  silentAge,  \* [indexer -> age of its last Unresponsive agreement]
  denied,     \* the denylist
  pool,       \* IISA's DIPs-accepting snapshot
  cache,      \* DipsAcceptingCache: [age, indexers, computed]
  tripped,    \* UnresponsiveBreaker
  short,      \* requests with shortfall_active
  announced,  \* requests whose n_indexers_unavailable was sent since the latch was clear (ghost)
  repeated,   \* whether one was sent twice (ghost)
  queued,     \* requests with a queued reassessment
  run,        \* the reassessment that holds reassess_lock
  pass,       \* the pass of the reassignment service
  topUps,     \* top-up passes since the last full one
  selChanges, selFaults

rowVars == <<holds, ended, silentAge, denied>>
selVars == <<rowVars, pool, cache, tripped, short, announced, repeated, queued, run, pass,
             topUps, selChanges, selFaults>>

Never   == Longest
NoRun   == [at |-> "none"]
NoPass  == [at |-> "none"]
NoEnded == [status |-> "none", reason |-> "none", offered |-> FALSE, age |-> Never]
NoCache == [age |-> Never, indexers |-> {}, computed |-> Never]

(* The ways an agreement ends that count as declined. An expired one may   *)
(* carry the reason of an earlier rejection.                               *)
Declines ==
  [status : {"Rejected"}, reason : {"price", "transient", "uncertain", "lasting"}, offered : {TRUE}]
    \cup [status : {"Expired"}, reason : {"none"}, offered : BOOLEAN]
    \cup [status : {"Expired"}, reason : {"uncertain"}, offered : {FALSE}]
    \cup [status : {"CanceledByIndexer", "AbandonedByIndexer"}, reason : {"none"}, offered : {TRUE}]
Aged(e, age) == [status |-> e.status, reason |-> e.reason, offered |-> e.offered, age |-> age]

SelectionTypeOK ==
  /\ holds \in [Requests -> [Pickable ->
       {"none", "Created", "AcceptedOnChain", "Cancelling", "HoldingSlot"}]]
  /\ \A r \in Requests, i \in Pickable :
       ended[r][i] \in {NoEnded} \cup {Aged(e, age) : e \in Declines, age \in 0 .. Longest}
  /\ silentAge \in [Pickable -> 0 .. Longest]
  /\ denied \subseteq Pickable
  /\ pool \in [indexers : SUBSET Pickable, computed : 0 .. Longest]
  /\ cache \in [age : 0 .. Longest, indexers : SUBSET Pickable, computed : 0 .. Longest]
  /\ tripped \in BOOLEAN /\ repeated \in BOOLEAN
  /\ short \subseteq Requests /\ announced \subseteq Requests /\ queued \subseteq Requests
  /\ run.at \in {"none", "breaker", "choose", "register"}
  /\ pass.at \in {"none", "list"}
  /\ topUps \in 0 .. TopUpsPerDay
  /\ selChanges \in 0 .. SelChanges /\ selFaults \in 0 .. SelFaults

SelectionInit ==
  /\ holds = [r \in Requests |-> [i \in Pickable |-> "none"]]
  /\ ended = [r \in Requests |-> [i \in Pickable |-> NoEnded]]
  /\ silentAge = [i \in Pickable |-> Never]
  /\ denied = {}
  /\ pool = [indexers |-> Pickable, computed |-> 0]
  /\ cache = NoCache
  /\ tripped = FALSE
  /\ short = {} /\ announced = {} /\ repeated = FALSE
  /\ queued = Requests
  /\ run = NoRun /\ pass = NoPass /\ topUps = 0
  /\ selChanges = 0 /\ selFaults = 0

SelFail   == selFaults < SelFaults /\ selFaults' = selFaults + 1
SelChange == selChanges < SelChanges /\ selChanges' = selChanges + 1

-----------------------------------------------------------------------------
(* The records that keep an indexer from a new offer.                      *)

(* Mutant: the catch-all takes in the expiries that never had an offer.    *)
DeclinedInCatchAllToo(e) ==
  \/ e.reason = "price"     /\ e.age <= PriceFor
  \/ e.reason = "transient" /\ e.age <= TransientFor
  \/ e.reason = "uncertain" /\ e.age <= UncertainFor
  \/ e.status = "Expired" /\ ~e.offered /\ e.reason = "none" /\ e.age <= TransientFor
  \/ e.reason \notin {"price", "transient", "uncertain"} /\ e.age <= StandardFor

(* The branches of get_declined_indexers_by_deployment.                    *)
DeclinedNow(e) ==
  /\ e.status # "none"
  /\ \/ e.reason = "price"     /\ e.age <= PriceFor
     \/ e.reason = "transient" /\ e.age <= TransientFor
     \/ e.reason = "uncertain" /\ e.age <= UncertainFor
     \/ e.status = "Expired" /\ ~e.offered /\ e.reason = "none" /\ e.age <= TransientFor
     \/ /\ e.reason \notin {"price", "transient", "uncertain"}
        /\ ~(e.status = "Expired" /\ ~e.offered /\ e.reason = "none")
        /\ e.age <= StandardFor

In(r, statuses) == {i \in Pickable : holds[r][i] \in statuses}
Active(r)       == In(r, {"Created", "AcceptedOnChain"})
Held(r)         == In(r, {"HoldingSlot"})                 \* get_abandoned_indexers_holding_slots
BeingEnded(r)   == In(r, {"Cancelling", "HoldingSlot"})   \* exclude_cancelling_indexers

DeclinedOn(r) == {i \in Pickable : DeclinedNow(ended[r][i])}
Unanswering        == {i \in Pickable : silentAge[i] <= UnresponsiveFor}

(* offerable_indexers: those of the pool the records leave free.           *)
Offerable(indexers, r) ==
  indexers \ (Active(r) \cup BeingEnded(r) \cup DeclinedOn(r) \cup denied \cup Unanswering
                \cup Held(r))

-----------------------------------------------------------------------------
(* The breaker, and the pool it is judged against.                         *)

Hit     == cache.age < CacheFor
Fetched == [age |-> 0, indexers |-> pool.indexers, computed |-> pool.computed]

(* get_or_fetch: the cached pool, or IISA's.                               *)
PoolRead == IF Hit THEN cache ELSE Fetched

(* UnresponsiveBreaker::evaluate: the new state, or the old one when the   *)
(* pool is unknown, too old or empty.                                      *)
Usable(snapshot) == snapshot.computed <= SnapshotFor /\ snapshot.indexers # {}

Evaluated(snapshot, unresponsive) ==
  LET benched == 100 * Cardinality(unresponsive \cap snapshot.indexers)
      size    == Cardinality(snapshot.indexers)
  IN CASE ~Usable(snapshot)                            -> tripped
       [] ~tripped /\ benched > TripFraction * size    -> TRUE
       [] tripped /\ benched < ResetFraction * size    -> FALSE
       [] OTHER                                        -> tripped

Suppresses(snapshot, unresponsive) == Usable(snapshot) /\ Evaluated(snapshot, unresponsive)

-----------------------------------------------------------------------------
(* The prices.                                                             *)

(* `as u128`: a fraction of a wei is cut off, what is below zero is 0 and  *)
(* what is too large is the largest.                                       *)
AsU128(amount) == IF amount < 0 THEN 0 ELSE Min({amount \div Grain, MaxU128})

(* Mutant: the division rounds down.                                       *)
WeiPerSecondFloor(price) == AsU128(price.exact + price.off) \div PeriodSeconds

(* grt_per_30_days_to_wei_per_second, and the same per entity: the product *)
(* as whole wei, and a division that rounds up.                            *)
WeiPerSecond(price) ==
  (AsU128(price.exact + price.off) + PeriodSeconds - 1) \div PeriodSeconds

(* within_cap: finite, not below zero, at most the cap if there is one.    *)
WithinCap(price, cap) ==
  price.kind = "number" /\ 0 <= price.exact /\ (cap = NoCap \/ price.exact <= cap)

Table   == [perSecond |-> TablePrice, perEntity |-> TableEntityPrice]
Unpriced == [perSecond |-> -1, perEntity |-> -1]

(* resolve_pricing: the prices IISA reports, or those of the table. A      *)
(* price per entity is reported or it is 0, and counts only beside one for *)
(* the month.                                                              *)
Offered(quote) ==
  CASE quote.perMonth.kind = "none" -> IF HasTable THEN Table ELSE Unpriced
    [] /\ WithinCap(quote.perMonth, PriceCap)
       /\ quote.perEntity.kind = "none" \/ WithinCap(quote.perEntity, EntityCap) ->
         [perSecond |-> WeiPerSecond(quote.perMonth),
          perEntity |-> IF quote.perEntity.kind = "none" THEN 0
                        ELSE WeiPerSecond(quote.perEntity)]
    [] OTHER -> Unpriced

-----------------------------------------------------------------------------
(* A reassessment. reassess_lock lets one run at a time.                   *)

passVars == <<pass, topUps>>

(* The open agreements, the held slots and gather_selection_context.       *)
StartRun(r) ==
  /\ run = NoRun /\ r \in queued
  /\ run' = [at |-> "breaker", r |-> r, current |-> Active(r), held |-> Held(r),
             declined |-> DeclinedOn(r) \cup BeingEnded(r), denied |-> denied,
             silent |-> Unanswering \ denied]
  /\ queued' = queued \ {r}
  /\ UNCHANGED <<rowVars, pool, cache, tripped, short, announced, repeated, passVars,
                 selChanges, selFaults>>

(* With nobody unresponsive the breaker is not asked. Otherwise it decides *)
(* whether they are sent to IISA as declined, and a pool that cannot be    *)
(* read leaves it as it is.                                                *)
AskBreaker ==
  /\ run.at = "breaker"
  /\ \/ /\ run.silent = {}
        /\ run' = [run EXCEPT !.at = "choose"]
        /\ UNCHANGED <<cache, tripped, selFaults>>
     \/ LET snapshot == PoolRead IN
          /\ run.silent # {}
          /\ cache' = snapshot
          /\ tripped' = Evaluated(snapshot, run.silent)
          /\ run' = [run EXCEPT !.at = "choose",
                                !.declined = @ \cup IF Suppresses(snapshot, run.silent)
                                                    THEN {} ELSE run.silent]
          /\ UNCHANGED selFaults
     \/ /\ run.silent # {} /\ ~Hit /\ SelFail
        /\ run' = [run EXCEPT !.at = "choose", !.declined = @ \cup run.silent]
        /\ UNCHANGED <<cache, tripped>>
  /\ UNCHANGED <<rowVars, pool, short, announced, repeated, queued, passVars, selChanges>>

(* Mutant: the latch reports a change each time it is set.                 *)
LatchChangedAlways(r, active) == active

(* set_indexing_request_shortfall_active: whether the value changed.       *)
LatchChanged(r, active) == active # (r \in short)

(* select_indexers: IISA keeps or drops members of the group, adds others  *)
(* that accept DIPs and are not declined, and names a price for each.      *)
(* Dipper works out its offers, then sets the latch.                       *)
Choose ==
  /\ run.at = "choose"
  /\ \E kept \in SUBSET (run.current \ run.denied),
        new \in SUBSET (pool.indexers \ (run.current \cup run.declined \cup run.denied)) :
       /\ Cardinality(kept) + Cardinality(new) <= Wanted
       /\ \E quote \in [new -> Quotes] :
            LET offers    == {i \in new \ run.held : Offered(quote[i]) # Unpriced}
                picks     == Cardinality(kept) + Cardinality(offers)
                             + Cardinality(new \cap run.held)
                shortfall == picks < Wanted
            IN /\ run' = [at |-> "register", r |-> run.r, gone |-> run.current \ kept,
                          room |-> Max({0, Wanted - Cardinality(run.held) - Cardinality(kept)}),
                          offers |-> [i \in offers |-> quote[i]]]
               /\ \/ /\ short' = IF shortfall THEN short \cup {run.r} ELSE short \ {run.r}
                     /\ LET sent == shortfall /\ LatchChanged(run.r, shortfall)
                        IN /\ repeated' = (repeated \/ (sent /\ run.r \in announced))
                           /\ announced' = CASE sent       -> announced \cup {run.r}
                                             [] ~shortfall -> announced \ {run.r}
                                             [] OTHER      -> announced
                     /\ UNCHANGED selFaults
                  \/ SelFail /\ UNCHANGED <<short, announced, repeated>>
  /\ UNCHANGED <<rowVars, pool, cache, tripped, queued, passVars, selChanges>>

(* IISA is unavailable or rejects the call: the job is tried again.        *)
IisaFails ==
  /\ run.at = "choose" /\ SelFail
  /\ run' = NoRun
  /\ queued' = queued \cup {run.r}
  /\ UNCHANGED <<rowVars, pool, cache, tripped, short, announced, repeated, passVars, selChanges>>

(* Some of the offers become agreements and some of the dropped members    *)
(* are cancelled.                                                          *)
Register ==
  /\ run.at = "register"
  /\ \E added \in SUBSET DOMAIN run.offers, dropped \in SUBSET run.gone :
       /\ Cardinality(added) <= run.room
       /\ holds' = [holds EXCEPT ![run.r] = [i \in Pickable |->
            CASE i \in added /\ @[i] = "none"                               -> "Created"
              [] i \in dropped /\ @[i] \in {"Created", "AcceptedOnChain"} -> "Cancelling"
              [] OTHER                                                     -> @[i]]]
  /\ run' = NoRun
  /\ UNCHANGED <<ended, silentAge, denied, pool, cache, tripped, short, announced, repeated,
                 queued, passVars, selChanges, selFaults>>

RunStep == AskBreaker \/ Choose \/ IisaFails \/ Register

-----------------------------------------------------------------------------
(* The reassignment service.                                               *)

(* already_queued: an unreadable queue reads as an empty one.              *)
QueuedOrRunning == queued \cup (IF run = NoRun THEN {} ELSE {run.r})

(* Mutant: the full pass is capped as well.                                *)
FullListCapped(skip) == {Min(Requests)} \ skip

(* get_open_indexing_requests_for_reassessment, without a limit.           *)
FullList(skip) == Requests \ skip

(* get_short_open_indexing_requests, less those to skip.                   *)
ShortList(skip) == short \ skip

(* short_requests_with_a_free_indexer: the short requests below their      *)
(* target that the pool has a free indexer for, the oldest first, until    *)
(* the batch is full. The unresponsive are left out whatever the breaker.  *)
TopUpList(skip, indexers) ==
  LET fits(r) ==
        /\ Cardinality(Active(r)) + Cardinality(Held(r)) < Wanted
        /\ Offerable(indexers, r) # {}
      all == {r \in ShortList(skip) : fits(r)}
  IN {r \in all : Cardinality({q \in all : q < r}) < TopUpBatch}

(* queue_reassessments: the requests that are queued when the pushes of    *)
(* lost fail. Too many failures in a row end the pass.                     *)
Pushed(todo, lost) ==
  LET lastOf(q)  == {p \in todo :
                       p <= q /\ Cardinality({x \in todo : p < x /\ x <= q}) < FailedPushes}
      stopsAt(q) == lastOf(q) \subseteq lost /\ Cardinality(lastOf(q)) = FailedPushes
  IN {r \in todo \ lost : ~\E q \in todo : q < r /\ stopsAt(q)}

Queues(todo, lost) ==
  /\ IF lost = {} THEN UNCHANGED selFaults ELSE SelFail
  /\ queued' = queued \cup Pushed(todo, lost)

(* The full pass, which a top-up follows that skips what it queued. An     *)
(* unreadable list ends it.                                                *)
FullPass ==
  /\ pass = NoPass /\ topUps = TopUpsPerDay
  /\ topUps' = 0
  /\ \/ \E lost \in SUBSET FullList(QueuedOrRunning) :
          /\ Queues(FullList(QueuedOrRunning), lost)
          /\ pass' = [at |-> "list",
                      skip |-> QueuedOrRunning \cup Pushed(FullList(QueuedOrRunning), lost)]
     \/ /\ SelFail   \* the queue could not be read
        /\ queued' = queued \cup FullList({})
        /\ pass' = [at |-> "list", skip |-> FullList({})]
     \/ /\ SelFail   \* the requests could not be read
        /\ pass' = [at |-> "list", skip |-> QueuedOrRunning]
        /\ UNCHANGED queued
  /\ UNCHANGED <<rowVars, pool, cache, tripped, short, announced, repeated, run, selChanges>>

(* The top-up pass, by itself or after a full one. A failed read ends it.  *)
TopUpPass ==
  /\ \/ pass.at = "list" /\ UNCHANGED topUps
     \/ pass = NoPass /\ topUps < TopUpsPerDay /\ topUps' = topUps + 1
  /\ LET skip == IF pass = NoPass THEN QueuedOrRunning ELSE pass.skip
         todo == TopUpList(skip, PoolRead.indexers)
     IN \/ /\ cache' = IF ShortList(skip) = {} THEN cache ELSE PoolRead
           /\ \E lost \in SUBSET todo : Queues(todo, lost)
        \/ SelFail /\ UNCHANGED <<cache, queued>>
  /\ pass' = NoPass
  /\ UNCHANGED <<rowVars, pool, tripped, short, announced, repeated, run, selChanges>>

PassStep == FullPass \/ TopUpPass

-----------------------------------------------------------------------------
(* What happens meanwhile.                                                 *)

(* An agreement changes: it is accepted, declined, never answered, ended   *)
(* by its indexer or by dipper. Some of these queue a reassessment.        *)
RowChanges ==
  /\ SelChange
  /\ \E r \in Requests, i \in Pickable :
       /\ \/ /\ holds[r][i] = "Created" /\ holds' = [holds EXCEPT ![r][i] = "AcceptedOnChain"]
             /\ UNCHANGED <<ended, silentAge>>
          \/ /\ holds[r][i] = "Created" /\ holds' = [holds EXCEPT ![r][i] = "none"]
             /\ \E e \in Declines :
                  /\ e.status \in {"Rejected", "Expired"}
                  /\ ended' = [ended EXCEPT ![r][i] = Aged(e, 0)]
             /\ UNCHANGED silentAge
          \/ /\ holds[r][i] = "Created" /\ holds' = [holds EXCEPT ![r][i] = "none"]
             /\ silentAge' = [silentAge EXCEPT ![i] = 0]
             /\ UNCHANGED ended
          \/ /\ holds[r][i] = "AcceptedOnChain"
             /\ holds' = [holds EXCEPT ![r][i] = "none"]
             /\ ended' = [ended EXCEPT ![r][i] = Aged(
                  [status |-> "CanceledByIndexer", reason |-> "none", offered |-> TRUE], 0)]
             /\ UNCHANGED silentAge
          \/ /\ holds[r][i] = "AcceptedOnChain"
             /\ holds' = [holds EXCEPT ![r][i] = "HoldingSlot"]
             /\ UNCHANGED <<ended, silentAge>>
          \/ /\ holds[r][i] \in {"HoldingSlot", "Cancelling"}
             /\ holds' = [holds EXCEPT ![r][i] = "none"]
             /\ \/ UNCHANGED ended
                \/ ended' = [ended EXCEPT ![r][i] = Aged(
                     [status |-> "AbandonedByIndexer", reason |-> "none", offered |-> TRUE], 0)]
             /\ UNCHANGED silentAge
       /\ queued' \in {queued, queued \cup {r}}
  /\ UNCHANGED <<denied, pool, cache, tripped, short, announced, repeated, run, passVars,
                 selFaults>>

(* An indexer is put on the denylist or taken off it, or IISA computes its *)
(* pool anew.                                                              *)
PoolChanges ==
  /\ SelChange
  /\ \/ \E i \in Pickable :
          /\ denied' = IF i \in denied THEN denied \ {i} ELSE denied \cup {i}
          /\ UNCHANGED pool
     \/ \E indexers \in SUBSET Pickable :
          pool' = [indexers |-> indexers, computed |-> 0] /\ UNCHANGED denied
  /\ UNCHANGED <<holds, ended, silentAge, cache, tripped, short, announced, repeated, queued, run,
                 passVars, selFaults>>

Older(age) == Min({age + 1, Longest})

(* Lookbacks are minutes to days, a pass or a reassessment takes seconds:  *)
(* time passes between them.                                               *)
SelTick ==
  /\ run = NoRun /\ pass = NoPass
  /\ ended' = [r \in Requests |-> [i \in Pickable |->
       IF ended[r][i] = NoEnded THEN NoEnded ELSE [ended[r][i] EXCEPT !.age = Older(@)]]]
  /\ silentAge' = [i \in Pickable |-> Older(silentAge[i])]
  /\ pool' = [pool EXCEPT !.computed = Older(@)]
  /\ cache' = IF cache.age + 1 >= CacheFor THEN NoCache
              ELSE [cache EXCEPT !.age = @ + 1, !.computed = Older(@)]
  /\ UNCHANGED <<holds, denied, tripped, short, announced, repeated, queued, run, passVars,
                 selChanges, selFaults>>

SelectionNext ==
  \/ \E r \in Requests : StartRun(r)
  \/ RunStep \/ PassStep \/ RowChanges \/ PoolChanges \/ SelTick

SelectionSpec == SelectionInit /\ [][SelectionNext]_selVars

(* A queue that pops by age runs each of its jobs in the end.              *)
SelectionFairSpec ==
  /\ SelectionSpec
  /\ \A r \in Requests : SF_selVars(StartRun(r))
  /\ WF_selVars(RunStep) /\ WF_selVars(PassStep)

-----------------------------------------------------------------------------
(* The window each reason earns.                                           *)
Window(e) ==
  CASE e.reason = "price"                                         -> PriceFor
    [] e.reason = "transient"                                     -> TransientFor
    [] e.reason = "uncertain"                                     -> UncertainFor
    [] e.reason = "none" /\ e.status = "Expired" /\ ~e.offered    -> TransientFor
    [] OTHER                                                      -> StandardFor

(* OwnWindow. An indexer stays declined for as long as its reason earns    *)
(* and no longer: the branches of get_declined_indexers_by_deployment      *)
(* leave no row in two windows and none in no window. An expiry whose offer*)
(* never reached the chain is dipper's fault and gets the short one.       *)
OwnWindow ==
  \A r \in Requests, i \in Pickable :
    ended[r][i] # NoEnded => (DeclinedNow(ended[r][i]) <=> ended[r][i].age <= Window(ended[r][i]))

(* A price dipper may pay, and a rate that does: over the 30 days it comes *)
(* to what was asked, less what a float is off and the last wei cut off,   *)
(* and to less than a wei a second more.                                   *)
Pays(rate, asked, cap) ==
  /\ asked.kind = "number" /\ asked.exact >= 0 /\ (cap # NoCap => asked.exact <= cap)
  /\ LET paid == rate * PeriodSeconds * Grain
     IN /\ paid > Min({asked.exact - FloatError, MaxU128 * Grain}) - Grain
        /\ paid < asked.exact + FloatError + PeriodSeconds * Grain

(* PaysWhatIsAsked. Whatever prices IISA names, an offer pays the indexer  *)
(* that much over the 30 days and for its entities, short of it by less    *)
(* than a wei and what a float is off, over it by less than a wei a        *)
(* second. None is made for a price above its cap, below zero or not a     *)
(* number, which the conversion to wei would turn into 0, and where IISA   *)
(* names none the offer is the table's, if there is one.                   *)
PaysWhatIsAsked ==
  run.at = "register" =>
    \A i \in DOMAIN run.offers :
      LET asked == run.offers[i]
          terms == Offered(asked)
      IN \/ asked.perMonth.kind = "none" /\ HasTable /\ terms = Table
         \/ /\ Pays(terms.perSecond, asked.perMonth, PriceCap)
            /\ asked.perEntity.kind # "none" => Pays(terms.perEntity, asked.perEntity, EntityCap)

(* AnnouncedOnce. A shortfall is announced once: no n_indexers_unavailable *)
(* event follows another for the request until a reassessment has seen it  *)
(* fully covered, whatever fails or is run again between.                  *)
AnnouncedOnce == ~repeated

(* ShortReassessed. A request left short is looked at again, also when the *)
(* batch of each top-up is used up by older requests that IISA keeps       *)
(* passing over, and when the queue or the registry fails for a while.     *)
ShortReassessed == \A r \in Requests : r \in short ~> (run.at = "breaker" /\ run.r = r)

(* BreakerResumes. What UnresponsiveBreaker::evaluate says of itself, "trip*)
(* above trip, resume below reset": after a reassessment that saw nobody   *)
(* unresponsive, the exclusion is not suppressed.                          *)
BreakerResumes ==
  [][run.at = "breaker" /\ run.silent = {} /\ run'.at = "choose" => ~tripped']_selVars
=============================================================================
