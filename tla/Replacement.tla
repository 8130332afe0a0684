----------------------------- MODULE Replacement ------------------------------
(***************************************************************************)
(* The agreements of the indexing requests: how a reassessment keeps each  *)
(* request at its target by offering new agreements, pairing each with an  *)
(* old one it is to replace (a pending cancellation), and cancelling the   *)
(* rest; and what the other services do to the same rows meanwhile:        *)
(*                                                                         *)
(*   the admin RPC sets targets; the reassignment service queues periodic  *)
(*   reassessments; proposal jobs and the expiration service retire an     *)
(*   offer that failed, drop its pending cancellations and queue a         *)
(*   reassessment; the chain listener sees accepts and ends, and cancels   *)
(*   what an accepted agreement replaces; its sweeps pick up fan-outs a    *)
(*   crash cut short and the agreements of cancelled requests; the         *)
(*   liveness checker abandons agreements, which hold their slot until     *)
(*   they can no longer be paid.                                           *)
(*                                                                         *)
(* How a cancel is carried through, and how the chain's view reaches the   *)
(* listener, is the subject of AgreementLifecycle: here a cancel started   *)
(* ends in one step, and the offer's clock says whether the listener may   *)
(* still see an accept. A row is down to the statuses another row's fate   *)
(* depends on; an agreement that is over (ended, unresponsive, or rejected *)
(* or expired with no accept to come) counts as no row, and its identity   *)
(* may be used again once nothing refers to it.                            *)
(*                                                                         *)
(* Abstractions. Reassessments of one request waiting together in the      *)
(* queue count as one: the run that takes the first does what the others   *)
(* would. A pass that finds the lock taken is deferred, which is no step.  *)
(* Its reads are two steps, around the checks between them: the target and *)
(* the active agreements, then the held slots and the offers in flight.    *)
(* What IISA is told and which picks dipper can offer to (known indexer,   *)
(* usable price) is open: any answer of at most `target` indexers, any of  *)
(* the new ones offerable. Every agreement has its terms hash.             *)
(***************************************************************************)
EXTENDS AgreementRow, FiniteSets

CONSTANTS
  Requests,       \* identities of indexing requests
  KeyOf,          \* the (requester, deployment, chain) key of each request
  Indexers,       \* a set of numbers: indexer ids are ordered
  Agreements,     \* identities of agreements
  Runners,        \* the worker loops
  None,           \* no runner, request, agreement or owner
  Targets,        \* the numbers of candidates a caller may ask for
  GlobalCap,      \* max_in_flight_offers_total
  PerIndexerCap,  \* max_in_flight_offers_per_indexer
  Events,         \* what happens to agreements, a subset of EventKinds
  MaxFaults       \* bound on the faults of one behaviour

(* An indexer declines an offer, lets it lapse, ends an agreement it       *)
(* accepted or stops serving it; an ended agreement is found live.         *)
EventKinds == {"decline", "expire", "end", "abandon", "reopen"}

ASSUME ReplacementAssumption ==
  /\ Indexers \subseteq Nat /\ IsFiniteSet(Indexers)
  /\ IsFiniteSet(Agreements)
  /\ DOMAIN KeyOf = Requests
  /\ None \notin Runners \cup Requests \cup Agreements
  /\ None \notin Requests \X Indexers
  /\ Targets \subseteq Nat
  /\ GlobalCap \in Nat /\ PerIndexerCap \in Nat
  /\ Events \subseteq EventKinds
  /\ MaxFaults \in Nat

VARIABLES
  request,  \* dipper_reg_indexing_requests: status and target
  status,   \* dipper_reg_indexing_agreements: what becomes of each row
  owner,    \* the request and indexer of each row
  offer,    \* each offer's clock: "open", "past" its deadline, or "settled"
  pending,  \* dipper_pending_cancellations: pairs <<new, old>>
  queued,   \* the requests a reassessment is queued for
  lock,     \* who holds the reassess lock
  pass,     \* what each worker loop's reassessment holds in memory
  fresh,    \* agreements just seen accepted, their fan-out to come
  fan,      \* the listener's fan-out: the new agreement, the olds to do
  chores,   \* what a service has left to do for an agreement it just marked
  faults    \* faults so far

rowVars     == <<status, owner, offer>>
serviceVars == <<fresh, fan, chores>>
vars == <<request, status, owner, offer, pending, queued, lock, pass, fresh,
          fan, chores, faults>>

-----------------------------------------------------------------------------
(* "Abandoning" is Cancelling with replacement_pending and not yet seen    *)
(* ended: it holds its slot. "Vacated" is one that can no longer be paid,  *)
(* its replacement still to be queued.                                     *)
RowStatuses == {"none", "Created", "Rejected", "Expired", "AcceptedOnChain",
                "Cancelling", "Abandoning", "Vacated"}

ActiveStatuses == {"Created", "AcceptedOnChain"}

NoFan == [new |-> None, todo |-> {}]

(* A pass holds the target and the active agreements it read, the indexers *)
(* holding slots and the offers in flight; then its plan: the indexers to  *)
(* add, the old agreements neither kept nor reserved, how many offers were *)
(* withheld, and (for KeepsEnough) how many agreements the target group    *)
(* can spare. Agreements are paired with their indexers.                   *)
Stages  == {"idle", "counting", "selecting", "adding"}
Listing == SUBSET (Agreements \X Indexers)

Idle == [at |-> "idle", request |-> None, target |-> 0, active |-> {},
         held |-> {}, counted |-> {}, add |-> {}, olds |-> {},
         withheld |-> 0, spare |-> 0]

Passes == [at : Stages, request : Requests \cup {None}, target : Nat,
           active : Listing, held : SUBSET Indexers, counted : Listing,
           add : SUBSET Indexers, olds : SUBSET Agreements,
           withheld : Nat, spare : Nat]

(* After a mark: delete the pending cancellations, and, for an offer that  *)
(* was retired, queue a reassessment of its request.                       *)
Chores == [for : Agreements, queue : SUBSET Requests,
           by : {"proposal", "expiration", "liveness"}]

TypeOK ==
  /\ request \in [Requests -> [status : {"none", "Open", "Canceled"},
                               target : Nat]]
  /\ status \in [Agreements -> RowStatuses]
  /\ owner \in [Agreements -> (Requests \X Indexers) \cup {None}]
  /\ \A a \in Agreements : owner[a] = None <=> status[a] = "none"
  /\ offer \in [Agreements -> {"open", "past", "settled"}]
  /\ pending \subseteq Agreements \X Agreements
  /\ queued \subseteq Requests
  /\ lock \in Runners \cup {None}
  /\ pass \in [Runners -> Passes]
  /\ fresh \subseteq Agreements
  /\ fan \in [new : Agreements \cup {None}, todo : SUBSET Agreements]
  /\ chores \subseteq Chores
  /\ faults \in 0 .. MaxFaults

Init ==
  /\ request = [r \in Requests |-> [status |-> "none", target |-> 0]]
  /\ status = [a \in Agreements |-> "none"]
  /\ owner = [a \in Agreements |-> None]
  /\ offer = [a \in Agreements |-> "settled"]
  /\ pending = {}
  /\ queued = {}
  /\ lock = None
  /\ pass = [w \in Runners |-> Idle]
  /\ fresh = {}
  /\ fan = NoFan
  /\ chores = {}
  /\ faults = 0

Fault ==
  /\ faults < MaxFaults
  /\ faults' = faults + 1

Minus(m, n) == IF m > n THEN m - n ELSE 0
MinOf(m, n) == IF m < n THEN m ELSE n

RequestOf(a) == owner[a][1]
IndexerOf(a) == owner[a][2]

Named(S) == {<<a, IndexerOf(a)>> : a \in S}

Created == {a \in Agreements : status[a] = "Created"}

(* get_active_indexing_agreements_by_indexing_request_id.                  *)
ActiveOf(r) == {a \in Agreements : /\ status[a] \in ActiveStatuses
                                   /\ RequestOf(a) = r}

(* get_abandoned_indexers_holding_slots.                                   *)
HeldBy(r) == {i \in Indexers : \E a \in Agreements :
                /\ status[a] = "Abandoning"
                /\ owner[a] = <<r, i>>}

(* count_created_agreements_by_indexer: what it counts. An accept settles  *)
(* the offer's clock.                                                      *)
InFlight ==
  Created \cup {a \in Agreements : /\ status[a] = "Cancelling"
                                   /\ offer[a] = "open"}

(* Mutant: an agreement that is over stays listed under its request.       *)
MoveKeepsOwner(a, st, clock) ==
  /\ status' = [status EXCEPT ![a] = st]
  /\ owner' = owner
  /\ offer' = [offer EXCEPT ![a] = IF st = "none" THEN "settled" ELSE clock]

(* A row's new status and clock; one that is over is no row.               *)
Move(a, st, clock) ==
  /\ status' = [status EXCEPT ![a] = st]
  /\ owner' = IF st = "none" THEN [owner EXCEPT ![a] = None] ELSE owner
  /\ offer' = [offer EXCEPT ![a] = IF st = "none" THEN "settled" ELSE clock]

Stay == UNCHANGED rowVars

(* mark_indexing_agreement_as_cancelling.                                  *)
MarkedCancelling(a) ==
  IF status[a] \in CancellingFrom
    THEN Move(a, "Cancelling", offer[a]) ELSE Stay

Mentioned ==
  UNION {{p[1], p[2]} : p \in pending}
    \cup UNION {{p[1] : p \in pass[w].active} \cup pass[w].olds : w \in Runners}
    \cup fresh \cup fan.todo \cup {fan.new} \cup {c.for : c \in chores}

(* Identities for new agreements.                                          *)
Free == {a \in Agreements : status[a] = "none"} \ Mentioned

-----------------------------------------------------------------------------
(* The admin RPC and the periodic reassignment.                            *)

OpenFor(k) == {r \in Requests : KeyOf[r] = k /\ request[r].status = "Open"}

(* set_indexing_target_candidates: what becomes of the key's requests.     *)
(* No change, and no reassessment, for the target the key already has.     *)
SetTargetRow(k, r, n) ==
  \/ /\ OpenFor(k) = {} /\ n > 0
     /\ KeyOf[r] = k /\ request[r].status = "none"
     /\ request' = [request EXCEPT ![r] = [status |-> "Open", target |-> n]]
  \/ /\ r \in OpenFor(k) /\ n > 0 /\ n # request[r].target
     /\ request' = [request EXCEPT ![r].target = n]
  \/ /\ r \in OpenFor(k) /\ n = 0
     /\ request' = [request EXCEPT ![r].status = "Canceled"]

SetTarget(k, r, n) ==
  /\ SetTargetRow(k, r, n)
  /\ queued' = queued \cup {r}
  /\ UNCHANGED <<rowVars, pending, lock, pass, serviceVars, faults>>

(* The row is changed, but its reassessment can't be queued.               *)
SetTargetUnqueued(k, r, n) ==
  /\ Fault
  /\ SetTargetRow(k, r, n)
  /\ UNCHANGED <<rowVars, pending, queued, lock, pass, serviceVars>>

(* The full pass; the top-up and freed-request passes queue fewer.         *)
Reassign(r) ==
  /\ request[r].status = "Open"
  /\ r \notin queued
  /\ \A w \in Runners : pass[w].request # r
  /\ queued' = queued \cup {r}
  /\ UNCHANGED <<request, rowVars, pending, lock, pass, serviceVars, faults>>

-----------------------------------------------------------------------------
(* The reassessment.                                                       *)

Plan(w, p) == pass' = [pass EXCEPT ![w] = p]

Release(w) == lock' = IF lock = w THEN None ELSE lock

(* Mutant: passes run side by side.                                        *)
StartUnlocked(w, r) ==
  /\ pass[w].at = "idle"
  /\ r \in queued
  /\ queued' = queued \ {r}
  /\ lock' = w
  /\ Plan(w, [Idle EXCEPT !.at = "counting", !.request = r,
                          !.target = IF request[r].status = "Open"
                                       THEN request[r].target ELSE 0,
                          !.active = Named(ActiveOf(r))])
  /\ UNCHANGED <<request, rowVars, pending, serviceVars, faults>>

(* Mutant: the target is read, and the status is not.                      *)
StartIgnoresCancel(w, r) ==
  /\ lock = None
  /\ pass[w].at = "idle"
  /\ r \in queued
  /\ queued' = queued \ {r}
  /\ lock' = w
  /\ Plan(w, [Idle EXCEPT !.at = "counting", !.request = r,
                          !.target = request[r].target,
                          !.active = Named(ActiveOf(r))])
  /\ UNCHANGED <<request, rowVars, pending, serviceVars, faults>>

(* The lock is taken; the target (none once cancelled) and the active      *)
(* agreements are read.                                                    *)
Start(w, r) ==
  /\ lock = None
  /\ pass[w].at = "idle"
  /\ r \in queued
  /\ queued' = queued \ {r}
  /\ lock' = w
  /\ Plan(w, [Idle EXCEPT !.at = "counting", !.request = r,
                          !.target = IF request[r].status = "Open"
                                       THEN request[r].target ELSE 0,
                          !.active = Named(ActiveOf(r))])
  /\ UNCHANGED <<request, rowVars, pending, serviceVars, faults>>

(* should_defer_saturated: the window is full and the request wants more.  *)
Saturated(p, held) ==
  /\ Cardinality(InFlight) >= GlobalCap
  /\ Minus(p.target, Cardinality(held)) > Cardinality(p.active)

(* The held slots and the offers in flight are read.                       *)
CountInFlight(w) ==
  LET p    == pass[w]
      held == HeldBy(p.request)
  IN /\ p.at = "counting"
     /\ ~Saturated(p, held)
     /\ Plan(w, [p EXCEPT !.at = "selecting", !.held = held,
                          !.counted = Named(InFlight)])
     /\ UNCHANGED <<request, rowVars, pending, queued, lock, serviceVars,
                    faults>>

DeferSaturated(w) ==
  /\ pass[w].at = "counting"
  /\ Saturated(pass[w], HeldBy(pass[w].request))
  /\ Plan(w, Idle)
  /\ Release(w)
  /\ queued' = queued \cup {pass[w].request}
  /\ UNCHANGED <<request, rowVars, pending, serviceVars, faults>>

(* Mutant: offers in flight do not count against the global cap.           *)
AdmitsAnew(candidates, admitted, counted) ==
  LET eligible ==
        {i \in candidates :
           Cardinality({c \in counted : c[2] = i}) < PerIndexerCap}
  IN /\ admitted \subseteq eligible
     /\ Cardinality(admitted) = MinOf(Cardinality(eligible), GlobalCap)
     /\ \A i \in admitted : \A j \in eligible : j < i => j \in admitted

(* plan_capped_additions: of the indexers within their own cap, the lowest *)
(* ids that the global cap has room for.                                   *)
Admits(candidates, admitted, counted) ==
  LET eligible ==
        {i \in candidates :
           Cardinality({c \in counted : c[2] = i}) < PerIndexerCap}
  IN /\ admitted \subseteq eligible
     /\ Cardinality(admitted) =
          MinOf(Cardinality(eligible), Minus(GlobalCap, Cardinality(counted)))
     /\ \A i \in admitted : \A j \in eligible : j < i => j \in admitted

(* Mutant: every agreement IISA dropped leaves at once.                    *)
ReservesNone(cancels, adds, admitted) == 0

(* reserved_cancel_count.                                                  *)
ReservedCancelCount(cancels, adds, admitted) ==
  MinOf(cancels, adds) - MinOf(cancels, admitted)

(* The plan for IISA's `picks`, of which dipper can make the new ones in   *)
(* `offers` an offer: `add` fills the room in IISA's order, `admitted` is  *)
(* what pacing lets out now, and `olds` leave (the query has no order).    *)
Select(w, picks, offers, add, admitted, olds) ==
  LET p       == pass[w]
      current == {c[2] : c \in p.active}
      room    == Minus(p.target,
                       Cardinality(p.held) + Cardinality(picks \cap current))
      outs    == {c[1] : c \in {d \in p.active : d[2] \notin picks}}
  IN /\ p.at = "selecting"
     /\ Cardinality(picks) <= p.target
     /\ offers \subseteq picks \ (current \cup p.held)
     /\ Cardinality(offers) <= Cardinality(Free)
     /\ add \subseteq offers
     /\ Cardinality(add) = MinOf(room, Cardinality(offers))
     /\ Admits(add, admitted, p.counted)
     /\ olds \subseteq outs
     /\ Cardinality(olds) = Cardinality(outs) -
          ReservedCancelCount(Cardinality(outs), Cardinality(picks \ current),
                              Cardinality(admitted))
     /\ Plan(w, [Idle EXCEPT
                   !.at = "adding", !.request = p.request,
                   !.add = admitted, !.olds = olds,
                   !.withheld = Cardinality(add) - Cardinality(admitted),
                   !.spare = Minus(Cardinality(p.active),
                                   Cardinality(picks))])
     /\ UNCHANGED <<request, rowVars, pending, queued, lock, serviceVars,
                    faults>>

Insert(w, i, a) ==
  /\ a \in Free
  /\ status' = [status EXCEPT ![a] = "Created"]
  /\ owner' = [owner EXCEPT ![a] = <<pass[w].request, i>>]
  /\ offer' = [offer EXCEPT ![a] = "open"]

(* register_agreement_with_pending_cancellation, while olds are left.      *)
RegisterPaired(w, i, a, o) ==
  /\ pass[w].at = "adding"
  /\ i \in pass[w].add
  /\ o \in pass[w].olds
  /\ Insert(w, i, a)
  /\ pending' = pending \cup {<<a, o>>}
  /\ Plan(w, [pass[w] EXCEPT !.add = @ \ {i}, !.olds = @ \ {o}])
  /\ UNCHANGED <<request, queued, lock, serviceVars, faults>>

RegisterPlain(w, i, a) ==
  /\ pass[w].at = "adding"
  /\ i \in pass[w].add
  /\ pass[w].olds = {}
  /\ Insert(w, i, a)
  /\ Plan(w, [pass[w] EXCEPT !.add = @ \ {i}])
  /\ UNCHANGED <<request, pending, queued, lock, serviceVars, faults>>

(* The insert fails: the indexer is skipped, and the old one stays.        *)
RegisterFails(w, i, olds) ==
  /\ Fault
  /\ pass[w].at = "adding"
  /\ i \in pass[w].add
  /\ \/ pass[w].olds = {} /\ olds = {}
     \/ \E o \in pass[w].olds : olds = pass[w].olds \ {o}
  /\ Plan(w, [pass[w] EXCEPT !.add = @ \ {i}, !.olds = olds])
  /\ UNCHANGED <<request, rowVars, pending, queued, lock, serviceVars>>

(* cancel_unpaired, up to its mark.                                        *)
CancelUnpaired(w, o) ==
  /\ pass[w].at = "adding"
  /\ pass[w].add = {}
  /\ o \in pass[w].olds
  /\ MarkedCancelling(o)
  /\ Plan(w, [pass[w] EXCEPT !.olds = @ \ {o}])
  /\ UNCHANGED <<request, pending, queued, lock, serviceVars, faults>>

CancelUnpairedFails(w, o) ==
  /\ Fault
  /\ pass[w].at = "adding"
  /\ pass[w].add = {}
  /\ o \in pass[w].olds
  /\ Plan(w, [pass[w] EXCEPT !.olds = @ \ {o}])
  /\ UNCHANGED <<request, rowVars, pending, queued, lock, serviceVars>>

(* Done, or deferred to top up what pacing withheld.                       *)
Finish(w) ==
  /\ pass[w].at = "adding"
  /\ pass[w].add = {} /\ pass[w].olds = {}
  /\ Plan(w, Idle)
  /\ Release(w)
  /\ queued' = IF pass[w].withheld > 0 THEN queued \cup {pass[w].request}
                                       ELSE queued
  /\ UNCHANGED <<request, rowVars, pending, serviceVars, faults>>

(* A read, IISA or the job's time limit fails the pass; its job is queued  *)
(* again, or removed (fatal, or its attempts are spent).                   *)
PassFails(w, again) ==
  /\ Fault
  /\ pass[w].at # "idle"
  /\ again \subseteq {pass[w].request}
  /\ Plan(w, Idle)
  /\ Release(w)
  /\ queued' = queued \cup again
  /\ UNCHANGED <<request, rowVars, pending, serviceVars>>

-----------------------------------------------------------------------------
(* Offers that fail. The proposal job or the expiration service marks the  *)
(* row, drops the pending cancellations and queues a reassessment.         *)

Retire(a, st, by) ==
  /\ status[a] = "Created"
  /\ Move(a, IF offer[a] = "settled" THEN "none" ELSE st, offer[a])
  /\ chores' = chores \cup {[for |-> a, queue |-> {RequestOf(a)}, by |-> by]}
  /\ UNCHANGED <<request, pending, queued, lock, pass, fresh, fan, faults>>

(* mark_rejected_and_reassess, mark_failed_and_reassess: nothing moves an  *)
(* unresponsive row on.                                                    *)
Decline(a) ==
  /\ "decline" \in Events
  /\ Retire(a, "Rejected", "proposal") \/ Retire(a, "none", "proposal")

Expire(a) ==
  /\ "expire" \in Events
  /\ offer[a] # "open"
  /\ Retire(a, "Expired", "expiration")

(* delete_pending_cancellations_by_new_agreement.                          *)
PendingWithout(a) == {p \in pending : p[1] # a}

(* The pending cancellations are deleted, then the reassessment is queued. *)
DoChore(c) ==
  /\ pending' = PendingWithout(c.for)
  /\ queued' = queued \cup c.queue
  /\ chores' = chores \ {c}
  /\ UNCHANGED <<request, rowVars, lock, pass, fresh, fan, faults>>

(* No answer to the mark, and the service goes no further; nor does the    *)
(* proposal job when the delete fails, where the expiration service goes   *)
(* on; or the reassessment can't be queued.                                *)
ChoreFails(c) ==
  /\ Fault
  /\ \/ UNCHANGED <<pending, queued>>
     \/ /\ c.by = "expiration"
        /\ pending' = pending
        /\ queued' = queued \cup c.queue
     \/ /\ pending' = PendingWithout(c.for)
        /\ queued' = queued
  /\ chores' = chores \ {c}
  /\ UNCHANGED <<request, rowVars, lock, pass, fresh, fan>>

-----------------------------------------------------------------------------
(* The chain listener.                                                     *)

(* An accept is seen, alone or with the indexer's own cancel after it.     *)
Accept(a, st) ==
  /\ status[a] \in AcceptFrom
  /\ offer[a] # "settled"
  /\ st = "none" => "end" \in Events
  /\ Move(a, st, "settled")
  /\ fresh' = IF \E p \in pending : p[1] = a THEN fresh \cup {a} ELSE fresh
  /\ UNCHANGED <<request, pending, queued, lock, pass, fan, chores, faults>>

(* record_accept_of_cancelling.                                            *)
AcceptCancelling(a) ==
  /\ status[a] = "Cancelling"
  /\ offer[a] = "open"
  /\ Move(a, "Cancelling", "settled")
  /\ UNCHANGED <<request, pending, queued, lock, pass, serviceVars, faults>>

EndedByIndexer(a) ==
  /\ "end" \in Events
  /\ status[a] = "AcceptedOnChain"
  /\ Move(a, "none", "settled")
  /\ UNCHANGED <<request, pending, queued, lock, pass, serviceVars, faults>>

(* list_executable_pending_cancellations.                                  *)
Executable(a) ==
  status[a] = "AcceptedOnChain" /\ \E p \in pending : p[1] = a

(* get_pending_cancellations_by_new_agreement.                             *)
PendingOf(a) == {o \in Agreements : <<a, o>> \in pending}

Fanning(a, todo) == IF todo = {} THEN NoFan ELSE [new |-> a, todo |-> todo]

(* Mutant: no sweep; only an accept starts a fan-out.                      *)
FanOutOnAccept(a) ==
  /\ fan = NoFan
  /\ a \in fresh
  /\ fan' = Fanning(a, PendingOf(a))
  /\ fresh' = fresh \ {a}
  /\ UNCHANGED <<request, rowVars, pending, queued, lock, pass, chores,
                 faults>>

(* execute_pending_cancellations starts: after the accept, or swept.       *)
FanOut(a) ==
  /\ fan = NoFan
  /\ a \in fresh \/ Executable(a)
  /\ fan' = Fanning(a, PendingOf(a))
  /\ fresh' = fresh \ {a}
  /\ UNCHANGED <<request, rowVars, pending, queued, lock, pass, chores,
                 faults>>

(* start_replaced_cancel up to its mark. An expired one is read first: one *)
(* that is not live stays expired.                                         *)
ReplacedMark(o) ==
  \/ MarkedCancelling(o)
  \/ status[o] = "Expired" /\ Stay

(* delete_pending_cancellation.                                            *)
DeletePending(a, o) == pending \ {<<a, o>>}

ExecutePending(o) ==
  /\ o \in fan.todo
  /\ ReplacedMark(o)
  /\ pending' = DeletePending(fan.new, o)
  /\ fan' = Fanning(fan.new, fan.todo \ {o})
  /\ UNCHANGED <<request, queued, lock, pass, fresh, chores, faults>>

(* The row stays: the chain can't be read or the mark fails, and the rest  *)
(* goes on; or a row can't be read or deleted, which ends the fan-out.     *)
ExecutePendingFails(o, rest) ==
  /\ Fault
  /\ o \in fan.todo
  /\ \/ Stay /\ rest \in {fan.todo \ {o}, {}}
     \/ ReplacedMark(o) /\ rest = {}
  /\ fan' = Fanning(fan.new, rest)
  /\ UNCHANGED <<request, pending, queued, lock, pass, fresh, chores>>

(* get_agreements_pending_chain_cancel.                                    *)
Orphaned(a) ==
  status[a] = "AcceptedOnChain" /\ request[RequestOf(a)].status = "Canceled"

(* sweep_orphan_canceled_agreements, up to its mark.                       *)
SweepOrphan(a) ==
  /\ Orphaned(a)
  /\ Move(a, "Cancelling", "settled")
  /\ UNCHANGED <<request, pending, queued, lock, pass, serviceVars, faults>>

-----------------------------------------------------------------------------
(* Cancels, abandonment and time.                                          *)

(* A cancel ends: an accepted agreement's once it landed, an offer's only  *)
(* once its deadline is past.                                              *)
CancelEnds(a) ==
  /\ status[a] = "Cancelling" /\ offer[a] # "open"
  /\ Move(a, "none", "settled")
  /\ UNCHANGED <<request, pending, queued, lock, pass, serviceVars, faults>>

(* The check of a rejected agreement finds it live.                        *)
ReopenLive(a) ==
  /\ "reopen" \in Events
  /\ status[a] = "Rejected"
  /\ Move(a, "Cancelling", offer[a])
  /\ UNCHANGED <<request, pending, queued, lock, pass, serviceVars, faults>>

(* cancel_and_reassess up to its mark; forget_replaced_agreement is to     *)
(* come.                                                                   *)
Abandon(a) ==
  /\ "abandon" \in Events
  /\ status[a] = "AcceptedOnChain"
  /\ Move(a, "Abandoning", "settled")
  /\ chores' = chores \cup {[for |-> a, queue |-> {}, by |-> "liveness"]}
  /\ UNCHANGED <<request, pending, queued, lock, pass, fresh, fan, faults>>

(* It is seen ended, or its cancel ends: it can't be paid any more.        *)
Vacate(a) ==
  /\ status[a] = "Abandoning"
  /\ Move(a, "Vacated", "settled")
  /\ UNCHANGED <<request, pending, queued, lock, pass, serviceVars, faults>>

(* replace_abandoned: by the liveness checker once its end is noted, by    *)
(* the cancel retry once it has ended.                                     *)
ReplaceAbandoned(a) ==
  /\ status[a] = "Vacated"
  /\ queued' = IF request[RequestOf(a)].status = "Open"
                 THEN queued \cup {RequestOf(a)} ELSE queued
  /\ Move(a, "none", "settled")
  /\ UNCHANGED <<request, pending, lock, pass, serviceVars, faults>>

(* The replacement is queued and that can't be noted: it will be again.    *)
ReplaceUnmarked(a) ==
  /\ Fault
  /\ status[a] = "Vacated"
  /\ request[RequestOf(a)].status = "Open"
  /\ queued' = queued \cup {RequestOf(a)}
  /\ UNCHANGED <<request, rowVars, pending, lock, pass, serviceVars>>

(* The offer's deadline passes; later the listener has read every block    *)
(* before it, and a rejected or expired offer is over.                     *)
TimePasses(a) ==
  /\ offer[a] # "settled"
  /\ IF offer[a] = "open" THEN Move(a, status[a], "past")
     ELSE Move(a, IF status[a] \in {"Rejected", "Expired"} THEN "none"
                  ELSE status[a], "settled")
  /\ UNCHANGED <<request, pending, queued, lock, pass, serviceVars, faults>>

(* The process dies: what is in memory is lost, a running job is queued.   *)
Crash ==
  /\ Fault
  /\ pass' = [w \in Runners |-> Idle]
  /\ queued' = queued \cup ({pass[w].request : w \in Runners} \ {None})
  /\ lock' = None
  /\ fresh' = {}
  /\ fan' = NoFan
  /\ chores' = {}
  /\ UNCHANGED <<request, rowVars, pending>>

-----------------------------------------------------------------------------
Selection(w) ==
  \E picks \in SUBSET Indexers : \E offers \in SUBSET picks :
  \E add \in SUBSET offers : \E admitted \in SUBSET add :
  \E olds \in SUBSET {c[1] : c \in pass[w].active} :
    Select(w, picks, offers, add, admitted, olds)

Addition(w) ==
  \E i \in Indexers : \E a \in Agreements :
    \/ RegisterPlain(w, i, a)
    \/ \E o \in Agreements : RegisterPaired(w, i, a, o)

PassStep(w) ==
  \/ CountInFlight(w)
  \/ DeferSaturated(w)
  \/ Selection(w)
  \/ Addition(w)
  \/ \E o \in Agreements : CancelUnpaired(w, o)
  \/ Finish(w)

PassFault(w) ==
  \/ \E i \in Indexers : \E olds \in SUBSET Agreements :
       RegisterFails(w, i, olds)
  \/ \E o \in Agreements : CancelUnpairedFails(w, o)
  \/ \E again \in SUBSET Requests : PassFails(w, again)

FanOutStep ==
  \/ \E a \in Agreements : FanOut(a)
  \/ \E o \in Agreements : ExecutePending(o)

AgreementStep(a) ==
  \/ Decline(a)
  \/ Expire(a)
  \/ \E st \in {"AcceptedOnChain", "none"} : Accept(a, st)
  \/ AcceptCancelling(a)
  \/ EndedByIndexer(a)
  \/ SweepOrphan(a)
  \/ CancelEnds(a)
  \/ ReopenLive(a)
  \/ Abandon(a)
  \/ Vacate(a)
  \/ ReplaceAbandoned(a)
  \/ ReplaceUnmarked(a)
  \/ TimePasses(a)

Next ==
  \/ \E r \in Requests : \E n \in Targets :
       SetTarget(KeyOf[r], r, n) \/ SetTargetUnqueued(KeyOf[r], r, n)
  \/ \E r \in Requests : Reassign(r)
  \/ \E w \in Runners : \E r \in Requests : Start(w, r)
  \/ \E w \in Runners : PassStep(w) \/ PassFault(w)
  \/ \E c \in chores : DoChore(c) \/ ChoreFails(c)
  \/ FanOutStep
  \/ \E o \in Agreements : \E rest \in SUBSET Agreements :
       ExecutePendingFails(o, rest)
  \/ \E a \in Agreements : AgreementStep(a)
  \/ Crash

Spec == Init /\ [][Next]_vars

(* The worker loops and the listener keep running, deadlines pass, the     *)
(* expiration service and the sweeps run on timers. Whether an indexer     *)
(* answers an offer, ends an agreement or stops serving it is its own      *)
(* affair, and so is what the callers ask for.                             *)
Fairness ==
  /\ \A w \in Runners : WF_vars(PassStep(w))
  /\ WF_vars(FanOutStep)
  /\ \A a \in Agreements :
       /\ WF_vars(TimePasses(a))
       /\ WF_vars(Expire(a))
       /\ WF_vars(SweepOrphan(a))

FairSpec == Spec /\ Fairness

-----------------------------------------------------------------------------
(* Properties.                                                             *)

(* The offers out at one time never exceed the in-flight window, although  *)
(* a pass counts them once and registers its own one at a time, awaiting   *)
(* IISA in between, while other loops hold reassessments of other requests *)
(* and every service moves rows (plan_capped_additions, the reassess lock).*)
WindowRespected ==
  /\ Cardinality(Created) <= GlobalCap
  /\ \A i \in Indexers :
       Cardinality({a \in Created : IndexerOf(a) = i}) <= PerIndexerCap

(* A request never has two offers out to one indexer, whatever jobs are    *)
(* queued for it twice, fail half way or are run again (the diff against   *)
(* the active agreements, under the reassess lock).                        *)
OneOfferPerIndexer ==
  \A a, b \in Created : owner[a] = owner[b] => a = b

(* A pass takes agreements out without a replacement only as far as the    *)
(* agreements it found outnumber the target group: offers that pacing or a *)
(* held slot withholds, that dipper can't make or that fail to register    *)
(* cost no running agreement its place (reserved_cancel_count).            *)
KeepsEnough ==
  \A w \in Runners :
    pass[w].at = "adding" =>
      Cardinality(pass[w].olds) <= Cardinality(pass[w].add) + pass[w].spare

(* Once its replacement is accepted, an old agreement's cancellation is    *)
(* carried out, though a crash or a failed call cut the fan-out short,     *)
(* unless the replacement itself ends first.                               *)
SwapCompletes ==
  \A n \in Agreements : \A o \in Agreements \ {n} :
    (<<n, o>> \in pending /\ status[n] = "AcceptedOnChain") ~>
      (<<n, o>> \notin pending \/ status[n] # "AcceptedOnChain")

(* A cancelled request ends up, for good, without an offer or a running    *)
(* agreement, even if its reassessment is never queued or fails, and       *)
(* whatever was being registered or accepted when it was cancelled.        *)
CanceledDrains ==
  \A r \in Requests :
    request[r].status = "Canceled" ~> [](ActiveOf(r) = {})

(* reassess_indexing_request.rs: "Old agreements stay active until the     *)
(* chain_listener confirms the replacement is accepted on-chain": a pass   *)
(* that wants the replacement cancels no agreement it is yet to replace.   *)
OldStaysUntilReplaced ==
  [][\A p \in pending : \A w \in Runners :
       /\ status[p[1]] = "Created" /\ status'[p[1]] = "Created"
       /\ status[p[2]] = "AcceptedOnChain"
       /\ request[RequestOf(p[2])].status = "Open"
       /\ pass[w].at = "adding" /\ p[1] \notin pass[w].olds
       => status'[p[2]] # "Cancelling"]_vars

=============================================================================
