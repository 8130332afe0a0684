------------------------------- MODULE MCChain --------------------------------
(***************************************************************************)
(* The parts of dipper that face the chain and the subgraph, each explored *)
(* by itself: a behaviour is about the one part it starts in.              *)
(***************************************************************************)
EXTENDS RpcPool, TxSender, SeenBlock, ChainCursor, ChainPoll, ChainClock, RcaDomain,
        EscrowReconciler, TLC

CONSTANT ChainParts  \* the parts a run explores

VARIABLE part  \* the part this behaviour is about

clientVars   == <<poolVars, txVars, seenVars>>
listenerVars == <<cursorVars, pollVars, clockVars>>
upkeepVars   == <<rdVars, escVars>>
allVars      == <<part, clientVars, listenerVars, upkeepVars>>

(* Each indexer's slot of the rebalancing schedule.                        *)
MCSlot == [p \in Providers |-> IF p = "p2" THEN 1 ELSE 0]

(* What a part's start leaves open is open only in its own behaviours.     *)
ChainInit ==
  /\ part \in ChainParts
  /\ PoolInit /\ TxInit /\ SeenInit /\ CursorInit /\ PollInit /\ ClockInit
  /\ DomainInit /\ EscrowInit
  /\ part # "seen" => offset = Max(FaultyOffsets)
  /\ part # "poll" => agOpen /\ brokerUp /\ orphan
  /\ part # "escrow" =>
       "p1" \notin Range(listed) /\ books = [p \in Providers |-> <<>>]

Client(p, A) == part = p /\ A /\ UNCHANGED <<part, listenerVars, upkeepVars>>
Listener(p, A) == part = p /\ A /\ UNCHANGED <<part, clientVars, upkeepVars>>
Upkeep(p, A) == part = p /\ A /\ UNCHANGED <<part, clientVars, listenerVars>>

PoolPart(A)   == Client("pool", A) /\ UNCHANGED <<txVars, seenVars>>
TxPart(A)     == Client("tx", A) /\ UNCHANGED <<poolVars, seenVars>>
SeenPart(A)   == Client("seen", A) /\ UNCHANGED <<poolVars, txVars>>
CursorPart(A) == Listener("cursor", A) /\ UNCHANGED <<pollVars, clockVars>>
PollPart(A)   == Listener("poll", A) /\ UNCHANGED <<cursorVars, clockVars>>
ClockPart(A)  == Listener("clock", A) /\ UNCHANGED <<cursorVars, pollVars>>
DomainPart(A) == Upkeep("domain", A) /\ UNCHANGED escVars
EscrowPart(A) == Upkeep("escrow", A) /\ UNCHANGED rdVars

ChainNext ==
  \/ PoolPart(PoolNext) \/ TxPart(TxNext) \/ SeenPart(SeenNext)
  \/ CursorPart(CursorNext) \/ PollPart(PollNext) \/ ClockPart(ClockNext)
  \/ DomainPart(DomainNext) \/ EscrowPart(EscrowNext)

ChainSpec == ChainInit /\ [][ChainNext]_allVars

(* The fairness each part's own specification states.                      *)
ChainFairSpec ==
  /\ ChainSpec
  /\ \A c \in TxCalls : WF_allVars(TxPart(TxStep(c)))
  /\ WF_allVars(TxPart(Mine))
  /\ WF_allVars(SeenPart(Tick))
  /\ \A r \in BlockReaders : WF_allVars(SeenPart(ReadStep(r)))
  /\ WF_allVars(CursorPart(Drain)) /\ WF_allVars(CursorPart(HoldAges))
  /\ WF_allVars(DomainPart(RefreshTick)) /\ WF_allVars(DomainPart(ReadDomain))
  /\ \A a \in Rcas : WF_allVars(DomainPart(CancelMined(a)))
  /\ WF_allVars(EscrowPart(SweepStep)) /\ WF_allVars(EscrowPart(EscTick))

(* The calls, callers and readers two of the parts share are alike.        *)
Alike == Permutations(PoolCalls)

-----------------------------------------------------------------------------
(* What the parts promise together. A part that a behaviour is not about   *)
(* keeps its promise by not moving. Where a promise is about steps, it is  *)
(* about those of its own parts, and what it says of states it says of the *)
(* state each step leads to.                                               *)

(* ReadsSafe. What dipper reads through the pool can be relied on. A call  *)
(* gives up only when it has asked every endpoint, whatever other calls do *)
(* to the shared index; it tells its caller of a contract's refusal it met *)
(* and, when it is one of those a submission's deadline is for, takes no   *)
(* longer than that allows (rpc_provider.rs). One faulty endpoint, far     *)
(* ahead or far behind, makes no read older than an earlier one and        *)
(* confirms no block the chain has not (SeenBlock in client.rs).           *)
ReadsSafe ==
  [][(part \in {"pool", "seen"}) =>
       /\ PoolTypeOK' /\ SeenTypeOK'
       /\ WalksTheWholeRing' /\ WalkWithinBudget' /\ RefusalNamed
       /\ SeenIsReal' /\ ReadsNeverGoBack]_allVars

(* SlotsSafe. No two submissions of a process share a nonce, over stale    *)
(* counts, lost answers, evictions and jobs dropped at their time limit,   *)
(* and a slot that holds up the later ones is watched by the call that     *)
(* will fill it, unless that call was dropped or failed to (sign_and_send, *)
(* resync_nonce, wait_for_receipt and fill_nonce_gap in client.rs).        *)
SlotsSafe == TxTypeOK /\ SlotsDistinct /\ GapsOwned

(* CursorSafe. Over reorganisations, failed reads and writes, rows that do *)
(* not parse or apply and restarts, the listener's cursor never goes back  *)
(* and never passes a change in silence, and the change's check is queued  *)
(* once although it is read again and again (drain_once, LiveChecks).      *)
CursorSafe ==
  [][part = "cursor" =>
       CursorTypeOK' /\ NothingLost' /\ CheckedOnce' /\ CursorForward]_allVars

(* ListenerOnTime. The listener's waits and its clock. A notification is   *)
(* never lost, the pauses of the event sweeps grow while the broker is     *)
(* down, and lost cancels are swept in time, again when a sweep fails (the *)
(* loop of new). The stored chain time is never far ahead of the time,     *)
(* never goes back and follows the first right answer                      *)
(* (apply_chain_ts_drift_cap).                                             *)
ListenerOnTime ==
  [][(part \in {"poll", "clock"}) =>
       /\ PollTypeOK' /\ ClockTypeOK'
       /\ OpenPolledFast' /\ LostCancelsSwept' /\ SweepsBackOff
       /\ NotExpiredEarly' /\ ClockForward /\ ClockCatchesUp]_allVars

(* UpkeepKept. The domain in use is one dipper can reproduce, whatever the *)
(* contract is upgraded to (domain_from_report), and a provider's periodic *)
(* rebalance stays owed until it is done, over sweeps that fail, come late *)
(* or reach their limit (RebalanceSchedule).                               *)
UpkeepKept == DomainTypeOK /\ EscrowTypeOK /\ DomainUsable /\ NoSlotSkipped

(* ClientRecovers. Nothing stays stuck in the client while its calls are   *)
(* left to watch their slots: the slot of a transaction that was sent is   *)
(* mined, by it or by the filling of its gap, also after a job that held   *)
(* submit_lock was dropped; and a block far ahead of the chain does not    *)
(* refuse every read for good (client.rs).                                 *)
ClientRecovers == SentSlotMined /\ SeenSettles

(* UpkeepDone. dipper comes to use the deployed contract's domain, and a   *)
(* cancel under settled terms ends its agreement (domain_refresh.rs);      *)
(* ended agreements are released and finished thaws withdrawn although     *)
(* each sweep does only some of the work (escrow_reconciler.rs).           *)
UpkeepDone ==
  DomainFollows /\ SteadyTermsCancel /\ EndedReleased /\ ThawsWithdrawn
=============================================================================
