------------------------------ MODULE TxSender -------------------------------
(***************************************************************************)
(* How the chain client sends a transaction (chain_client/client.rs):      *)
(* build_and_send_call, sign_and_send under submit_lock, wait_for_receipt  *)
(* and fill_nonce_gap, with the wallet's nonce counter they share. Offers, *)
(* cancels and reconciles are all such calls.                              *)
(*                                                                         *)
(* The network is external: one pool of waiting transactions, at most one  *)
(* for each slot (nonce), of which the lowest that fits is mined next. It  *)
(* may lose an answer, evict a transaction, report a stale count or fail a *)
(* request; each of these, a job's time limit that drops a call and a      *)
(* restart of dipper is one of TxFaults.                                   *)
(***************************************************************************)
EXTENDS Integers, Sequences, FiniteSetsExt

CONSTANTS
  TxCalls,      \* calls, each of which sends one transaction
  BaseFees,     \* base fees the network may ask
  PriorityFee,
  FeePercent,   \* gas_price_multiplier, in percent
  MaxGasPrice,  \* max_gas_price_gwei
  TxFaults,     \* bound on faults
  NoCall        \* no call holds the lock

ASSUME TxAssumption ==
  /\ BaseFees \subseteq Nat
  /\ {PriorityFee, FeePercent, MaxGasPrice, TxFaults} \subseteq Nat
  /\ NoCall \notin TxCalls

VARIABLES
  counter,  \* the nonce counter, or Uninitialized
  lock,     \* the holder of submit_lock
  call,     \* [call -> where it is, its slot and what it was told]
  pending,  \* transactions waiting at the network
  mined,    \* transactions mined, in order: the slot is the position
  lost,     \* slots left empty with no call to fill them (ghost)
  txFaults

txVars == <<counter, lock, call, pending, mined, lost, txFaults>>

Uninitialized   == -1
MaxNonceRetries == 2
Slots           == Nat
Txs             == [by : TxCalls, slot : Slots, noop : BOOLEAN]

TxTypeOK ==
  /\ counter \in Slots \cup {Uninitialized}
  /\ lock \in TxCalls \cup {NoCall}
  /\ call \in [TxCalls ->
       [at : {"idle", "waiting", "reading", "sending", "polling", "filling",
              "noop", "done"},
        attempt : 0 .. MaxNonceRetries - 1, slot : Slots \cup {Uninitialized},
        sent : BOOLEAN, result : {"none", "failed", "mined", "dropped", "gone"}]]
  /\ pending \subseteq Txs
  /\ mined \in Seq(Txs)
  /\ lost \subseteq Slots
  /\ txFaults \in 0 .. TxFaults

TxInit ==
  /\ counter = Uninitialized
  /\ lock = NoCall
  /\ call = [c \in TxCalls |-> [at |-> "idle", attempt |-> 0, result |-> "none",
                                slot |-> Uninitialized, sent |-> FALSE]]
  /\ pending = {} /\ mined = <<>>
  /\ lost = {} /\ txFaults = 0

TxFault == txFaults < TxFaults /\ txFaults' = txFaults + 1

-----------------------------------------------------------------------------
(* The network.                                                            *)

Tx(c, noop)  == [by |-> c, slot |-> call[c].slot, noop |-> noop]
AtSlot(s)    == {t \in pending : t.slot = s}
Spent(s)     == s < Len(mined)
Empty(s)     == ~Spent(s) /\ AtSlot(s) = {}

(* The pending count: the first slot neither mined nor waiting.            *)
PendingCount ==
  Min({s \in Len(mined) .. Len(mined) + Cardinality(pending) : AtSlot(s) = {}})

(* The network takes t: its slot is free, it is waiting already, or it     *)
(* pays enough more than the one there to replace it.                      *)
Takes(t)   == ~Spent(t.slot) /\ pending' = (pending \ AtSlot(t.slot)) \cup {t}

(* It refuses t for its nonce: too low, or underpriced as a replacement.   *)
Refuses(t) == /\ Spent(t.slot) \/ (AtSlot(t.slot) # {} /\ t \notin pending)
              /\ UNCHANGED pending

Mine ==
  \E t \in AtSlot(Len(mined)) :
    /\ mined' = Append(mined, t)
    /\ pending' = pending \ {t}
    /\ UNCHANGED <<counter, lock, call, lost, txFaults>>

(* A transaction leaves the mempools. Its call will see to the slot while  *)
(* it waits for the receipt, and at no other time.                         *)
Evict ==
  \E t \in pending :
    /\ TxFault
    /\ pending' = pending \ {t}
    /\ lost' = IF ~t.noop /\ call[t.by].at \in {"sending", "polling", "filling"}
               THEN lost ELSE lost \cup {t.slot}
    /\ UNCHANGED <<counter, lock, call, mined>>

-----------------------------------------------------------------------------
(* A call.                                                                 *)

Move(c, at)   == call' = [call EXCEPT ![c].at = at]
End(c, result) == call' = [call EXCEPT ![c].at = "done", ![c].result = result]

MaxFee(base) == (base * FeePercent) \div 100 + PriorityFee

(* Gas is estimated and priced; over the maximum the call ends. The        *)
(* estimate may also end it, as the contract refuses the call or no        *)
(* endpoint answers.                                                       *)
Prepare(c) ==
  /\ call[c].at = "idle"
  /\ \/ \E base \in BaseFees :
          IF MaxFee(base) > MaxGasPrice THEN End(c, "failed") ELSE Move(c, "waiting")
     \/ End(c, "failed")
  /\ UNCHANGED <<counter, lock, pending, mined, lost, txFaults>>

Acquire(c) ==
  /\ call[c].at = "waiting" /\ lock = NoCall
  /\ lock' = c
  /\ Move(c, "reading")
  /\ UNCHANGED <<counter, pending, mined, lost, txFaults>>

(* Mutant: the counter is set to what the chain says.                      *)
ResyncStores(n) == n

(* resync_nonce: the counter only goes up.                                 *)
ResyncNonce(n) == Max({counter, n})

(* Mutant: reading the slot also reserves it.                              *)
NextNonceReserves(c, known) ==
  /\ counter' = known + 1
  /\ call' = [call EXCEPT ![c].at = "sending", ![c].slot = known]

(* next_nonce: the slot is the counter, which stays where it is.           *)
NextNonce(c, known) ==
  /\ counter' = known
  /\ call' = [call EXCEPT ![c].at = "sending", ![c].slot = known]

(* The slot to use. The chain is asked for it first when nothing is known, *)
(* or after a nonce error; a stale answer is a fault.                      *)
ReadNonce(c) ==
  /\ call[c].at = "reading"
  /\ IF call[c].attempt = 0 /\ counter # Uninitialized
     THEN NextNonce(c, counter) /\ UNCHANGED txFaults
     ELSE \E n \in 0 .. PendingCount :
            /\ IF n = PendingCount THEN UNCHANGED txFaults ELSE TxFault
            /\ NextNonce(c, IF call[c].attempt = 0 THEN n ELSE ResyncNonce(n))
  /\ UNCHANGED <<lock, pending, mined, lost>>

(* Giving up releases the lock, and leaves the counter.                    *)
GiveUp(c) == End(c, "failed") /\ lock' = NoCall

(* The count could not be read, or the time under the lock ran out.        *)
ReadFails(c) ==
  /\ call[c].at = "reading" /\ TxFault
  /\ GiveUp(c)
  /\ UNCHANGED <<counter, pending, mined, lost>>

(* Sent, or already held by the endpoint: commit_nonce, release, poll.     *)
SendAccepted(c) ==
  /\ call[c].at = "sending"
  /\ Takes(Tx(c, FALSE))
  /\ counter' = Max({counter, call[c].slot + 1})
  /\ call' = [call EXCEPT ![c].at = "polling", ![c].sent = TRUE]
  /\ lock' = NoCall
  /\ UNCHANGED <<mined, lost, txFaults>>

(* A nonce error is retried once, after a resync.                          *)
SendRefused(c) ==
  /\ call[c].at = "sending"
  /\ Refuses(Tx(c, FALSE))
  /\ IF call[c].attempt + 1 < MaxNonceRetries
     THEN /\ call' = [call EXCEPT ![c].at = "reading", ![c].attempt = @ + 1]
          /\ UNCHANGED lock
     ELSE GiveUp(c)
  /\ UNCHANGED <<counter, mined, lost, txFaults>>

(* An endpoint takes the transaction and its answer is lost: the pool asks *)
(* the next with the same bytes.                                           *)
SendUnanswered(c) ==
  /\ call[c].at = "sending" /\ TxFault
  /\ Takes(Tx(c, FALSE))
  /\ UNCHANGED <<counter, lock, call, mined, lost>>

(* No endpoint is left to ask, or the time under the lock ran out.         *)
SendFails(c) ==
  /\ call[c].at = "sending" /\ TxFault
  /\ GiveUp(c)
  /\ UNCHANGED <<counter, pending, mined, lost>>

ReceiptSeen(c) ==
  /\ call[c].at = "polling"
  /\ \E i \in DOMAIN mined : mined[i] = Tx(c, FALSE)
  /\ End(c, "mined")
  /\ UNCHANGED <<counter, lock, pending, mined, lost, txFaults>>

(* No receipt in the polling window: the slot is filled.                   *)
ReceiptTimeout(c) ==
  /\ call[c].at = "polling"
  /\ Move(c, "filling")
  /\ UNCHANGED <<counter, lock, pending, mined, lost, txFaults>>

AcquireForFill(c) ==
  /\ call[c].at = "filling" /\ lock = NoCall
  /\ lock' = c
  /\ Move(c, "noop")
  /\ UNCHANGED <<counter, pending, mined, lost, txFaults>>

(* The slots of the calls in C that are empty and were theirs to fill.     *)
Watching     == {"polling", "filling", "noop"}
Abandoned(C) ==
  {s \in {call[c].slot : c \in {d \in C : call[d].at \in Watching}} : Empty(s)}

(* fill_nonce_gap: a transfer of nothing in the slot. A nonce error means  *)
(* the slot is spoken for. Any other failure leaves the slot as it is, if  *)
(* no endpoint took the transfer without saying so.                        *)
FillNonceGap(c) ==
  /\ call[c].at = "noop"
  /\ \/ (Takes(Tx(c, TRUE)) \/ Refuses(Tx(c, TRUE))) /\ UNCHANGED <<lost, txFaults>>
     \/ TxFault /\ lost' = lost \cup Abandoned({c}) /\ UNCHANGED pending
  /\ End(c, "dropped")
  /\ lock' = NoCall
  /\ UNCHANGED <<counter, mined>>

(* Mutant: a call that is dropped does not give the lock back.             *)
JobTimeoutKeepsLock(c) ==
  /\ TxFault
  /\ call[c].at \notin {"idle", "done"}
  /\ End(c, "gone")
  /\ lost' = lost \cup Abandoned({c})
  /\ UNCHANGED <<counter, lock, pending, mined>>

(* The worker drops the job at its time limit, and with it the call where  *)
(* it stands: the lock is free, the counter stays, and nobody watches the  *)
(* slot any more. A transfer under way may have reached an endpoint.       *)
JobTimeout(c) ==
  /\ TxFault
  /\ call[c].at \notin {"idle", "done"}
  /\ \/ UNCHANGED pending /\ lost' = lost \cup Abandoned({c})
     \/ call[c].at = "noop" /\ Takes(Tx(c, TRUE)) /\ UNCHANGED lost
  /\ End(c, "gone")
  /\ lock' = IF lock = c THEN NoCall ELSE lock
  /\ UNCHANGED <<counter, mined>>

(* Dipper restarts: the counter and the calls under way are gone.          *)
TxRestart ==
  /\ TxFault
  /\ counter # Uninitialized
  /\ counter' = Uninitialized
  /\ lock' = NoCall
  /\ call' = [c \in TxCalls |->
                CASE call[c].at = "idle" -> call[c]
                  [] call[c].at = "done" -> [call[c] EXCEPT !.sent = FALSE]
                  [] OTHER -> [call[c] EXCEPT !.at = "done", !.sent = FALSE,
                                              !.result = "gone"]]
  /\ lost' = lost \cup Abandoned(TxCalls)
  /\ UNCHANGED <<pending, mined>>

TxStep(c) ==
  \/ Prepare(c) \/ Acquire(c) \/ ReadNonce(c) \/ ReadFails(c)
  \/ SendAccepted(c) \/ SendRefused(c) \/ SendUnanswered(c) \/ SendFails(c)
  \/ ReceiptSeen(c) \/ ReceiptTimeout(c) \/ AcquireForFill(c) \/ FillNonceGap(c)

TxNext == (\E c \in TxCalls : TxStep(c) \/ JobTimeout(c)) \/ Mine \/ Evict \/ TxRestart

(* What the code and the network keep doing: a call that can take a step   *)
(* takes one (every request and wait has its timeout, and the lock's queue *)
(* is first come, first served), and the chain mines what fits.            *)
TxFairness ==
  /\ \A c \in TxCalls : WF_txVars(TxStep(c))
  /\ WF_txVars(Mine)

TxSpec     == TxInit /\ [][TxNext]_txVars
TxFairSpec == TxSpec /\ TxFairness

-----------------------------------------------------------------------------
(* SlotsDistinct. Two submissions that were reported sent by one process   *)
(* never share a slot, whatever the chain says when the counter resyncs.   *)
SlotsDistinct ==
  \A c, d \in TxCalls :
    c # d /\ call[c].sent /\ call[d].sent => call[c].slot # call[d].slot

(* GapsOwned. A slot the counter has passed and the network lacks, behind  *)
(* which everything later queues, is the slot of a call that still watches *)
(* it and will fill it, or one that was left when nobody did: its watcher  *)
(* was dropped or failed to fill it, or it lost its transaction after.     *)
GapsOwned ==
  \A s \in Len(mined) .. counter - 1 :
    AtSlot(s) = {} =>
      s \in lost \/ \E c \in TxCalls : call[c].slot = s /\ call[c].at \in Watching

(* SentSlotMined. The slot of a transaction that was sent is eventually    *)
(* mined, by it or by the transfer that fills the gap it left, unless that *)
(* slot or one before it is left with nobody to fill it: a transaction     *)
(* that is lost while its call waits does not hold up the ones behind it.  *)
SentSlotMined ==
  \A c \in TxCalls :
    call[c].at = "polling" ~> (Spent(call[c].slot) \/ \E s \in lost : s <= call[c].slot)

(* DroppedLeavesNoGap. A job that is dropped at its time limit can be run  *)
(* again safely (the comment on PROCESS_JOB_TIMEOUT): the call it drops    *)
(* leaves no slot that nobody fills.                                       *)
DroppedLeavesNoGap ==
  \A c \in TxCalls :
    call[c].result = "gone" /\ call[c].sent => call[c].slot \notin lost

(* FailedSkipsNothing. A slot whose only submissions failed is not one the *)
(* counter has passed and the network lacks (the comment on the nonce      *)
(* field).                                                                 *)
FailedSkipsNothing ==
  \A c \in TxCalls :
    LET s == call[c].slot
    IN call[c].result = "failed" /\ s \in Len(mined) .. counter - 1 /\ AtSlot(s) = {}
         => \E d \in TxCalls : call[d].sent /\ call[d].slot = s
=============================================================================
