--------------------------- MODULE TxSender_proofs ---------------------------
(***************************************************************************)
(* Proofs about TxSender, for any number of calls and faults: no two sent  *)
(* transactions of a process share a nonce, and a gap in the nonces has an *)
(* owner.                                                                  *)
(*                                                                         *)
(* The argument. submit_lock serialises everything that reads or moves the *)
(* counter, so the slot a call is sending in is the counter, above every   *)
(* slot that was reported sent. The counter moves past a slot only when    *)
(* the network has a transaction in it. Such a slot empties when its       *)
(* transaction is mined, which fills it for good, or evicted: then it is   *)
(* the slot of the call that sent it, because a call whose nonce was       *)
(* refused has nothing left waiting. That call watches it, or was dropped  *)
(* at its job's time limit or ended: then the slot is counted in lost.     *)
(***************************************************************************)
EXTENDS TxSender, FiniteSetTheorems, WellFoundedInduction, TLAPS

(* Who is at the counter holds the lock, and sends in the counter's slot.  *)
LockDiscipline ==
  \A c \in TxCalls :
    /\ call[c].at \in {"reading", "sending", "noop"} => lock = c
    /\ call[c].at = "sending" => call[c].slot = counter /\ counter \in Nat

(* What was reported sent is below the counter, and is done or watched.    *)
SentBelow ==
  \A c \in TxCalls :
    /\ call[c].sent => /\ call[c].slot \in Nat /\ call[c].slot < counter
                       /\ call[c].at \in Watching \cup {"done"}
    /\ call[c].at \in Watching => call[c].sent

(* A slot is the position a transaction is mined at; what waits is ahead,  *)
(* one to a slot.                                                          *)
NetworkShape ==
  /\ \A i \in 1 .. Len(mined) : mined[i].slot = i - 1
  /\ IsFiniteSet(pending)
  /\ \A t \in pending : t.slot >= Len(mined)
  /\ \A t, u \in pending : t.slot = u.slot => t = u

(* What a call has waiting, besides a filler, is in the slot it is at.     *)
OwnSlot ==
  \A t \in pending :
    t.noop \/ /\ call[t.by].at \notin {"idle", "waiting", "reading"}
              /\ call[t.by].at \in {"sending", "polling", "filling"}
                   => t.slot = call[t.by].slot

TxInv == /\ TxTypeOK
         /\ LockDiscipline
         /\ SentBelow
         /\ NetworkShape
         /\ OwnSlot
         /\ SlotsDistinct
         /\ GapsOwned

-----------------------------------------------------------------------------
(* Arithmetic and the pending count.                                       *)

(* MaxOfTwo. What resync_nonce and commit_nonce store: the larger value.   *)
LEMMA MaxOfTwo ==
  ASSUME NEW m \in Int, NEW n \in Int
  PROVE  Max({m, n}) = IF m >= n THEN m ELSE n
<1>1. \A x \in {m, n} : (\A y \in {m, n} : x >= y) => x = IF m >= n THEN m ELSE n
  OBVIOUS
<1>2. \E x \in {m, n} : \A y \in {m, n} : x >= y
  OBVIOUS
<1>. QED
  BY <1>1, <1>2 DEF Max

(* LeastExists. A set of naturals that has a member has a least one.       *)
LEMMA LeastExists ==
  ASSUME NEW T \in SUBSET Nat, T # {}
  PROVE  Min(T) \in T /\ \A y \in T : Min(T) <= y
<1>1. PICK x \in T : \A y \in T : ~ (<<y, x>> \in OpToRel(<, Nat))
  BY WFMin, NatLessThanWellFounded, Zenon
<1>2. \A y \in T : x <= y
  <2>. TAKE y \in T
  <2>1. ~ (y < x)
    BY <1>1 DEF OpToRel
  <2>. QED
    BY <2>1
<1>. QED
  BY <1>2 DEF Min

(* FreeSlot. Among one slot more than transactions wait, one is free.      *)
LEMMA FreeSlot ==
  ASSUME TxTypeOK, NetworkShape
  PROVE  \E s \in Len(mined) .. Len(mined) + Cardinality(pending) : AtSlot(s) = {}
<1>. DEFINE L == Len(mined)
            K == Cardinality(pending)
            R == L .. L + K
            V == {t.slot : t \in pending}
            f == [t \in pending |-> t.slot]
<1>1. L \in Nat /\ K \in Nat
  BY FS_CardinalityType DEF TxTypeOK, NetworkShape
<1>2. SUFFICES ASSUME \A s \in R : AtSlot(s) # {}
               PROVE  FALSE
  OBVIOUS
<1>3. f \in Surjection(pending, V)
  BY DEF Surjection
<1>4. IsFiniteSet(V) /\ Cardinality(V) <= K
  BY <1>3, FS_Surjection DEF NetworkShape
<1>5. R \subseteq V
  <2>. SUFFICES ASSUME NEW s \in R PROVE s \in V
    OBVIOUS
  <2>1. PICK t \in pending : t.slot = s
    BY <1>2 DEF AtSlot
  <2>. QED
    BY <2>1
<1>6. Cardinality(R) <= Cardinality(V)
  BY <1>4, <1>5, FS_Subset
<1>7. Cardinality(R) = K + 1
  BY <1>1, FS_Interval
<1>8. Cardinality(V) \in Nat
  BY <1>4, FS_CardinalityType
<1>. QED
  BY <1>1, <1>4, <1>6, <1>7, <1>8

(* PendingCountIs. The pending count is a slot, and every slot below it    *)
(* that is not mined has a transaction waiting.                            *)
LEMMA PendingCountIs ==
  ASSUME TxTypeOK, NetworkShape
  PROVE  /\ PendingCount \in Nat
         /\ \A s \in Len(mined) .. PendingCount - 1 : AtSlot(s) # {}
<1>. DEFINE L == Len(mined)
            K == Cardinality(pending)
            T == {s \in L .. L + K : AtSlot(s) = {}}
<1>1. L \in Nat /\ K \in Nat
  BY FS_CardinalityType DEF TxTypeOK, NetworkShape
<1>2. T # {} /\ T \in SUBSET Nat
  BY <1>1, FreeSlot
<1>3. PendingCount = Min(T)
  BY DEF PendingCount
<1>. HIDE DEF T
<1>4. Min(T) \in T /\ \A y \in T : Min(T) <= y
  BY <1>2, LeastExists
<1>5. Min(T) \in L .. L + K
  BY <1>4 DEF T
<1>6. ASSUME NEW s \in L .. PendingCount - 1, AtSlot(s) = {}
      PROVE  FALSE
  <2>1. s \in T
    BY <1>1, <1>3, <1>5, <1>6 DEF T
  <2>. QED
    BY <2>1, <1>1, <1>3, <1>4, <1>5
<1>. QED
  BY <1>1, <1>3, <1>5, <1>6

-----------------------------------------------------------------------------
(* Initially, and what a step of a call changes.                           *)

(* InitTxInv. The invariant holds before any call is made.                 *)
LEMMA InitTxInv == TxInit => TxInv
<1>. SUFFICES ASSUME TxInit PROVE TxInv
  OBVIOUS
<1>. USE DEF TxInit, Uninitialized
<1>1. TxTypeOK
  <2>1. \A c \in TxCalls :
          call[c] \in [at : {"idle", "waiting", "reading", "sending", "polling",
                             "filling", "noop", "done"},
                       attempt : 0 .. MaxNonceRetries - 1,
                       slot : Slots \cup {Uninitialized}, sent : BOOLEAN,
                       result : {"none", "failed", "mined", "dropped", "gone"}]
    BY DEF MaxNonceRetries
  <2>2. txFaults \in 0 .. TxFaults
    BY TxAssumption
  <2>3. mined \in Seq(Txs) /\ pending \subseteq Txs
    OBVIOUS
  <2>. QED
    BY <2>1, <2>2, <2>3 DEF TxTypeOK
<1>2. LockDiscipline /\ SentBelow /\ OwnSlot /\ SlotsDistinct
  BY DEF LockDiscipline, SentBelow, OwnSlot, SlotsDistinct, Watching
<1>3. NetworkShape
  BY FS_EmptySet DEF NetworkShape
<1>4. GapsOwned
  BY DEF GapsOwned
<1>. QED
  BY <1>1, <1>2, <1>3, <1>4 DEF TxInv

(* FaultTyped. A fault keeps the count of faults in its bound.             *)
LEMMA FaultTyped ==
  ASSUME TxTypeOK, TxFault \/ UNCHANGED txFaults
  PROVE  txFaults' \in 0 .. TxFaults
BY TxAssumption DEF TxTypeOK, TxFault

(* What a call can be.                                                     *)
Places  == {"idle", "waiting", "reading", "sending", "polling", "filling", "noop",
            "done"}
Results == {"none", "failed", "mined", "dropped", "gone"}
CallRec == [at : Places, attempt : 0 .. MaxNonceRetries - 1,
            slot : Slots \cup {Uninitialized}, sent : BOOLEAN, result : Results]

(* CallsTyped. The part of the type invariant about calls.                 *)
LEMMA CallsTyped ==
  ASSUME TxTypeOK
  PROVE  /\ call \in [TxCalls -> CallRec]
         /\ \A c \in TxCalls : /\ call[c].at \in Places
                               /\ call[c].attempt \in {0, 1}
                               /\ call[c].slot \in Nat \cup {-1}
                               /\ call[c].sent \in BOOLEAN
BY DEF TxTypeOK, Slots, Uninitialized, MaxNonceRetries, Places, Results, CallRec

(* MoveIs. What Move changes.                                              *)
LEMMA MoveIs ==
  ASSUME TxTypeOK, NEW c \in TxCalls, NEW at \in Places, Move(c, at)
  PROVE  /\ call' \in [TxCalls -> CallRec]
         /\ call'[c].at = at /\ call'[c].slot = call[c].slot
         /\ call'[c].sent = call[c].sent
         /\ \A d \in TxCalls : d # c => call'[d] = call[d]
<1>1. call \in [TxCalls -> CallRec]
  BY CallsTyped
<1>. QED
  BY <1>1 DEF Move, CallRec

(* EndIs. What End changes.                                                *)
LEMMA EndIs ==
  ASSUME TxTypeOK, NEW c \in TxCalls, NEW r \in Results, End(c, r)
  PROVE  /\ call' \in [TxCalls -> CallRec]
         /\ call'[c].at = "done" /\ call'[c].slot = call[c].slot
         /\ call'[c].sent = call[c].sent
         /\ \A d \in TxCalls : d # c => call'[d] = call[d]
<1>1. call \in [TxCalls -> CallRec]
  BY CallsTyped
<1>. QED
  BY <1>1 DEF End, CallRec, Places

(* TypedAgain. Type correctness of the next state, from its parts.         *)
LEMMA TypedAgain ==
  ASSUME call' \in [TxCalls -> CallRec],
         counter' \in Nat \cup {-1}, lock' \in TxCalls \cup {NoCall},
         pending' \subseteq Txs, mined' \in Seq(Txs), lost' \subseteq Slots,
         txFaults' \in 0 .. TxFaults
  PROVE  TxTypeOK'
BY DEF TxTypeOK, CallRec, Places, Results, Slots, Uninitialized, Txs

(* NetworkStays. The network's shape is about the network alone.           *)
LEMMA NetworkStays ==
  ASSUME NetworkShape, UNCHANGED <<pending, mined>>
  PROVE  NetworkShape'
BY DEF NetworkShape

(* TypeParts. The type invariant without its part about calls.             *)
LEMMA TypeParts ==
  ASSUME TxTypeOK
  PROVE  /\ counter \in Nat \cup {-1} /\ lock \in TxCalls \cup {NoCall}
         /\ pending \subseteq Txs /\ mined \in Seq(Txs) /\ lost \subseteq Slots
         /\ txFaults \in 0 .. TxFaults /\ Len(mined) \in Nat
         /\ \A t \in pending : /\ t.by \in TxCalls /\ t.slot \in Nat
                               /\ t.noop \in BOOLEAN
                               /\ t = [by |-> t.by, slot |-> t.slot, noop |-> t.noop]
BY DEF TxTypeOK, Slots, Uninitialized, Txs

-----------------------------------------------------------------------------
(* One lemma for each action.                                              *)

(* PrepareKeeps. A call that is prepared holds no lock and no slot yet.    *)
LEMMA PrepareKeeps ==
  ASSUME TxInv, NEW c \in TxCalls, Prepare(c)
  PROVE  TxInv'
<1>. USE DEF TxInv
<1>1. /\ call' \in [TxCalls -> CallRec]
      /\ call'[c].at \in {"waiting", "done"} /\ call'[c].slot = call[c].slot
      /\ call'[c].sent = call[c].sent
      /\ \A d \in TxCalls : d # c => call'[d] = call[d]
  <2>1. CASE End(c, "failed")
    BY <2>1, EndIs DEF Results
  <2>2. CASE Move(c, "waiting")
    BY <2>2, MoveIs DEF Places
  <2>. QED
    BY <2>1, <2>2 DEF Prepare
<1>2. call[c].at = "idle" /\ UNCHANGED <<counter, lock, pending, mined, lost, txFaults>>
  BY DEF Prepare
<1>3. TxTypeOK'
  BY <1>1, <1>2, TypeParts, TypedAgain
<1>4. LockDiscipline'
  BY <1>1, <1>2 DEF LockDiscipline
<1>5. SentBelow'
  BY <1>1, <1>2 DEF SentBelow, Watching
<1>6. NetworkShape'
  BY <1>2, NetworkStays
<1>7. OwnSlot'
  BY <1>1, <1>2, TypeParts DEF OwnSlot
<1>8. SlotsDistinct'
  BY <1>1, <1>2 DEF SlotsDistinct
<1>9. GapsOwned'
  BY <1>1, <1>2 DEF GapsOwned, AtSlot, Watching
<1>. QED
  BY <1>3, <1>4, <1>5, <1>6, <1>7, <1>8, <1>9

(* AcquireKeeps. Taking the nonce lock, by one call at a time.             *)
LEMMA AcquireKeeps ==
  ASSUME TxInv, NEW c \in TxCalls, Acquire(c)
  PROVE  TxInv'
<1>. USE DEF TxInv
<1>1. /\ call' \in [TxCalls -> CallRec]
      /\ call'[c].at = "reading" /\ call'[c].slot = call[c].slot
      /\ call'[c].sent = call[c].sent
      /\ \A d \in TxCalls : d # c => call'[d] = call[d]
  BY MoveIs DEF Places, Acquire
<1>2. /\ call[c].at = "waiting" /\ lock = NoCall /\ lock' = c
      /\ UNCHANGED <<counter, pending, mined, lost, txFaults>>
  BY DEF Acquire
<1>3. TxTypeOK'
  BY <1>1, <1>2, TypeParts, TypedAgain
<1>4. LockDiscipline'
  BY <1>1, <1>2, TxAssumption DEF LockDiscipline
<1>5. SentBelow'
  BY <1>1, <1>2 DEF SentBelow, Watching
<1>6. NetworkShape'
  BY <1>2, NetworkStays
<1>7. OwnSlot'
  BY <1>1, <1>2, TypeParts DEF OwnSlot
<1>8. SlotsDistinct'
  BY <1>1, <1>2 DEF SlotsDistinct
<1>9. GapsOwned'
  BY <1>1, <1>2 DEF GapsOwned, AtSlot, Watching
<1>. QED
  BY <1>3, <1>4, <1>5, <1>6, <1>7, <1>8, <1>9

(* A call that ends without sending, from reading or sending.              *)
LEMMA GiveUpKeeps ==
  ASSUME TxInv, NEW c \in TxCalls, call[c].at \in {"reading", "sending"}, GiveUp(c),
         UNCHANGED <<counter, pending, mined, lost>>,
         txFaults' \in 0 .. TxFaults
  PROVE  TxInv'
<1>. USE DEF TxInv
<1>1. /\ call' \in [TxCalls -> CallRec]
      /\ call'[c].at = "done" /\ call'[c].slot = call[c].slot
      /\ call'[c].sent = call[c].sent
      /\ \A d \in TxCalls : d # c => call'[d] = call[d]
  BY EndIs DEF Results, GiveUp
<1>2. lock' = NoCall /\ lock = c
  BY DEF GiveUp, LockDiscipline
<1>3. TxTypeOK'
  BY <1>1, <1>2, TypeParts, TypedAgain
<1>4. LockDiscipline'
  BY <1>1, <1>2 DEF LockDiscipline
<1>5. SentBelow'
  BY <1>1 DEF SentBelow, Watching
<1>6. NetworkShape'
  BY NetworkStays
<1>7. OwnSlot'
  BY <1>1, TypeParts DEF OwnSlot
<1>8. SlotsDistinct'
  BY <1>1 DEF SlotsDistinct
<1>9. GapsOwned'
  BY <1>1 DEF GapsOwned, AtSlot, Watching
<1>. QED
  BY <1>3, <1>4, <1>5, <1>6, <1>7, <1>8, <1>9

(* The slot is read: it is the counter, below which nothing is missing     *)
(* that was not missing before.                                            *)
LEMMA ReadNonceKeeps ==
  ASSUME TxInv, NEW c \in TxCalls, ReadNonce(c)
  PROVE  TxInv'
<1>. USE DEF TxInv
<1>. DEFINE P == PendingCount
<1>1. /\ call[c].at = "reading" /\ lock = c
      /\ UNCHANGED <<lock, pending, mined, lost>>
  BY DEF ReadNonce, LockDiscipline
<1>2. P \in Nat /\ \A s \in Len(mined) .. P - 1 : AtSlot(s) # {}
  BY PendingCountIs
<1>. HIDE DEF P
<1>3. PICK k \in Nat :
        /\ NextNonce(c, k)
        /\ counter <= k
        /\ k = counter \/ k <= P
        /\ TxFault \/ UNCHANGED txFaults
  <2>1. counter \in Nat \cup {-1}
    BY TypeParts
  <2>2. CASE call[c].attempt = 0 /\ counter # Uninitialized
    BY <2>1, <2>2 DEF ReadNonce, Uninitialized
  <2>3. CASE ~(call[c].attempt = 0 /\ counter # Uninitialized)
    <3>1. PICK n \in 0 .. P :
            /\ TxFault \/ UNCHANGED txFaults
            /\ NextNonce(c, IF call[c].attempt = 0 THEN n ELSE ResyncNonce(n))
      BY <2>3 DEF ReadNonce, P
    <3>2. n \in Nat /\ n <= P
      BY <1>2
    <3>3. CASE call[c].attempt = 0
      BY <2>1, <2>3, <3>1, <3>2, <3>3 DEF Uninitialized
    <3>4. CASE call[c].attempt # 0
      <4>1. ResyncNonce(n) = IF counter >= n THEN counter ELSE n
        BY <2>1, <3>2, MaxOfTwo DEF ResyncNonce
      <4>. QED
        BY <2>1, <3>1, <3>2, <3>4, <4>1
    <3>. QED
      BY <3>3, <3>4
  <2>. QED
    BY <2>2, <2>3
<1>4. counter \in Nat \cup {-1} /\ counter' = k
  BY <1>3, TypeParts DEF NextNonce
<1>5. /\ call' \in [TxCalls -> CallRec]
      /\ call'[c].at = "sending" /\ call'[c].slot = k
      /\ call'[c].sent = call[c].sent
      /\ \A d \in TxCalls : d # c => call'[d] = call[d]
  <2>1. call \in [TxCalls -> CallRec]
    BY CallsTyped
  <2>. QED
    BY <1>3, <2>1 DEF NextNonce, CallRec, Places, Slots
<1>6. ~call[c].sent
  BY <1>1 DEF SentBelow, Watching
<1>7. TxTypeOK'
  BY <1>1, <1>3, <1>4, <1>5, TypeParts, TypedAgain, FaultTyped
<1>8. LockDiscipline'
  BY <1>1, <1>4, <1>5 DEF LockDiscipline
<1>9. SentBelow'
  BY <1>1, <1>3, <1>4, <1>5, <1>6 DEF SentBelow, Watching
<1>10. NetworkShape'
  BY <1>1, NetworkStays
<1>11. OwnSlot'
  BY <1>1, <1>5, TypeParts DEF OwnSlot
<1>12. SlotsDistinct'
  BY <1>5, <1>6 DEF SlotsDistinct
<1>13. GapsOwned'
  <2>. SUFFICES ASSUME NEW s \in Len(mined) .. k - 1, AtSlot(s) = {}, s \notin lost
                PROVE  \E d \in TxCalls : call'[d].slot = s /\ call'[d].at \in Watching
    BY <1>1, <1>4 DEF GapsOwned, AtSlot, Watching
  <2>1. Len(mined) \in Nat
    BY TypeParts
  <2>2. s \in Len(mined) .. counter - 1
    BY <1>2, <1>3, <1>4, <2>1
  <2>3. PICK d \in TxCalls : call[d].slot = s /\ call[d].at \in Watching
    BY <2>2 DEF GapsOwned, Watching
  <2>. QED
    BY <1>1, <1>5, <2>3 DEF Watching
<1>. QED
  BY <1>7, <1>8, <1>9, <1>10, <1>11, <1>12, <1>13

(* ReadFailsKeeps. A nonce that cannot be read gives the lock back.        *)
LEMMA ReadFailsKeeps ==
  ASSUME TxInv, NEW c \in TxCalls, ReadFails(c)
  PROVE  TxInv'
BY GiveUpKeeps, FaultTyped DEF ReadFails, TxInv

(* SendFailsKeeps. A send nobody is left to answer gives the lock back.    *)
LEMMA SendFailsKeeps ==
  ASSUME TxInv, NEW c \in TxCalls, SendFails(c)
  PROVE  TxInv'
BY GiveUpKeeps, FaultTyped DEF SendFails, TxInv

(* TakesKeepsShape. The network takes a transaction: one to a slot still,  *)
(* and no slot it had is lacking.                                          *)
LEMMA TakesKeepsShape ==
  ASSUME TxTypeOK, NetworkShape, NEW t \in Txs, Takes(t), UNCHANGED mined
  PROVE  /\ NetworkShape' /\ pending' \subseteq Txs
         /\ \A u \in pending' : u = t \/ (u \in pending /\ u.slot # t.slot)
         /\ t \in pending' /\ t.slot \in Nat
         /\ \A s \in Nat : (AtSlot(s))' = {} => AtSlot(s) = {} /\ s # t.slot
<1>1. /\ t.slot \in Nat /\ Len(mined) \in Nat /\ t.slot >= Len(mined)
      /\ pending \subseteq Txs
      /\ pending' = (pending \ AtSlot(t.slot)) \cup {t}
      /\ AtSlot(t.slot) = {u \in pending : u.slot = t.slot}
  BY DEF Takes, TxTypeOK, Spent, Txs, Slots, AtSlot
<1>2. IsFiniteSet(pending')
  <2>1. IsFiniteSet(pending \ AtSlot(t.slot))
    BY FS_Subset DEF NetworkShape
  <2>. QED
    BY <1>1, <2>1, FS_AddElement
<1>3. \A u \in pending' : u = t \/ (u \in pending /\ u.slot # t.slot)
  BY <1>1
<1>4. NetworkShape'
  BY <1>1, <1>2, <1>3 DEF NetworkShape
<1>5. \A s \in Nat : (AtSlot(s))' = {} => AtSlot(s) = {} /\ s # t.slot
  BY <1>1 DEF AtSlot
<1>. QED
  BY <1>1, <1>3, <1>4, <1>5

(* The transaction of a call at work is one the network can be given.      *)
LEMMA TxTyped ==
  ASSUME TxInv, NEW c \in TxCalls, call[c].at \in {"sending", "noop"},
         NEW b \in BOOLEAN
  PROVE  /\ Tx(c, b) \in Txs
         /\ Tx(c, b).by = c /\ Tx(c, b).slot = call[c].slot /\ Tx(c, b).noop = b
         /\ call[c].slot \in Nat
<1>1. call[c].slot \in Nat
  BY DEF TxInv, LockDiscipline, SentBelow, Watching
<1>. QED
  BY <1>1 DEF Tx, Txs, Slots

(* Sent: the slot is the counter, which nobody who was told so is at, and  *)
(* the counter passes it.                                                  *)
LEMMA SendAcceptedKeeps ==
  ASSUME TxInv, NEW c \in TxCalls, SendAccepted(c)
  PROVE  TxInv'
<1>. USE DEF TxInv
<1>. DEFINE t == Tx(c, FALSE)
<1>1. /\ call[c].at = "sending" /\ Takes(t) /\ lock' = NoCall
      /\ counter' = Max({counter, call[c].slot + 1})
      /\ call' = [call EXCEPT ![c].at = "polling", ![c].sent = TRUE]
      /\ UNCHANGED <<mined, lost, txFaults>>
  BY DEF SendAccepted
<1>2. t \in Txs /\ t.by = c /\ t.slot = call[c].slot /\ t.noop = FALSE
  BY <1>1, TxTyped
<1>. HIDE DEF t
<1>3. lock = c /\ call[c].slot = counter /\ counter \in Nat /\ ~call[c].sent
  BY <1>1 DEF LockDiscipline, SentBelow, Watching
<1>4. counter' = counter + 1
  <2>1. counter \in Int /\ counter + 1 \in Int /\ ~(counter >= counter + 1)
    BY <1>3
  <2>2. Max({counter, counter + 1}) = counter + 1
    BY ONLY <2>1, MaxOfTwo
  <2>3. counter' = Max({counter, counter + 1})
    BY <1>1, <1>3, Zenon
  <2>. QED
    BY ONLY <2>2, <2>3
<1>5. /\ NetworkShape' /\ pending' \subseteq Txs
      /\ \A u \in pending' : u = t \/ (u \in pending /\ u.slot # t.slot)
      /\ \A s \in Nat : (AtSlot(s))' = {} => AtSlot(s) = {} /\ s # t.slot
  BY <1>1, <1>2, TakesKeepsShape
<1>6. /\ call' \in [TxCalls -> CallRec]
      /\ call'[c].at = "polling" /\ call'[c].slot = call[c].slot
      /\ call'[c].sent = TRUE
      /\ \A d \in TxCalls : d # c => call'[d] = call[d]
  <2>1. call \in [TxCalls -> CallRec]
    BY CallsTyped
  <2>. QED
    BY <1>1, <2>1 DEF CallRec, Places
<1>7. TxTypeOK'
  BY <1>1, <1>3, <1>4, <1>5, <1>6, TypeParts, TypedAgain
<1>8. LockDiscipline'
  BY <1>1, <1>3, <1>6 DEF LockDiscipline
<1>9. SentBelow'
  BY <1>1, <1>3, <1>4, <1>6 DEF SentBelow, Watching
<1>10. OwnSlot'
  <2>. SUFFICES ASSUME NEW u \in pending', ~u.noop
                PROVE  /\ call'[u.by].at \notin {"idle", "waiting", "reading"}
                       /\ call'[u.by].at \in {"sending", "polling", "filling"}
                            => u.slot = call'[u.by].slot
    BY DEF OwnSlot
  <2>1. CASE u = t
    BY <1>2, <1>6, <2>1
  <2>2. CASE u \in pending
    <3>1. u.by \in TxCalls
      BY <2>2, TypeParts
    <3>. QED
      BY <1>1, <1>6, <2>2, <3>1 DEF OwnSlot
  <2>. QED
    BY <1>5, <2>1, <2>2
<1>11. SlotsDistinct'
  BY <1>3, <1>6 DEF SlotsDistinct, SentBelow
<1>12. GapsOwned'
  <2>0. Len(mined)' = Len(mined) /\ counter' - 1 = counter /\ lost' = lost
    BY <1>1, <1>3, <1>4
  <2>. SUFFICES ASSUME NEW s \in Len(mined) .. counter, (AtSlot(s))' = {}, s \notin lost
                PROVE  \E d \in TxCalls : call'[d].slot = s /\ call'[d].at \in Watching
    BY <2>0 DEF GapsOwned, Watching
  <2>1. Len(mined) \in Nat
    BY TypeParts
  <2>2. s \in Nat /\ AtSlot(s) = {} /\ s # counter
    BY <1>2, <1>3, <1>5, <2>1
  <2>3. s \in Len(mined) .. counter - 1
    BY <1>3, <2>1, <2>2
  <2>4. PICK d \in TxCalls : call[d].slot = s /\ call[d].at \in Watching
    BY <2>2, <2>3 DEF GapsOwned, Watching
  <2>. QED
    BY <1>1, <1>6, <2>4 DEF Watching
<1>. QED
  BY <1>5, <1>7, <1>8, <1>9, <1>10, <1>11, <1>12

(* Refused for its nonce: nothing of the call's is waiting, for it would   *)
(* be this transaction, which the network would then have taken.           *)
LEMMA SendRefusedKeeps ==
  ASSUME TxInv, NEW c \in TxCalls, SendRefused(c)
  PROVE  TxInv'
<1>. USE DEF TxInv
<1>1. /\ call[c].at = "sending" /\ Refuses(Tx(c, FALSE))
      /\ UNCHANGED <<counter, pending, mined, lost, txFaults>>
  BY DEF SendRefused, Refuses
<1>2. CASE ~(call[c].attempt + 1 < MaxNonceRetries)
  <2>1. GiveUp(c)
    BY <1>2 DEF SendRefused
  <2>. QED
    BY <1>1, <2>1, GiveUpKeeps, TypeParts
<1>3. CASE call[c].attempt + 1 < MaxNonceRetries
  <2>1. call' = [call EXCEPT ![c].at = "reading", ![c].attempt = @ + 1] /\ lock' = lock
    BY <1>3 DEF SendRefused
  <2>2. /\ call' \in [TxCalls -> CallRec]
        /\ call'[c].at = "reading" /\ call'[c].slot = call[c].slot
        /\ call'[c].sent = call[c].sent
        /\ \A d \in TxCalls : d # c => call'[d] = call[d]
    <3>1. call \in [TxCalls -> CallRec] /\ call[c].attempt \in {0, 1}
      BY CallsTyped
    <3>2. call[c].attempt + 1 \in 0 .. MaxNonceRetries - 1
      BY <1>3, <3>1 DEF MaxNonceRetries
    <3>. QED
      BY <2>1, <3>1, <3>2 DEF CallRec, Places
  <2>3. \A t \in pending : t.by = c => t.noop
    <3>. SUFFICES ASSUME NEW t \in pending, t.by = c, ~t.noop
                  PROVE  FALSE
      OBVIOUS
    <3>1. t.slot = call[c].slot
      BY <1>1 DEF OwnSlot
    <3>2. t = Tx(c, FALSE)
      BY <3>1, TypeParts DEF Tx
    <3>3. t.slot >= Len(mined) /\ t.slot \in Nat /\ Len(mined) \in Nat
      BY TypeParts DEF NetworkShape
    <3>4. Spent(t.slot) \/ t \notin pending
      BY <1>1, <3>2, Zenon DEF Refuses
    <3>. QED
      BY <3>3, <3>4 DEF Spent
  <2>4. TxTypeOK'
    BY <1>1, <2>1, <2>2, TypeParts, TypedAgain
  <2>5. LockDiscipline'
    BY <1>1, <2>1, <2>2 DEF LockDiscipline
  <2>6. SentBelow'
    BY <1>1, <2>2 DEF SentBelow, Watching
  <2>7. NetworkShape'
    BY <1>1, NetworkStays
  <2>8. OwnSlot'
    BY <1>1, <2>2, <2>3, TypeParts DEF OwnSlot
  <2>9. SlotsDistinct'
    BY <2>2 DEF SlotsDistinct
  <2>10. GapsOwned'
    BY <1>1, <2>2 DEF GapsOwned, AtSlot, Watching
  <2>. QED
    BY <2>4, <2>5, <2>6, <2>7, <2>8, <2>9, <2>10
<1>. QED
  BY <1>2, <1>3

(* SendUnansweredKeeps. A transaction taken without an answer is in its    *)
(* sender's slot.                                                          *)
LEMMA SendUnansweredKeeps ==
  ASSUME TxInv, NEW c \in TxCalls, SendUnanswered(c)
  PROVE  TxInv'
<1>. USE DEF TxInv
<1>. DEFINE t == Tx(c, FALSE)
<1>1. /\ call[c].at = "sending" /\ Takes(t) /\ TxFault
      /\ UNCHANGED <<counter, lock, call, mined, lost>>
  BY DEF SendUnanswered
<1>2. t \in Txs /\ t.by = c /\ t.slot = call[c].slot /\ t.noop = FALSE
  BY <1>1, TxTyped
<1>. HIDE DEF t
<1>3. /\ NetworkShape' /\ pending' \subseteq Txs
      /\ \A u \in pending' : u = t \/ (u \in pending /\ u.slot # t.slot)
      /\ \A s \in Nat : (AtSlot(s))' = {} => AtSlot(s) = {} /\ s # t.slot
  BY <1>1, <1>2, TakesKeepsShape
<1>4. TxTypeOK'
  BY <1>1, <1>3, CallsTyped, TypeParts, TypedAgain, FaultTyped
<1>5. LockDiscipline' /\ SentBelow' /\ SlotsDistinct'
  BY <1>1 DEF LockDiscipline, SentBelow, SlotsDistinct
<1>6. OwnSlot'
  BY <1>1, <1>2, <1>3 DEF OwnSlot
<1>7. GapsOwned'
  <2>1. Len(mined) \in Nat /\ counter \in Nat \cup {-1}
    BY TypeParts
  <2>. SUFFICES ASSUME NEW s \in Len(mined) .. counter - 1, (AtSlot(s))' = {}
                PROVE  \/ s \in lost
                       \/ \E d \in TxCalls : call[d].slot = s /\ call[d].at \in Watching
    BY <1>1 DEF GapsOwned, Watching
  <2>2. AtSlot(s) = {}
    BY <1>3, <2>1
  <2>. QED
    BY <2>2 DEF GapsOwned, Watching
<1>. QED
  BY <1>3, <1>4, <1>5, <1>6, <1>7

(* The receipt is seen: the slot is mined, and needs no owner.             *)
LEMMA ReceiptSeenKeeps ==
  ASSUME TxInv, NEW c \in TxCalls, ReceiptSeen(c)
  PROVE  TxInv'
<1>. USE DEF TxInv
<1>1. /\ call[c].at = "polling" /\ End(c, "mined")
      /\ UNCHANGED <<counter, lock, pending, mined, lost, txFaults>>
  BY DEF ReceiptSeen
<1>2. /\ call' \in [TxCalls -> CallRec]
      /\ call'[c].at = "done" /\ call'[c].slot = call[c].slot
      /\ call'[c].sent = call[c].sent
      /\ \A d \in TxCalls : d # c => call'[d] = call[d]
  BY <1>1, EndIs DEF Results
<1>3. call[c].slot < Len(mined)
  <2>1. Len(mined) \in Nat /\ DOMAIN mined = 1 .. Len(mined)
    BY TypeParts
  <2>2. PICK i \in 1 .. Len(mined) : mined[i] = Tx(c, FALSE)
    BY <2>1 DEF ReceiptSeen
  <2>3. call[c].slot = i - 1
    BY <2>2 DEF NetworkShape, Tx
  <2>. QED
    BY <2>1, <2>3
<1>4. TxTypeOK'
  BY <1>1, <1>2, TypeParts, TypedAgain
<1>5. LockDiscipline'
  BY <1>1, <1>2 DEF LockDiscipline
<1>6. SentBelow'
  BY <1>1, <1>2 DEF SentBelow, Watching
<1>7. NetworkShape'
  BY <1>1, NetworkStays
<1>8. OwnSlot'
  BY <1>1, <1>2, TypeParts DEF OwnSlot
<1>9. SlotsDistinct'
  BY <1>2 DEF SlotsDistinct
<1>10. GapsOwned'
  <2>1. Len(mined) \in Nat /\ counter \in Nat \cup {-1}
    BY TypeParts
  <2>. SUFFICES ASSUME NEW s \in Len(mined) .. counter - 1, AtSlot(s) = {}, s \notin lost
                PROVE  \E d \in TxCalls : call'[d].slot = s /\ call'[d].at \in Watching
    BY <1>1 DEF GapsOwned, Watching, AtSlot
  <2>2. PICK d \in TxCalls : call[d].slot = s /\ call[d].at \in Watching
    BY DEF GapsOwned, Watching
  <2>3. d # c
    BY <1>3, <2>1, <2>2
  <2>. QED
    BY <1>2, <2>2, <2>3
<1>. QED
  BY <1>4, <1>5, <1>6, <1>7, <1>8, <1>9, <1>10

(* ReceiptTimeoutKeeps. A receipt that does not come in time leaves the    *)
(* slot owned.                                                             *)
LEMMA ReceiptTimeoutKeeps ==
  ASSUME TxInv, NEW c \in TxCalls, ReceiptTimeout(c)
  PROVE  TxInv'
<1>. USE DEF TxInv
<1>1. /\ call[c].at = "polling" /\ Move(c, "filling")
      /\ UNCHANGED <<counter, lock, pending, mined, lost, txFaults>>
  BY DEF ReceiptTimeout
<1>2. /\ call' \in [TxCalls -> CallRec]
      /\ call'[c].at = "filling" /\ call'[c].slot = call[c].slot
      /\ call'[c].sent = call[c].sent
      /\ \A d \in TxCalls : d # c => call'[d] = call[d]
  BY <1>1, MoveIs DEF Places
<1>3. TxTypeOK'
  BY <1>1, <1>2, TypeParts, TypedAgain
<1>4. LockDiscipline'
  BY <1>1, <1>2 DEF LockDiscipline
<1>5. SentBelow'
  BY <1>1, <1>2 DEF SentBelow, Watching
<1>6. NetworkShape'
  BY <1>1, NetworkStays
<1>7. OwnSlot'
  BY <1>1, <1>2, TypeParts DEF OwnSlot
<1>8. SlotsDistinct'
  BY <1>2 DEF SlotsDistinct
<1>9. GapsOwned'
  BY <1>1, <1>2 DEF GapsOwned, AtSlot, Watching
<1>. QED
  BY <1>3, <1>4, <1>5, <1>6, <1>7, <1>8, <1>9

(* AcquireForFillKeeps. A call takes the lock again to fill the gap it may *)
(* have left.                                                              *)
LEMMA AcquireForFillKeeps ==
  ASSUME TxInv, NEW c \in TxCalls, AcquireForFill(c)
  PROVE  TxInv'
<1>. USE DEF TxInv
<1>1. /\ call[c].at = "filling" /\ Move(c, "noop") /\ lock = NoCall /\ lock' = c
      /\ UNCHANGED <<counter, pending, mined, lost, txFaults>>
  BY DEF AcquireForFill
<1>2. /\ call' \in [TxCalls -> CallRec]
      /\ call'[c].at = "noop" /\ call'[c].slot = call[c].slot
      /\ call'[c].sent = call[c].sent
      /\ \A d \in TxCalls : d # c => call'[d] = call[d]
  BY <1>1, MoveIs DEF Places
<1>3. TxTypeOK'
  BY <1>1, <1>2, TypeParts, TypedAgain
<1>4. LockDiscipline'
  BY <1>1, <1>2, TxAssumption DEF LockDiscipline
<1>5. SentBelow'
  BY <1>1, <1>2 DEF SentBelow, Watching
<1>6. NetworkShape'
  BY <1>1, NetworkStays
<1>7. OwnSlot'
  BY <1>1, <1>2, TypeParts DEF OwnSlot
<1>8. SlotsDistinct'
  BY <1>2 DEF SlotsDistinct
<1>9. GapsOwned'
  BY <1>1, <1>2 DEF GapsOwned, AtSlot, Watching
<1>. QED
  BY <1>3, <1>4, <1>5, <1>6, <1>7, <1>8, <1>9

(* AbandonedIs. An empty slot that a call watches is abandoned with it.    *)
LEMMA AbandonedIs ==
  ASSUME TxInv, NEW C \in SUBSET TxCalls
  PROVE  /\ Abandoned(C) \subseteq Slots
         /\ \A c \in C : call[c].at \in Watching /\ Empty(call[c].slot)
                           => call[c].slot \in Abandoned(C)
<1>1. \A c \in C : call[c].at \in Watching => call[c].slot \in Slots
  BY DEF TxInv, SentBelow, Slots
<1>. QED
  BY <1>1 DEF Abandoned

(* The gap is filled, the slot is spoken for, or the gap stays: then it is *)
(* one that nobody is left to fill.                                        *)
LEMMA FillNonceGapKeeps ==
  ASSUME TxInv, NEW c \in TxCalls, FillNonceGap(c)
  PROVE  TxInv'
<1>. USE DEF TxInv
<1>0. PICK t \in Txs : t = Tx(c, TRUE)
  BY TxTyped DEF FillNonceGap
<1>1. /\ call[c].at = "noop" /\ End(c, "dropped") /\ lock' = NoCall
      /\ UNCHANGED <<counter, mined>>
      /\ TxFault \/ UNCHANGED txFaults
      /\ \/ Takes(t) /\ UNCHANGED lost
         \/ Refuses(t) /\ UNCHANGED lost
         \/ lost' = lost \cup Abandoned({c}) /\ UNCHANGED pending
  BY <1>0 DEF FillNonceGap
<1>2. t \in Txs /\ t.by = c /\ t.slot = call[c].slot /\ t.noop = TRUE
  BY <1>0, <1>1, TxTyped
<1>3. /\ call' \in [TxCalls -> CallRec]
      /\ call'[c].at = "done" /\ call'[c].slot = call[c].slot
      /\ call'[c].sent = call[c].sent
      /\ \A d \in TxCalls : d # c => call'[d] = call[d]
  BY <1>1, EndIs DEF Results
<1>4. lock = c
  BY <1>1 DEF LockDiscipline
<1>5. /\ NetworkShape' /\ pending' \subseteq Txs
      /\ \A u \in pending' : u = t \/ u \in pending
      /\ \A s \in Nat : (AtSlot(s))' = {} => AtSlot(s) = {}
      /\ t.slot \in lost' \/ (~Spent(t.slot) => (AtSlot(t.slot))' # {})
  <2>1. CASE Takes(t)
    <3>1. t \in pending' /\ t.slot \in Nat
      BY <1>1, <1>2, <2>1, TakesKeepsShape
    <3>2. (AtSlot(t.slot))' # {}
      BY <3>1, <1>1, <1>2, <2>1, TakesKeepsShape
    <3>. QED
      BY <1>1, <1>2, <2>1, <3>2, TakesKeepsShape
  <2>2. CASE Refuses(t)
    BY <1>1, <2>2, NetworkStays, TypeParts DEF Refuses, AtSlot
  <2>3. CASE lost' = lost \cup Abandoned({c}) /\ UNCHANGED pending
    <3>1. Empty(t.slot) => t.slot \in lost'
      BY <1>1, <1>2, <2>3, AbandonedIs DEF Watching
    <3>. QED
      BY <1>1, <2>3, <3>1, NetworkStays, TypeParts DEF AtSlot, Empty
  <2>. QED
    BY <1>1, <2>1, <2>2, <2>3
<1>6. lost' \subseteq Slots /\ lost \subseteq lost'
  BY <1>1, TypeParts, AbandonedIs
<1>7. TxTypeOK'
  <2>1. txFaults' \in 0 .. TxFaults
    BY <1>1, FaultTyped
  <2>. QED
    BY <1>1, <1>3, <1>5, <1>6, <2>1, TypeParts, TypedAgain
<1>8. LockDiscipline'
  BY <1>1, <1>3, <1>4 DEF LockDiscipline
<1>9. SentBelow'
  BY <1>1, <1>3 DEF SentBelow, Watching
<1>10. OwnSlot'
  <2>. SUFFICES ASSUME NEW u \in pending', ~u.noop
                PROVE  /\ call'[u.by].at \notin {"idle", "waiting", "reading"}
                       /\ call'[u.by].at \in {"sending", "polling", "filling"}
                            => u.slot = call'[u.by].slot
    BY DEF OwnSlot
  <2>1. u \in pending /\ u.by \in TxCalls
    BY <1>2, <1>5, TypeParts
  <2>. QED
    BY <1>3, <2>1 DEF OwnSlot
<1>11. SlotsDistinct'
  BY <1>3 DEF SlotsDistinct
<1>12. GapsOwned'
  <2>1. Len(mined) \in Nat /\ counter \in Nat \cup {-1}
    BY TypeParts
  <2>. SUFFICES ASSUME NEW s \in Len(mined) .. counter - 1, (AtSlot(s))' = {}, s \notin lost'
                PROVE  \E d \in TxCalls : call'[d].slot = s /\ call'[d].at \in Watching
    BY <1>1 DEF GapsOwned, Watching
  <2>2. s \in Nat /\ AtSlot(s) = {} /\ s \notin lost
    BY <1>5, <1>6, <2>1
  <2>3. s # call[c].slot
    BY <1>2, <1>5, <2>1 DEF Spent
  <2>4. PICK d \in TxCalls : call[d].slot = s /\ call[d].at \in Watching
    BY <2>2 DEF GapsOwned, Watching
  <2>. QED
    BY <1>3, <2>3, <2>4
<1>. QED
  BY <1>5, <1>7, <1>8, <1>9, <1>10, <1>11, <1>12

(* The transaction in the next slot is mined, at the position of its slot. *)
LEMMA MineKeeps ==
  ASSUME TxInv, Mine
  PROVE  TxInv'
<1>. USE DEF TxInv
<1>1. PICK t \in pending : /\ t.slot = Len(mined)
                           /\ mined' = Append(mined, t)
                           /\ pending' = pending \ {t}
                           /\ UNCHANGED <<counter, lock, call, lost, txFaults>>
  BY DEF Mine, AtSlot
<1>2. /\ Len(mined) \in Nat /\ mined \in Seq(Txs) /\ t \in Txs
      /\ counter \in Nat \cup {-1} /\ pending \subseteq Txs
      /\ \A u \in pending : u.slot \in Nat
  BY TypeParts
<1>3. /\ Len(mined') = Len(mined) + 1 /\ mined' \in Seq(Txs)
      /\ \A i \in 1 .. Len(mined) : mined'[i] = mined[i]
      /\ mined'[Len(mined) + 1] = t
  BY <1>1, <1>2
<1>4. TxTypeOK'
  BY <1>1, <1>2, <1>3, CallsTyped, TypeParts, TypedAgain
<1>5. LockDiscipline' /\ SentBelow' /\ SlotsDistinct'
  BY <1>1 DEF LockDiscipline, SentBelow, SlotsDistinct
<1>6. NetworkShape'
  <2>1. \A i \in 1 .. Len(mined') : mined'[i].slot = i - 1
    <3>. TAKE i \in 1 .. Len(mined')
    <3>1. CASE i = Len(mined) + 1
      BY <1>1, <1>2, <1>3, <3>1
    <3>2. CASE i \in 1 .. Len(mined)
      BY <1>3, <3>2 DEF NetworkShape
    <3>. QED
      BY <1>2, <1>3, <3>1, <3>2
  <2>2. IsFiniteSet(pending')
    BY <1>1, FS_RemoveElement DEF NetworkShape
  <2>3. \A u \in pending' : u.slot >= Len(mined')
    <3>. TAKE u \in pending'
    <3>1. u \in pending /\ u # t
      BY <1>1
    <3>2. u.slot >= Len(mined) /\ u.slot # Len(mined)
      BY <1>1, <3>1 DEF NetworkShape
    <3>. QED
      BY <1>2, <1>3, <3>1, <3>2
  <2>4. \A u, v \in pending' : u.slot = v.slot => u = v
    BY <1>1 DEF NetworkShape
  <2>. QED
    BY <2>1, <2>2, <2>3, <2>4 DEF NetworkShape
<1>7. OwnSlot'
  BY <1>1 DEF OwnSlot
<1>8. GapsOwned'
  <2>. SUFFICES ASSUME NEW s \in Len(mined) + 1 .. counter - 1, (AtSlot(s))' = {}, s \notin lost
                PROVE  \E d \in TxCalls : call[d].slot = s /\ call[d].at \in Watching
    BY <1>1, <1>3 DEF GapsOwned, Watching
  <2>1. s \in Len(mined) .. counter - 1 /\ s # t.slot
    BY <1>1, <1>2
  <2>2. AtSlot(s) = {}
    BY <1>1, <2>1 DEF AtSlot
  <2>. QED
    BY <2>1, <2>2 DEF GapsOwned, Watching
<1>. QED
  BY <1>4, <1>5, <1>6, <1>7, <1>8

(* A transaction is evicted: its slot is the counter's, or that of the     *)
(* call that watches it, or nobody is left to fill it.                     *)
LEMMA EvictKeeps ==
  ASSUME TxInv, Evict
  PROVE  TxInv'
<1>. USE DEF TxInv
<1>1. PICK t \in pending :
        /\ TxFault /\ pending' = pending \ {t}
        /\ lost' = IF ~t.noop /\ call[t.by].at \in {"sending", "polling", "filling"}
                   THEN lost ELSE lost \cup {t.slot}
        /\ UNCHANGED <<counter, lock, call, mined>>
  BY DEF Evict
<1>2. /\ Len(mined) \in Nat /\ counter \in Nat \cup {-1} /\ pending \subseteq Txs
      /\ t.slot \in Nat /\ t.by \in TxCalls
  BY TypeParts
<1>3. lost' \subseteq Slots /\ lost \subseteq lost'
  BY <1>1, <1>2, TypeParts DEF Slots
<1>4. TxTypeOK'
  BY <1>1, <1>2, <1>3, CallsTyped, TypeParts, TypedAgain, FaultTyped
<1>5. LockDiscipline' /\ SentBelow' /\ SlotsDistinct'
  BY <1>1 DEF LockDiscipline, SentBelow, SlotsDistinct
<1>6. NetworkShape'
  <2>1. IsFiniteSet(pending')
    BY <1>1, FS_RemoveElement DEF NetworkShape
  <2>. QED
    BY <1>1, <2>1 DEF NetworkShape
<1>7. OwnSlot'
  BY <1>1 DEF OwnSlot
<1>8. GapsOwned'
  <2>. SUFFICES ASSUME NEW s \in Len(mined) .. counter - 1, (AtSlot(s))' = {}, s \notin lost'
                PROVE  \E d \in TxCalls : call[d].slot = s /\ call[d].at \in Watching
    BY <1>1 DEF GapsOwned, Watching
  <2>2. CASE s # t.slot
    <3>1. AtSlot(s) = {}
      BY <1>1, <2>2 DEF AtSlot
    <3>. QED
      BY <1>3, <3>1 DEF GapsOwned
  <2>3. CASE s = t.slot
    <3>0. ~t.noop /\ call[t.by].at \in {"sending", "polling", "filling"}
      BY <1>1, <2>3
    <3>1. call[t.by].slot = s
      BY <2>3, <3>0 DEF OwnSlot
    <3>2. call[t.by].at # "sending"
      BY <1>2, <3>1 DEF LockDiscipline
    <3>. QED
      BY <1>2, <3>0, <3>1, <3>2 DEF Watching
  <2>. QED
    BY <2>2, <2>3
<1>. QED
  BY <1>4, <1>5, <1>6, <1>7, <1>8

(* JobTimeoutKeeps. A call dropped at its job's time limit leaves the lock *)
(* free; its slot, when it watched one that is empty, is left to nobody.   *)
LEMMA JobTimeoutKeeps ==
  ASSUME TxInv, NEW c \in TxCalls, JobTimeout(c)
  PROVE  TxInv'
<1>. USE DEF TxInv
<1>1. /\ TxFault /\ call[c].at \notin {"idle", "done"} /\ End(c, "gone")
      /\ lock' = IF lock = c THEN NoCall ELSE lock
      /\ UNCHANGED <<counter, mined>>
  BY DEF JobTimeout
<1>2. /\ call' \in [TxCalls -> CallRec]
      /\ call'[c].at = "done" /\ call'[c].slot = call[c].slot
      /\ call'[c].sent = call[c].sent
      /\ \A d \in TxCalls : d # c => call'[d] = call[d]
  BY <1>1, EndIs DEF Results
<1>3. /\ NetworkShape' /\ pending' \subseteq Txs
      /\ \A u \in pending' : u.noop \/ u \in pending
      /\ \A s \in Nat : (AtSlot(s))' = {} => AtSlot(s) = {}
      /\ lost' \subseteq Slots /\ lost \subseteq lost'
      /\ \A s \in Nat : /\ call[c].at \in Watching /\ s = call[c].slot
                        /\ ~Spent(s) /\ (AtSlot(s))' = {}
                        => s \in lost'
  <2>1. CASE UNCHANGED pending /\ lost' = lost \cup Abandoned({c})
    <3>1. call[c].at \in Watching /\ Empty(call[c].slot) => call[c].slot \in lost'
      BY <2>1, AbandonedIs
    <3>. QED
      BY <1>1, <2>1, <3>1, AbandonedIs, NetworkStays, TypeParts DEF AtSlot, Empty
  <2>2. CASE call[c].at = "noop" /\ Takes(Tx(c, TRUE)) /\ UNCHANGED lost
    <3>. DEFINE t == Tx(c, TRUE)
    <3>1. t \in Txs /\ t.slot = call[c].slot /\ t.noop = TRUE
      BY <2>2, TxTyped
    <3>2. Takes(t)
      BY <2>2
    <3>. HIDE DEF t
    <3>3. /\ NetworkShape' /\ pending' \subseteq Txs
          /\ \A u \in pending' : u = t \/ u \in pending
          /\ \A s \in Nat : (AtSlot(s))' = {} => AtSlot(s) = {} /\ s # t.slot
          /\ t.slot \in Nat
      BY <1>1, <3>1, <3>2, TakesKeepsShape
    <3>. QED
      BY <2>2, <3>1, <3>3, TypeParts
  <2>. QED
    BY <2>1, <2>2 DEF JobTimeout
<1>4. TxTypeOK'
  BY <1>1, <1>2, <1>3, TypeParts, TypedAgain, FaultTyped
<1>5. LockDiscipline'
  BY <1>1, <1>2 DEF LockDiscipline
<1>6. SentBelow'
  BY <1>1, <1>2 DEF SentBelow, Watching
<1>7. OwnSlot'
  BY <1>2, <1>3, TypeParts DEF OwnSlot
<1>8. SlotsDistinct'
  BY <1>2 DEF SlotsDistinct
<1>9. GapsOwned'
  <2>1. Len(mined) \in Nat /\ counter \in Nat \cup {-1}
    BY TypeParts
  <2>. SUFFICES ASSUME NEW s \in Len(mined) .. counter - 1, (AtSlot(s))' = {}, s \notin lost'
                PROVE  \E d \in TxCalls : call'[d].slot = s /\ call'[d].at \in Watching
    BY <1>1 DEF GapsOwned
  <2>2. s \in Nat /\ AtSlot(s) = {} /\ s \notin lost
    BY <1>3, <2>1
  <2>3. PICK d \in TxCalls : call[d].slot = s /\ call[d].at \in Watching
    BY <2>2 DEF GapsOwned
  <2>4. d # c
    BY <1>3, <2>1, <2>3 DEF Spent
  <2>. QED
    BY <1>2, <2>3, <2>4
<1>. QED
  BY <1>3, <1>4, <1>5, <1>6, <1>7, <1>8, <1>9

(* After a restart nothing is remembered as sent and the counter is        *)
(* unknown, so there is no slot it has passed.                             *)
LEMMA TxRestartKeeps ==
  ASSUME TxInv, TxRestart
  PROVE  TxInv'
<1>. USE DEF TxInv
<1>1. /\ TxFault /\ counter' = -1 /\ lock' = NoCall /\ UNCHANGED <<pending, mined>>
      /\ lost' = lost \cup Abandoned(TxCalls)
  BY DEF TxRestart, Uninitialized
<1>2. /\ call' \in [TxCalls -> CallRec]
      /\ \A c \in TxCalls : /\ call'[c].at = IF call[c].at = "idle" THEN "idle" ELSE "done"
                            /\ call'[c].sent = FALSE
  <2>. DEFINE new(c) == CASE call[c].at = "idle" -> call[c]
                          [] call[c].at = "done" -> [call[c] EXCEPT !.sent = FALSE]
                          [] OTHER -> [call[c] EXCEPT !.at = "done", !.sent = FALSE,
                                                      !.result = "gone"]
  <2>1. call' = [c \in TxCalls |-> new(c)]
    BY DEF TxRestart
  <2>2. ASSUME NEW c \in TxCalls
        PROVE  /\ new(c) \in CallRec
               /\ new(c).at = IF call[c].at = "idle" THEN "idle" ELSE "done"
               /\ new(c).sent = FALSE
    <3>1. call[c] \in CallRec
      BY CallsTyped
    <3>2. CASE call[c].at = "idle"
      <4>1. new(c) = call[c]
        BY <3>2
      <4>2. call[c].sent = FALSE
        BY <3>1, <3>2 DEF SentBelow, Watching, CallRec
      <4>. QED
        BY <3>1, <3>2, <4>1, <4>2
    <3>3. CASE call[c].at = "done"
      <4>1. new(c) = [call[c] EXCEPT !.sent = FALSE]
        BY <3>3
      <4>. HIDE DEF new
      <4>. QED
        BY <3>1, <3>3, <4>1 DEF CallRec
    <3>4. CASE call[c].at \notin {"idle", "done"}
      <4>1. new(c) = [call[c] EXCEPT !.at = "done", !.sent = FALSE, !.result = "gone"]
        BY <3>4
      <4>. HIDE DEF new
      <4>. QED
        BY <3>1, <3>4, <4>1 DEF CallRec, Places, Results
    <3>. QED
      BY <3>2, <3>3, <3>4
  <2>. HIDE DEF new
  <2>. QED
    BY <2>1, <2>2
<1>3. lost' \subseteq Slots
  BY <1>1, TypeParts, AbandonedIs
<1>4. TxTypeOK'
  BY <1>1, <1>2, <1>3, TypeParts, TypedAgain, FaultTyped
<1>5. LockDiscipline' /\ SentBelow' /\ SlotsDistinct'
  BY <1>2 DEF LockDiscipline, SentBelow, SlotsDistinct, Watching
<1>6. NetworkShape'
  BY <1>1, NetworkStays
<1>7. OwnSlot'
  BY <1>1, <1>2, TypeParts DEF OwnSlot
<1>8. GapsOwned'
  <2>1. Len(mined) \in Nat /\ Len(mined) .. -2 = {}
    BY TypeParts
  <2>2. Len(mined)' = Len(mined) /\ counter' - 1 = -2
    BY <1>1
  <2>. QED
    BY <2>1, <2>2 DEF GapsOwned
<1>. QED
  BY <1>4, <1>5, <1>6, <1>7, <1>8

-----------------------------------------------------------------------------
(* The theorems.                                                           *)

(* TxStutters. A step that leaves the variables alone keeps the invariant. *)
LEMMA TxStutters ==
  ASSUME TxInv, UNCHANGED txVars
  PROVE  TxInv'
BY DEF TxInv, txVars, TxTypeOK, LockDiscipline, SentBelow, NetworkShape, OwnSlot,
       SlotsDistinct, GapsOwned, AtSlot

(* TxStepKeeps. Every step of the sender keeps the inductive invariant.    *)
LEMMA TxStepKeeps ==
  ASSUME TxInv, [TxNext]_txVars
  PROVE  TxInv'
<1>1. ASSUME NEW c \in TxCalls, TxStep(c)
      PROVE  TxInv'
  BY <1>1, PrepareKeeps, AcquireKeeps, ReadNonceKeeps, ReadFailsKeeps,
     SendAcceptedKeeps, SendRefusedKeeps, SendUnansweredKeeps, SendFailsKeeps,
     ReceiptSeenKeeps, ReceiptTimeoutKeeps, AcquireForFillKeeps, FillNonceGapKeeps
  DEF TxStep
<1>. QED
  BY <1>1, JobTimeoutKeeps, MineKeeps, EvictKeeps, TxRestartKeeps, TxStutters DEF TxNext

(* SenderInvariant. TxInv is an invariant of the sender with any number of *)
(* calls and faults: the lock, the counter, the mempool and what each call *)
(* remembers agree (sign_and_send, fill_nonce_gap in client.rs).           *)
THEOREM SenderInvariant == TxSpec => []TxInv
<1>1. TxInv /\ [TxNext]_txVars => TxInv'
  BY TxStepKeeps
<1>. QED
  BY <1>1, InitTxInv, PTL DEF TxSpec

(* SenderSlots. What a process was told is sent never shares a nonce, and  *)
(* a slot the counter has passed and the network lacks has a call that     *)
(* will fill it or is one that was left when nobody did, over evictions,   *)
(* restarts and calls dropped at their job's time limit (sign_and_send,    *)
(* resync_nonce, wait_for_receipt in client.rs; PROCESS_JOB_TIMEOUT in     *)
(* worker/service.rs).                                                     *)
THEOREM SenderSlots == TxSpec => [](TxTypeOK /\ SlotsDistinct /\ GapsOwned)
<1>1. TxInv => TxTypeOK /\ SlotsDistinct /\ GapsOwned
  BY DEF TxInv
<1>. QED
  BY <1>1, SenderInvariant, PTL

=============================================================================
