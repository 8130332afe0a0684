-------------------------- MODULE Replacement_proofs --------------------------
(***************************************************************************)
(* Proofs about Replacement, for any requests, indexers, agreements and    *)
(* worker loops: the in-flight window, one offer to an indexer per         *)
(* request, and what a pass may take out.                                  *)
(*                                                                         *)
(* The argument. The reassess lock lets one pass run at a time, and only   *)
(* a pass registers offers. What it read of the offers out therefore only  *)
(* shrinks until it registers its own: every offer out is among those it   *)
(* counted, and every one of its own request is among its active           *)
(* agreements. The room it computed is still there when it registers.      *)
(***************************************************************************)
EXTENDS Replacement, FiniteSetTheorems, TLAPS

CreatedAt(i) == {a \in Created : IndexerOf(a) = i}

(* A pass that has begun holds the lock and has its request; the others    *)
(* hold nothing.                                                           *)
PassShape ==
  \A w \in Runners :
    IF pass[w].at = "idle" THEN pass[w] = Idle
    ELSE lock = w /\ pass[w].request \in Requests

(* Until it selects, a pass knows the offers of its request.               *)
KnowsItsOwn(w) ==
  pass[w].at \in {"counting", "selecting"} =>
    \A a \in Created :
      RequestOf(a) = pass[w].request => <<a, IndexerOf(a)>> \in pass[w].active

(* Once it has counted, it knows the offers out.                           *)
KnowsTheRest(w) ==
  pass[w].at = "selecting" =>
    \A a \in Created : <<a, IndexerOf(a)>> \in pass[w].counted

(* Once it has selected, the room for its offers is there.                 *)
HasRoom(w) ==
  pass[w].at = "adding" =>
    /\ pass[w].add # {} =>
         Cardinality(Created) + Cardinality(pass[w].add) <= GlobalCap
    /\ \A i \in pass[w].add : Cardinality(CreatedAt(i)) < PerIndexerCap
    /\ \A i \in pass[w].add : \A a \in Created :
         owner[a] # <<pass[w].request, i>>

Knowledge ==
  \A w \in Runners : KnowsItsOwn(w) /\ KnowsTheRest(w) /\ HasRoom(w)

IInv == /\ TypeOK
        /\ PassShape
        /\ Knowledge
        /\ WindowRespected
        /\ OneOfferPerIndexer
        /\ KeepsEnough

-----------------------------------------------------------------------------
(* Facts about finite sets.                                                *)

(* A set named by the second component of pairs has no more members than   *)
(* there are pairs.                                                        *)
LEMMA SecondsBound ==
  ASSUME NEW C, IsFiniteSet(C), NEW T, \A t \in T : \E c \in C : c[2] = t
  PROVE  IsFiniteSet(T) /\ Cardinality(T) <= Cardinality(C)
<1> DEFINE D == {c \in C : c[2] \in T}
           f == [c \in D |-> c[2]]
<1>1. f \in Surjection(D, T)
  BY DEF Surjection
<1>2. IsFiniteSet(D) /\ Cardinality(D) <= Cardinality(C)
  BY FS_Subset
<1>3. IsFiniteSet(T) /\ Cardinality(T) <= Cardinality(D)
  <2> HIDE DEF D, f
  <2> QED BY <1>1, <1>2, FS_Surjection
<1>4. Cardinality(T) \in Nat /\ Cardinality(D) \in Nat /\ Cardinality(C) \in Nat
  <2> HIDE DEF D
  <2> QED BY <1>2, <1>3, FS_CardinalityType
<1> QED BY <1>2, <1>3, <1>4

(* The same for first components.                                          *)
LEMMA FirstsBound ==
  ASSUME NEW C, IsFiniteSet(C), NEW T, \A t \in T : \E c \in C : c[1] = t
  PROVE  IsFiniteSet(T) /\ Cardinality(T) <= Cardinality(C)
<1> DEFINE D == {c \in C : c[1] \in T}
           f == [c \in D |-> c[1]]
<1>1. f \in Surjection(D, T)
  BY DEF Surjection
<1>2. IsFiniteSet(D) /\ Cardinality(D) <= Cardinality(C)
  BY FS_Subset
<1>3. IsFiniteSet(T) /\ Cardinality(T) <= Cardinality(D)
  <2> HIDE DEF D, f
  <2> QED BY <1>1, <1>2, FS_Surjection
<1>4. Cardinality(T) \in Nat /\ Cardinality(D) \in Nat /\ Cardinality(C) \in Nat
  <2> HIDE DEF D
  <2> QED BY <1>2, <1>3, FS_CardinalityType
<1> QED BY <1>2, <1>3, <1>4

(* Sets of agreements, indexers and listings are finite.                   *)
LEMMA Finite ==
  /\ \A S \in SUBSET Agreements : IsFiniteSet(S) /\ Cardinality(S) \in Nat
  /\ \A S \in SUBSET Indexers : IsFiniteSet(S) /\ Cardinality(S) \in Nat
  /\ \A S \in Listing : IsFiniteSet(S) /\ Cardinality(S) \in Nat
<1>1. IsFiniteSet(Agreements) /\ IsFiniteSet(Indexers)
  BY ReplacementAssumption
<1>2. IsFiniteSet(Agreements \X Indexers)
  BY <1>1, FS_Product
<1>3. \A S \in SUBSET Agreements : IsFiniteSet(S) /\ Cardinality(S) \in Nat
  BY <1>1, FS_Subset, FS_CardinalityType
<1>4. \A S \in SUBSET Indexers : IsFiniteSet(S) /\ Cardinality(S) \in Nat
  BY <1>1, FS_Subset, FS_CardinalityType
<1>5. \A S \in Listing : IsFiniteSet(S) /\ Cardinality(S) \in Nat
  <2> TAKE S \in Listing
  <2>1. S \in SUBSET (Agreements \X Indexers)
    BY DEF Listing
  <2>2. IsFiniteSet(S)
    BY <1>2, <2>1, FS_Subset
  <2> QED BY <2>2, FS_CardinalityType
<1> QED BY <1>3, <1>4, <1>5

(* A smaller set of agreements has no more members.                        *)
LEMMA Fewer ==
  ASSUME NEW S \in SUBSET Agreements, NEW T \in SUBSET S
  PROVE  /\ IsFiniteSet(T) /\ Cardinality(T) \in Nat
         /\ Cardinality(S) \in Nat /\ Cardinality(T) <= Cardinality(S)
<1>1. T \in SUBSET Agreements
  OBVIOUS
<1>2. IsFiniteSet(S)
  BY Finite
<1> QED BY <1>1, <1>2, Finite, FS_Subset

-----------------------------------------------------------------------------
(* What a step does to the rows and to the passes.                         *)

RowsTyped ==
  /\ status \in [Agreements -> RowStatuses]
  /\ owner \in [Agreements -> (Requests \X Indexers) \cup {None}]
  /\ \A a \in Agreements : owner[a] = None <=> status[a] = "none"
  /\ offer \in [Agreements -> {"open", "past", "settled"}]

(* No offer goes out: those out afterwards were out before.                *)
NoNewOffer ==
  /\ Created' \subseteq Created
  /\ \A a \in Created' : owner'[a] = owner[a]

(* A row that is there has its request and its indexer.                    *)
LEMMA RowHasOwner ==
  ASSUME RowsTyped, NEW a \in Agreements, status[a] # "none"
  PROVE  /\ owner[a] \in Requests \X Indexers
         /\ owner[a] = <<RequestOf(a), IndexerOf(a)>>
         /\ RequestOf(a) \in Requests /\ IndexerOf(a) \in Indexers
  BY DEF RowsTyped, RequestOf, IndexerOf

(* A row's move makes no offer.                                            *)
LEMMA MoveMakesNoOffer ==
  ASSUME RowsTyped, NEW a \in Agreements, NEW st \in RowStatuses,
         NEW clock \in {"open", "past", "settled"}, Move(a, st, clock),
         st = "none" \/ status[a] # "none",
         st = "Created" => status[a] = "Created"
  PROVE  RowsTyped' /\ NoNewOffer
<1>1. status' \in [Agreements -> RowStatuses]
  BY DEF RowsTyped, Move
<1>2. /\ owner' \in [Agreements -> (Requests \X Indexers) \cup {None}]
      /\ offer' \in [Agreements -> {"open", "past", "settled"}]
  BY DEF RowsTyped, Move
<1>3. \A b \in Agreements : owner'[b] = None <=> status'[b] = "none"
  BY DEF RowsTyped, Move
<1>4. NoNewOffer
  BY DEF RowsTyped, Move, NoNewOffer, Created
<1> QED BY <1>1, <1>2, <1>3, <1>4 DEF RowsTyped

(* Nor do rows that stay as they are.                                      *)
LEMMA StayMakesNoOffer ==
  ASSUME RowsTyped, UNCHANGED rowVars
  PROVE  RowsTyped' /\ NoNewOffer
  BY DEF RowsTyped, NoNewOffer, Created, rowVars

(* Nor does a cancel.                                                      *)
LEMMA CancelMakesNoOffer ==
  ASSUME RowsTyped, NEW a \in Agreements, MarkedCancelling(a)
  PROVE  RowsTyped' /\ NoNewOffer
<1>1. CASE status[a] \in CancellingFrom
  <2>1. Move(a, "Cancelling", offer[a]) /\ status[a] # "none"
    BY <1>1 DEF MarkedCancelling, CancellingFrom
  <2>2. "Cancelling" \in RowStatuses /\ offer[a] \in {"open", "past", "settled"}
    BY DEF RowsTyped, RowStatuses
  <2> QED BY <2>1, <2>2, MoveMakesNoOffer
<1>2. CASE status[a] \notin CancellingFrom
  BY <1>2, StayMakesNoOffer DEF MarkedCancelling, Stay
<1> QED BY <1>1, <1>2

(* Fewer offers out is a window respected, and no offer made twice.        *)
LEMMA FewerOffers ==
  ASSUME WindowRespected, OneOfferPerIndexer, NoNewOffer
  PROVE  /\ WindowRespected' /\ OneOfferPerIndexer'
         /\ Cardinality(Created') \in Nat /\ Cardinality(Created) \in Nat
         /\ Cardinality(Created') <= Cardinality(Created)
         /\ \A i \in Indexers :
              /\ Cardinality(CreatedAt(i)') \in Nat
              /\ Cardinality(CreatedAt(i)) \in Nat
              /\ Cardinality(CreatedAt(i)') <= Cardinality(CreatedAt(i))
<1> USE ReplacementAssumption
<1>1. /\ Cardinality(Created') \in Nat /\ Cardinality(Created) \in Nat
      /\ Cardinality(Created') <= Cardinality(Created)
  <2>1. Created \in SUBSET Agreements /\ Created' \in SUBSET Created
    BY DEF NoNewOffer, Created
  <2> QED BY <2>1, Fewer
<1>2. ASSUME NEW i \in Indexers
      PROVE  /\ Cardinality(CreatedAt(i)') \in Nat
             /\ Cardinality(CreatedAt(i)) \in Nat
             /\ Cardinality(CreatedAt(i)') <= Cardinality(CreatedAt(i))
  <2>1. CreatedAt(i) \in SUBSET Agreements
    BY DEF Created, CreatedAt
  <2>2. CreatedAt(i)' \in SUBSET CreatedAt(i)
    BY DEF NoNewOffer, CreatedAt, IndexerOf
  <2> QED BY <2>1, <2>2, Fewer
<1>3. WindowRespected'
  <2>1. Cardinality(Created') <= GlobalCap
    BY <1>1 DEF WindowRespected
  <2>2. ASSUME NEW i \in Indexers
        PROVE  Cardinality(CreatedAt(i)') <= PerIndexerCap
    <3>1. Cardinality(CreatedAt(i)) <= PerIndexerCap
      BY DEF WindowRespected, CreatedAt
    <3> QED BY <1>2, <3>1
  <2> QED BY <2>1, <2>2 DEF WindowRespected, CreatedAt
<1>4. OneOfferPerIndexer'
  BY DEF OneOfferPerIndexer, NoNewOffer
<1> QED BY <1>1, <1>2, <1>3, <1>4

RestTyped ==
  /\ request \in [Requests -> [status : {"none", "Open", "Canceled"},
                               target : Nat]]
  /\ pending \subseteq Agreements \X Agreements
  /\ queued \subseteq Requests
  /\ lock \in Runners \cup {None}
  /\ pass \in [Runners -> Passes]
  /\ fresh \subseteq Agreements
  /\ fan \in [new : Agreements \cup {None}, todo : SUBSET Agreements]
  /\ chores \subseteq Chores
  /\ faults \in 0 .. MaxFaults

(* The two parts of the type invariant, before and after a step.           *)
LEMMA TypeParts == /\ TypeOK <=> RowsTyped /\ RestTyped
                   /\ RowsTyped' /\ RestTyped' => TypeOK'
  BY DEF TypeOK, RowsTyped, RestTyped

(* The empty pass is a pass.                                               *)
LEMMA IdleTyped == Idle \in Passes
  BY DEF Idle, Passes, Stages, Listing

(* A step that makes no offer, ends some passes and leaves the others be.  *)
LEMMA CalmIInv ==
  ASSUME IInv, TypeOK', NoNewOffer,
         \A w \in Runners :
           pass'[w] = Idle \/ (pass'[w] = pass[w] /\ (lock = w => lock' = w))
  PROVE  IInv'
<1> USE DEF IInv
<1>1. /\ WindowRespected' /\ OneOfferPerIndexer'
      /\ Cardinality(Created') \in Nat /\ Cardinality(Created) \in Nat
      /\ Cardinality(Created') <= Cardinality(Created)
      /\ \A i \in Indexers :
           /\ Cardinality(CreatedAt(i)') \in Nat
           /\ Cardinality(CreatedAt(i)) \in Nat
           /\ Cardinality(CreatedAt(i)') <= Cardinality(CreatedAt(i))
  BY FewerOffers
<1>2. PassShape'
  BY DEF PassShape, Idle
<1>3. KeepsEnough'
  BY DEF KeepsEnough, Idle
<1>4. ASSUME NEW w \in Runners
      PROVE  (KnowsItsOwn(w) /\ KnowsTheRest(w) /\ HasRoom(w))'
  <2>1. CASE pass'[w] = Idle
    BY <2>1 DEF KnowsItsOwn, KnowsTheRest, HasRoom, Idle
  <2>2. CASE pass'[w] = pass[w]
    <3>1. KnowsItsOwn(w) /\ KnowsTheRest(w) /\ HasRoom(w)
      BY DEF Knowledge
    <3>2. KnowsItsOwn(w)' /\ KnowsTheRest(w)'
      BY <2>2, <3>1 DEF KnowsItsOwn, KnowsTheRest, NoNewOffer, RequestOf,
         IndexerOf
    <3>3. HasRoom(w)'
      <4> SUFFICES ASSUME pass[w].at = "adding" PROVE HasRoom(w)'
        BY <2>2 DEF HasRoom
      <4>1. pass[w].add \subseteq Indexers /\ Cardinality(pass[w].add) \in Nat
        BY Finite DEF TypeOK, Passes
      <4>2. pass'[w].add # {} =>
              Cardinality(Created') + Cardinality(pass'[w].add) <= GlobalCap
        BY <1>1, <2>2, <3>1, <4>1, ReplacementAssumption DEF HasRoom
      <4>3. \A i \in pass'[w].add : Cardinality(CreatedAt(i)') < PerIndexerCap
        <5> TAKE i \in pass'[w].add
        <5>1. i \in Indexers /\ Cardinality(CreatedAt(i)) < PerIndexerCap
          BY <2>2, <3>1, <4>1 DEF HasRoom
        <5> QED BY <1>1, <5>1, ReplacementAssumption
      <4>4. \A i \in pass'[w].add : \A a \in Created' :
              owner'[a] # <<pass'[w].request, i>>
        BY <2>2, <3>1 DEF HasRoom, NoNewOffer
      <4> QED BY <4>2, <4>3, <4>4 DEF HasRoom
    <3> QED BY <3>2, <3>3
  <2> QED BY <2>1, <2>2
<1> QED BY <1>1, <1>2, <1>3, <1>4 DEF Knowledge

(* The inductive invariant holds initially.                                *)
LEMMA InitIInv == Init => IInv
<1> SUFFICES ASSUME Init PROVE IInv
  OBVIOUS
<1> USE ReplacementAssumption
<1>1. TypeOK
  <2>1. RowsTyped
    BY DEF Init, RowsTyped, RowStatuses
  <2>2. RestTyped
    BY IdleTyped DEF Init, RestTyped, NoFan
  <2> QED BY <2>1, <2>2, TypeParts
<1>2. Created = {}
  BY DEF Init, Created
<1>3. WindowRespected
  <2>1. \A i \in Indexers : {a \in Created : IndexerOf(a) = i} = {}
    BY <1>2
  <2> QED BY <1>2, <2>1, FS_EmptySet DEF WindowRespected
<1>4. OneOfferPerIndexer
  BY <1>2 DEF OneOfferPerIndexer
<1>5. PassShape /\ Knowledge /\ KeepsEnough
  BY DEF Init, PassShape, Knowledge, KeepsEnough, KnowsItsOwn, KnowsTheRest,
     HasRoom, Idle
<1> QED BY <1>1, <1>3, <1>4, <1>5 DEF IInv

-----------------------------------------------------------------------------
(* The steps outside the reassessment.                                     *)

(* Setting targets and queueing the periodic reassessment.                 *)
LEMMA RequestsIInv ==
  ASSUME IInv, NEW r \in Requests,
         \/ \E n \in Targets :
              SetTarget(KeyOf[r], r, n) \/ SetTargetUnqueued(KeyOf[r], r, n)
         \/ Reassign(r)
  PROVE  IInv'
<1> USE ReplacementAssumption
<1>1. RowsTyped /\ RestTyped
  BY TypeParts DEF IInv
<1>2. UNCHANGED <<rowVars, pending, lock, pass, serviceVars>>
  BY DEF SetTarget, SetTargetUnqueued, Reassign
<1>3. /\ request' \in [Requests -> [status : {"none", "Open", "Canceled"},
                                    target : Nat]]
      /\ queued' \subseteq Requests
      /\ faults' \in 0 .. MaxFaults
  BY <1>1 DEF SetTarget, SetTargetUnqueued, Reassign, SetTargetRow, OpenFor,
     Fault, RestTyped
<1>4. TypeOK'
  <2>1. RestTyped'
    BY <1>1, <1>2, <1>3 DEF RestTyped, serviceVars
  <2>2. RowsTyped'
    BY <1>1, <1>2, StayMakesNoOffer
  <2> QED BY <2>1, <2>2, TypeParts
<1> QED BY <1>1, <1>2, <1>4, StayMakesNoOffer, CalmIInv

(* The chores after a mark.                                                *)
LEMMA ChoresIInv ==
  ASSUME IInv, NEW c \in chores, DoChore(c) \/ ChoreFails(c)
  PROVE  IInv'
<1> USE ReplacementAssumption
<1>1. RowsTyped /\ RestTyped
  BY TypeParts DEF IInv
<1>2. UNCHANGED <<request, rowVars, lock, pass, fresh, fan>>
  BY DEF DoChore, ChoreFails
<1>3. c.queue \subseteq Requests
  BY <1>1 DEF RestTyped, Chores
<1>4. /\ pending' \subseteq Agreements \X Agreements
      /\ queued' \subseteq Requests
      /\ chores' \subseteq Chores
      /\ faults' \in 0 .. MaxFaults
  BY <1>1, <1>3 DEF DoChore, ChoreFails, PendingWithout, Fault, RestTyped
<1>5. TypeOK'
  <2>1. RestTyped'
    BY <1>1, <1>2, <1>4 DEF RestTyped
  <2>2. RowsTyped'
    BY <1>1, <1>2, StayMakesNoOffer
  <2> QED BY <2>1, <2>2, TypeParts
<1> QED BY <1>1, <1>2, <1>5, StayMakesNoOffer, CalmIInv

(* The listener's fan-out.                                                 *)
LEMMA FanOutIInv ==
  ASSUME IInv, NEW o \in Agreements, NEW rest \in SUBSET Agreements,
         FanOut(o) \/ ExecutePending(o) \/ ExecutePendingFails(o, rest)
  PROVE  IInv'
<1> USE ReplacementAssumption
<1>1. RowsTyped /\ RestTyped
  BY TypeParts DEF IInv
<1>2. UNCHANGED <<request, queued, lock, pass, chores>>
  BY DEF FanOut, ExecutePending, ExecutePendingFails
<1>3. RowsTyped' /\ NoNewOffer
  <2>1. CASE MarkedCancelling(o)
    BY <1>1, <2>1, CancelMakesNoOffer
  <2>2. CASE UNCHANGED rowVars
    BY <1>1, <2>2, StayMakesNoOffer
  <2> QED BY <2>1, <2>2 DEF FanOut, ExecutePending, ExecutePendingFails,
         ReplacedMark, Stay
<1>4. /\ pending' \subseteq Agreements \X Agreements
      /\ fresh' \subseteq Agreements
      /\ faults' \in 0 .. MaxFaults
  BY <1>1 DEF FanOut, ExecutePending, ExecutePendingFails, DeletePending,
     Fault, RestTyped
<1>5. fan' \in [new : Agreements \cup {None}, todo : SUBSET Agreements]
  <2>1. fan.new \in Agreements \cup {None} /\ fan.todo \subseteq Agreements
    BY <1>1 DEF RestTyped
  <2>2. \A a \in Agreements \cup {None} : \A todo \in SUBSET Agreements :
          Fanning(a, todo) \in
            [new : Agreements \cup {None}, todo : SUBSET Agreements]
    BY DEF Fanning, NoFan
  <2>3. fan.todo \ {o} \in SUBSET Agreements /\ PendingOf(o) \in SUBSET Agreements
    BY <2>1 DEF PendingOf
  <2> QED BY <2>1, <2>2, <2>3 DEF FanOut, ExecutePending, ExecutePendingFails
<1>6. TypeOK'
  <2>1. RestTyped'
    BY <1>1, <1>2, <1>4, <1>5 DEF RestTyped
  <2> QED BY <1>3, <2>1, TypeParts
<1> QED BY <1>2, <1>3, <1>6, CalmIInv

(* What happens to one agreement's row.                                    *)
LEMMA AgreementIInv ==
  ASSUME IInv, NEW a \in Agreements, AgreementStep(a)
  PROVE  IInv'
<1> USE ReplacementAssumption
<1>1. RowsTyped /\ RestTyped
  BY TypeParts DEF IInv
<1>2. UNCHANGED <<request, pending, lock, pass, fan>>
  BY DEF AgreementStep, Decline, Expire, Retire, Accept, AcceptCancelling,
     EndedByIndexer, SweepOrphan, CancelEnds, ReopenLive, Abandon, Vacate,
     ReplaceAbandoned, ReplaceUnmarked, TimePasses, serviceVars
<1>3. status[a] \in RowStatuses /\ offer[a] \in {"open", "past", "settled"}
  BY <1>1 DEF RowsTyped
<1>4. /\ RowsTyped' /\ NoNewOffer
      /\ queued' \subseteq Requests /\ fresh' \subseteq Agreements
      /\ chores' \subseteq Chores /\ faults' \in 0 .. MaxFaults
  <2>1. CASE Decline(a) \/ Expire(a)
    <3>1. PICK st \in {"Rejected", "Expired", "none"},
               by \in {"proposal", "expiration"} : Retire(a, st, by)
      BY <2>1 DEF Decline, Expire
    <3> DEFINE to == IF offer[a] = "settled" THEN "none" ELSE st
    <3>2. to \in RowStatuses /\ to # "Created" /\ status[a] = "Created"
      BY <3>1 DEF Retire, RowStatuses
    <3>3. Move(a, to, offer[a])
      BY <3>1 DEF Retire
    <3>4. RowsTyped' /\ NoNewOffer
      <4> HIDE DEF to
      <4> QED BY <1>1, <1>3, <3>2, <3>3, MoveMakesNoOffer
    <3>5. RequestOf(a) \in Requests
      BY <1>1, <3>2, RowHasOwner
    <3>6. chores' \subseteq Chores
      BY <1>1, <3>1, <3>5 DEF Retire, Chores, RestTyped
    <3> QED BY <1>1, <3>1, <3>4, <3>6 DEF Retire, RestTyped
  <2>2. CASE \E st \in {"AcceptedOnChain", "none"} : Accept(a, st)
    <3>1. PICK st \in {"AcceptedOnChain", "none"} : Accept(a, st)
      BY <2>2
    <3>2. status[a] # "none" /\ st \in RowStatuses /\ Move(a, st, "settled")
      BY <3>1 DEF Accept, AcceptFrom, RowStatuses
    <3>3. RowsTyped' /\ NoNewOffer
      BY <1>1, <3>2, MoveMakesNoOffer
    <3> QED BY <1>1, <3>1, <3>3 DEF Accept, RestTyped
  <2>3. CASE AcceptCancelling(a) \/ SweepOrphan(a) \/ ReopenLive(a)
    <3>1. PICK clock \in {"open", "past", "settled"} :
            Move(a, "Cancelling", clock)
      BY <1>3, <2>3 DEF AcceptCancelling, SweepOrphan, ReopenLive
    <3>2. status[a] # "none" /\ "Cancelling" \in RowStatuses
      BY <2>3 DEF AcceptCancelling, SweepOrphan, Orphaned, ReopenLive,
         RowStatuses
    <3>3. RowsTyped' /\ NoNewOffer
      BY <1>1, <3>1, <3>2, MoveMakesNoOffer
    <3> QED BY <1>1, <2>3, <3>3 DEF AcceptCancelling, SweepOrphan,
           ReopenLive, RestTyped, serviceVars
  <2>4. CASE EndedByIndexer(a) \/ CancelEnds(a)
    <3>1. Move(a, "none", "settled") /\ "none" \in RowStatuses
      BY <2>4 DEF EndedByIndexer, CancelEnds, RowStatuses
    <3>2. RowsTyped' /\ NoNewOffer
      BY <1>1, <3>1, MoveMakesNoOffer
    <3> QED BY <1>1, <2>4, <3>2 DEF EndedByIndexer, CancelEnds, RestTyped,
           serviceVars
  <2>5. CASE Abandon(a)
    <3>1. /\ Move(a, "Abandoning", "settled") /\ status[a] # "none"
          /\ "Abandoning" \in RowStatuses
      BY <2>5 DEF Abandon, RowStatuses
    <3>2. RowsTyped' /\ NoNewOffer
      BY <1>1, <3>1, MoveMakesNoOffer
    <3>3. chores' \subseteq Chores
      BY <1>1, <2>5 DEF Abandon, Chores, RestTyped
    <3> QED BY <1>1, <2>5, <3>2, <3>3 DEF Abandon, RestTyped
  <2>6. CASE Vacate(a)
    <3>1. /\ Move(a, "Vacated", "settled") /\ status[a] # "none"
          /\ "Vacated" \in RowStatuses
      BY <2>6 DEF Vacate, RowStatuses
    <3>2. RowsTyped' /\ NoNewOffer
      BY <1>1, <3>1, MoveMakesNoOffer
    <3> QED BY <1>1, <2>6, <3>2 DEF Vacate, RestTyped, serviceVars
  <2>7. CASE ReplaceAbandoned(a) \/ ReplaceUnmarked(a)
    <3>1. RequestOf(a) \in Requests
      <4>1. status[a] # "none"
        BY <2>7 DEF ReplaceAbandoned, ReplaceUnmarked
      <4> QED BY <1>1, <4>1, RowHasOwner
    <3>2. RowsTyped' /\ NoNewOffer
      <4>1. CASE ReplaceAbandoned(a)
        <5>1. Move(a, "none", "settled") /\ "none" \in RowStatuses
          BY <4>1 DEF ReplaceAbandoned, RowStatuses
        <5> QED BY <1>1, <5>1, MoveMakesNoOffer
      <4>2. CASE ReplaceUnmarked(a)
        BY <1>1, <4>2, StayMakesNoOffer DEF ReplaceUnmarked
      <4> QED BY <2>7, <4>1, <4>2
    <3> QED BY <1>1, <2>7, <3>1, <3>2 DEF ReplaceAbandoned, ReplaceUnmarked,
           Fault, RestTyped, serviceVars
  <2>8. CASE TimePasses(a)
    <3>1. RowsTyped' /\ NoNewOffer
      <4>1. CASE Move(a, status[a], "past") \/ Move(a, status[a], "settled")
        BY <1>1, <1>3, <4>1, MoveMakesNoOffer
      <4>2. CASE Move(a, "none", "settled")
        BY <1>1, <4>2, MoveMakesNoOffer DEF RowStatuses
      <4> QED BY <2>8, <4>1, <4>2 DEF TimePasses
    <3> QED BY <1>1, <2>8, <3>1 DEF TimePasses, RestTyped, serviceVars
  <2> QED BY <2>1, <2>2, <2>3, <2>4, <2>5, <2>6, <2>7, <2>8
         DEF AgreementStep
<1>5. TypeOK'
  <2>1. RestTyped'
    BY <1>1, <1>2, <1>4 DEF RestTyped
  <2> QED BY <1>4, <2>1, TypeParts
<1> QED BY <1>2, <1>4, <1>5, CalmIInv

(* The process dies.                                                       *)
LEMMA CrashIInv == IInv /\ Crash => IInv'
<1> SUFFICES ASSUME IInv, Crash PROVE IInv'
  OBVIOUS
<1> USE ReplacementAssumption
<1>1. RowsTyped /\ RestTyped
  BY TypeParts DEF IInv
<1>2. RowsTyped' /\ NoNewOffer
  BY <1>1, StayMakesNoOffer DEF Crash
<1>3. RestTyped'
  <2>1. queued' \subseteq Requests
    BY <1>1 DEF Crash, RestTyped, Passes
  <2> QED BY <1>1, <2>1, IdleTyped DEF Crash, RestTyped, Fault, NoFan
<1>4. \A w \in Runners : pass'[w] = Idle
  BY DEF Crash
<1> QED BY <1>2, <1>3, <1>4, TypeParts, CalmIInv

-----------------------------------------------------------------------------
(* The steps of a reassessment.                                            *)

(* While one pass runs, under the lock, the others are idle: it is enough  *)
(* to look at that one.                                                    *)
LEMMA OnePassIInv ==
  ASSUME IInv, TypeOK', WindowRespected', OneOfferPerIndexer',
         NEW w \in Runners, lock \in {w, None}, lock' = w,
         \A v \in Runners \ {w} : pass'[v] = pass[v],
         pass'[w].at # "idle", pass'[w].request \in Requests,
         (KnowsItsOwn(w) /\ KnowsTheRest(w) /\ HasRoom(w))',
         pass'[w].at = "adding" =>
           Cardinality(pass'[w].olds)
             <= Cardinality(pass'[w].add) + pass'[w].spare
  PROVE  IInv'
<1>1. \A v \in Runners \ {w} : pass'[v] = Idle
  BY ReplacementAssumption DEF IInv, PassShape
<1>2. PassShape'
  BY <1>1 DEF PassShape, Idle
<1>3. KeepsEnough'
  BY <1>1 DEF KeepsEnough, Idle
<1>4. Knowledge'
  <2>1. ASSUME NEW v \in Runners \ {w}
        PROVE  (KnowsItsOwn(v) /\ KnowsTheRest(v) /\ HasRoom(v))'
    BY <1>1 DEF KnowsItsOwn, KnowsTheRest, HasRoom, Idle
  <2> QED BY <2>1 DEF Knowledge
<1> QED BY <1>2, <1>3, <1>4 DEF IInv

(* A pass that is not idle holds the lock.                                 *)
LEMMA RunningPass ==
  ASSUME IInv, NEW w \in Runners, pass[w].at # "idle"
  PROVE  /\ lock = w /\ pass[w].request \in Requests
         /\ pass[w] \in Passes
         /\ KnowsItsOwn(w) /\ KnowsTheRest(w) /\ HasRoom(w)
  BY DEF IInv, PassShape, Knowledge, TypeOK

(* Rows that stay as they are: the promises about offers stay.             *)
LEMMA SameOffers ==
  ASSUME IInv, UNCHANGED rowVars
  PROVE  /\ WindowRespected' /\ OneOfferPerIndexer' /\ RowsTyped'
         /\ Created' = Created /\ \A i : CreatedAt(i)' = CreatedAt(i)
<1>1. Created' = Created /\ \A i : CreatedAt(i)' = CreatedAt(i)
  BY DEF rowVars, Created, CreatedAt, IndexerOf
<1>2. RowsTyped' /\ NoNewOffer
  BY TypeParts, StayMakesNoOffer DEF IInv
<1> QED BY <1>1, <1>2, FewerOffers DEF IInv

(* The pass starts, and reads its active agreements.                       *)
LEMMA StartIInv ==
  ASSUME IInv, NEW w \in Runners, NEW r \in Requests, Start(w, r)
  PROVE  IInv'
<1> USE ReplacementAssumption
<1>1. RowsTyped /\ RestTyped
  BY TypeParts DEF IInv
<1>2. Named(ActiveOf(r)) \in Listing
  <2>1. ASSUME NEW a \in ActiveOf(r)
        PROVE  <<a, IndexerOf(a)>> \in Agreements \X Indexers
    <3>1. a \in Agreements /\ status[a] # "none"
      BY DEF ActiveOf, ActiveStatuses
    <3> QED BY <1>1, <3>1, RowHasOwner
  <2> QED BY <2>1 DEF Named, Listing
<1> DEFINE t == IF request[r].status = "Open" THEN request[r].target ELSE 0
           p == [Idle EXCEPT !.at = "counting", !.request = r,
                             !.target = t, !.active = Named(ActiveOf(r))]
<1>3. t \in Nat
  BY <1>1 DEF RestTyped
<1>4. /\ p \in Passes /\ p.at = "counting" /\ p.request = r
      /\ p.active = Named(ActiveOf(r))
  <2> HIDE DEF t
  <2> QED BY <1>2, <1>3 DEF Idle, Passes, Stages, Listing
<1>5. pass' = [pass EXCEPT ![w] = p]
  BY DEF Start, Plan
<1> HIDE DEF p, t
<1>6. TypeOK'
  <2>1. RestTyped'
    BY <1>1, <1>4, <1>5 DEF Start, RestTyped, serviceVars
  <2> QED BY <2>1, SameOffers, TypeParts DEF Start
<1>7. pass'[w] = p /\ \A v \in Runners \ {w} : pass'[v] = pass[v]
  BY <1>1, <1>5 DEF RestTyped
<1>8. (KnowsItsOwn(w) /\ KnowsTheRest(w) /\ HasRoom(w))'
  <2>1. ASSUME NEW a \in Created', RequestOf(a)' = r
        PROVE  <<a, IndexerOf(a)'>> \in p.active
    <3>1. a \in ActiveOf(r) /\ IndexerOf(a)' = IndexerOf(a)
      BY <2>1 DEF Start, rowVars, Created, ActiveOf, ActiveStatuses,
         RequestOf, IndexerOf
    <3> QED BY <1>4, <3>1 DEF Named
  <2> QED BY <1>4, <1>7, <2>1 DEF KnowsItsOwn, KnowsTheRest, HasRoom
<1>9. lock = None /\ lock' = w /\ UNCHANGED rowVars
  BY DEF Start
<1> QED BY <1>4, <1>6, <1>7, <1>8, <1>9, SameOffers, OnePassIInv

(* The offers out are counted.                                             *)
LEMMA CountIInv ==
  ASSUME IInv, NEW w \in Runners, CountInFlight(w)
  PROVE  IInv'
<1> USE ReplacementAssumption
<1>1. RowsTyped /\ RestTyped
  BY TypeParts DEF IInv
<1> DEFINE held == HeldBy(pass[w].request)
           p == [pass[w] EXCEPT !.at = "selecting", !.held = held,
                                !.counted = Named(InFlight)]
<1>2. pass[w].at = "counting" /\ pass' = [pass EXCEPT ![w] = p]
  BY DEF CountInFlight, Plan
<1>3. /\ lock = w /\ pass[w].request \in Requests /\ pass[w] \in Passes
      /\ KnowsItsOwn(w)
  BY <1>2, RunningPass
<1>4. Named(InFlight) \in Listing
  <2>1. ASSUME NEW a \in InFlight
        PROVE  <<a, IndexerOf(a)>> \in Agreements \X Indexers
    <3>1. a \in Agreements /\ status[a] # "none"
      BY DEF InFlight, Created
    <3> QED BY <1>1, <3>1, RowHasOwner
  <2> QED BY <2>1 DEF Named, Listing
<1>5. held \in SUBSET Indexers
  BY DEF HeldBy
<1>6. /\ p \in Passes /\ p.at = "selecting" /\ p.request = pass[w].request
      /\ p.active = pass[w].active /\ p.counted = Named(InFlight)
  <2> HIDE DEF held
  <2> QED BY <1>3, <1>4, <1>5 DEF Passes, Stages
<1> HIDE DEF p, held
<1>7. TypeOK'
  <2>1. RestTyped'
    BY <1>1, <1>2, <1>6 DEF CountInFlight, RestTyped, serviceVars
  <2> QED BY <2>1, SameOffers, TypeParts DEF CountInFlight
<1>8. pass'[w] = p /\ \A v \in Runners \ {w} : pass'[v] = pass[v]
  BY <1>1, <1>2 DEF RestTyped
<1>9. (KnowsItsOwn(w) /\ KnowsTheRest(w) /\ HasRoom(w))'
  <2>1. UNCHANGED rowVars /\ Created' = Created
    BY SameOffers DEF CountInFlight
  <2>2. KnowsItsOwn(w)'
    BY <1>2, <1>3, <1>6, <1>8, <2>1 DEF KnowsItsOwn, RequestOf, IndexerOf,
       rowVars
  <2>3. KnowsTheRest(w)'
    BY <1>6, <1>8, <2>1 DEF KnowsTheRest, Named, InFlight, IndexerOf, rowVars
  <2>4. HasRoom(w)'
    BY <1>6, <1>8 DEF HasRoom
  <2> QED BY <2>2, <2>3, <2>4
<1>10. lock' = w /\ UNCHANGED rowVars
  BY <1>3 DEF CountInFlight
<1> QED BY <1>3, <1>6, <1>7, <1>8, <1>9, <1>10, SameOffers, OnePassIInv

(* The pass ends: deferred, done or failed.                                *)
LEMMA PassEndsIInv ==
  ASSUME IInv, NEW w \in Runners,
         \/ DeferSaturated(w) \/ Finish(w)
         \/ \E again \in SUBSET Requests : PassFails(w, again)
  PROVE  IInv'
<1> USE ReplacementAssumption
<1>1. RowsTyped /\ RestTyped
  BY TypeParts DEF IInv
<1>2. /\ pass[w].at # "idle" /\ pass' = [pass EXCEPT ![w] = Idle]
      /\ lock' = IF lock = w THEN None ELSE lock
      /\ UNCHANGED <<request, rowVars, pending, serviceVars>>
  BY DEF DeferSaturated, Finish, PassFails, Plan, Release
<1>3. pass[w].request \in Requests
  BY <1>2, RunningPass
<1>4. queued' \subseteq Requests /\ faults' \in 0 .. MaxFaults
  BY <1>1, <1>3 DEF DeferSaturated, Finish, PassFails, Fault, RestTyped
<1>5. TypeOK'
  <2>1. RestTyped'
    BY <1>1, <1>2, <1>4, IdleTyped DEF RestTyped, serviceVars
  <2> QED BY <1>2, <2>1, SameOffers, TypeParts
<1>6. NoNewOffer
  BY <1>1, <1>2, StayMakesNoOffer
<1>7. \A v \in Runners :
        pass'[v] = Idle \/ (pass'[v] = pass[v] /\ (lock = v => lock' = v))
  BY <1>1, <1>2 DEF RestTyped
<1> QED BY <1>5, <1>6, <1>7, CalmIInv

(* The room that a pass finds for the offers it admits: what is out is     *)
(* among what it counted.                                                  *)
LEMMA AdmittedFit ==
  ASSUME IInv, NEW w \in Runners, pass[w].at = "selecting",
         NEW add \in SUBSET Indexers, NEW admitted \in SUBSET add,
         Admits(add, admitted, pass[w].counted)
  PROVE  /\ admitted # {} =>
              Cardinality(Created) + Cardinality(admitted) <= GlobalCap
         /\ \A i \in admitted : Cardinality(CreatedAt(i)) < PerIndexerCap
<1> DEFINE counted == pass[w].counted
           countedAt(i) == {c \in counted : c[2] = i}
           eligible == {i \in add : Cardinality(countedAt(i)) < PerIndexerCap}
<1>1. counted \in Listing /\ KnowsTheRest(w)
  BY RunningPass DEF Passes
<1>2. \A a \in Created : <<a, IndexerOf(a)>> \in counted
  BY <1>1 DEF KnowsTheRest
<1>3. /\ admitted \subseteq eligible
      /\ Cardinality(admitted) =
           MinOf(Cardinality(eligible), Minus(GlobalCap, Cardinality(counted)))
  BY DEF Admits
<1>4. /\ Cardinality(counted) \in Nat /\ Cardinality(admitted) \in Nat
      /\ Cardinality(eligible) \in Nat
      /\ IsFiniteSet(counted) /\ IsFiniteSet(admitted)
  BY <1>1, Finite
<1>5. Cardinality(Created) <= Cardinality(counted) /\ Cardinality(Created) \in Nat
  <2>1. \A a \in Created : \E c \in counted : c[1] = a
    BY <1>2
  <2>2. IsFiniteSet(Created) /\ Cardinality(Created) <= Cardinality(counted)
    <3> HIDE DEF counted
    <3> QED BY <1>4, <2>1, FirstsBound
  <2> QED BY <2>2, FS_CardinalityType
<1>6. ASSUME NEW i \in admitted PROVE Cardinality(CreatedAt(i)) < PerIndexerCap
  <2>1. countedAt(i) \in Listing
    BY <1>1 DEF Listing
  <2>2. \A a \in CreatedAt(i) : \E c \in countedAt(i) : c[1] = a
    <3> TAKE a \in CreatedAt(i)
    <3>1. <<a, i>> \in counted
      BY <1>2 DEF CreatedAt
    <3>2. <<a, i>>[1] = a /\ <<a, i>>[2] = i
      OBVIOUS
    <3> QED BY <3>1, <3>2
  <2>3. Cardinality(countedAt(i)) < PerIndexerCap
    BY <1>3
  <2> HIDE DEF countedAt
  <2>4. IsFiniteSet(countedAt(i)) /\ Cardinality(countedAt(i)) \in Nat
    BY <2>1, Finite
  <2>5. /\ IsFiniteSet(CreatedAt(i))
        /\ Cardinality(CreatedAt(i)) <= Cardinality(countedAt(i))
    BY <2>2, <2>4, FirstsBound
  <2>6. Cardinality(CreatedAt(i)) \in Nat
    BY <2>5, FS_CardinalityType
  <2> QED BY <2>3, <2>4, <2>5, <2>6, ReplacementAssumption
<1>7. ASSUME admitted # {}
      PROVE  Cardinality(Created) + Cardinality(admitted) <= GlobalCap
  <2>1. Cardinality(admitted) # 0
    BY <1>4, <1>7, FS_EmptySet
  <2> HIDE DEF counted, eligible
  <2> QED BY <1>3, <1>4, <1>5, <2>1, ReplacementAssumption DEF MinOf, Minus
<1> QED BY <1>6, <1>7

(* What leaves is covered by the offers let out and by how far the active  *)
(* agreements outnumber the picks: each kept indexer has an agreement.     *)
LEMMA OldsCovered ==
  ASSUME NEW active \in Listing, NEW picks \in SUBSET Indexers, NEW m \in Nat,
         NEW current, current = {c[2] : c \in active},
         NEW outs, outs = {c[1] : c \in {d \in active : d[2] \notin picks}},
         NEW olds, Cardinality(olds) =
           Cardinality(outs) - ReservedCancelCount(
             Cardinality(outs), Cardinality(picks \ current), m)
  PROVE  /\ Cardinality(olds) <= m + Minus(Cardinality(active), Cardinality(picks))
         /\ Minus(Cardinality(active), Cardinality(picks)) \in Nat
<1> DEFINE leaving == {d \in active : d[2] \notin picks}
           kept == {d \in active : d[2] \in picks}
<1>1. leaving \in Listing /\ kept \in Listing
  BY DEF Listing
<1>2. /\ IsFiniteSet(leaving) /\ IsFiniteSet(kept) /\ IsFiniteSet(active)
      /\ Cardinality(leaving) \in Nat /\ Cardinality(kept) \in Nat
      /\ Cardinality(active) \in Nat
  <2> HIDE DEF leaving, kept
  <2> QED BY <1>1, Finite
<1>3. Cardinality(active) = Cardinality(leaving) + Cardinality(kept)
  <2>1. active = leaving \cup kept /\ leaving \cap kept = {}
    OBVIOUS
  <2> HIDE DEF leaving, kept
  <2>2. Cardinality(active) = Cardinality(leaving) + Cardinality(kept) - 0
    BY <1>2, <2>1, FS_Union, FS_EmptySet
  <2> QED BY <1>2, <2>2
<1>4. /\ IsFiniteSet(outs) /\ Cardinality(outs) <= Cardinality(leaving)
      /\ Cardinality(outs) \in Nat
  <2>1. \A o \in outs : \E c \in leaving : c[1] = o
    OBVIOUS
  <2> HIDE DEF leaving
  <2>2. IsFiniteSet(outs) /\ Cardinality(outs) <= Cardinality(leaving)
    BY <1>2, <2>1, FirstsBound
  <2> QED BY <2>2, FS_CardinalityType
<1>5. Cardinality(picks \cap current) <= Cardinality(kept)
  <2>1. \A i \in picks \cap current : \E c \in kept : c[2] = i
    OBVIOUS
  <2> HIDE DEF kept
  <2> QED BY <1>2, <2>1, SecondsBound
<1>6. /\ picks \cap current \in SUBSET Indexers /\ picks \ current \in SUBSET Indexers
      /\ Cardinality(picks \cap current) \in Nat
      /\ Cardinality(picks \ current) \in Nat /\ Cardinality(picks) \in Nat
  BY Finite
<1>7. Cardinality(picks) =
        Cardinality(picks \cap current) + Cardinality(picks \ current)
  <2>1. /\ picks = (picks \cap current) \cup (picks \ current)
        /\ (picks \cap current) \cap (picks \ current) = {}
    OBVIOUS
  <2>2. IsFiniteSet(picks \cap current) /\ IsFiniteSet(picks \ current)
    BY <1>6, Finite
  <2>3. Cardinality(picks) =
          Cardinality(picks \cap current) + Cardinality(picks \ current) - 0
    BY <2>1, <2>2, FS_Union, FS_EmptySet
  <2> QED BY <1>6, <2>3
<1> HIDE DEF leaving, kept
<1> QED BY <1>2, <1>3, <1>4, <1>5, <1>6, <1>7
       DEF Minus, MinOf, ReservedCancelCount

(* The pass plans: its offers fit, go to indexers its request has no offer *)
(* out to, and cover what leaves.                                          *)
LEMMA SelectIInv ==
  ASSUME IInv, NEW w \in Runners, NEW picks \in SUBSET Indexers,
         NEW offers \in SUBSET picks, NEW add \in SUBSET offers,
         NEW admitted \in SUBSET add,
         NEW olds \in SUBSET {c[1] : c \in pass[w].active},
         Select(w, picks, offers, add, admitted, olds)
  PROVE  IInv'
<1> USE ReplacementAssumption
<1>1. RowsTyped /\ RestTyped
  BY TypeParts DEF IInv
<1> DEFINE p == pass[w]
           current == {c[2] : c \in p.active}
           outs == {c[1] : c \in {d \in p.active : d[2] \notin picks}}
           spare == Minus(Cardinality(p.active), Cardinality(picks))
           withheld == Cardinality(add) - Cardinality(admitted)
           q == [Idle EXCEPT !.at = "adding", !.request = p.request,
                             !.add = admitted, !.olds = olds,
                             !.withheld = withheld, !.spare = spare]
<1>2. /\ p.at = "selecting" /\ offers \subseteq picks \ (current \cup p.held)
      /\ Admits(add, admitted, p.counted)
      /\ Cardinality(olds) = Cardinality(outs) -
           ReservedCancelCount(Cardinality(outs), Cardinality(picks \ current),
                               Cardinality(admitted))
      /\ pass' = [pass EXCEPT ![w] = q]
      /\ UNCHANGED <<request, rowVars, pending, queued, lock, serviceVars, faults>>
  BY DEF Select, Plan
<1>3. /\ lock = w /\ p.request \in Requests /\ p \in Passes /\ KnowsItsOwn(w)
  BY <1>2, RunningPass
<1>4. /\ p.active \in Listing /\ olds \in SUBSET Agreements
      /\ add \in SUBSET Indexers /\ admitted \in SUBSET Indexers
  <2>1. p.active \in Listing
    BY <1>3 DEF Passes
  <2>2. \A c \in p.active : c[1] \in Agreements
    BY <2>1 DEF Listing
  <2> QED BY <2>1, <2>2
<1>5. /\ Cardinality(olds) <= Cardinality(admitted) + spare /\ spare \in Nat
      /\ Cardinality(admitted) \in Nat
  <2>1. Cardinality(admitted) \in Nat
    BY <1>4, Finite
  <2> HIDE DEF p
  <2> QED BY <1>2, <1>4, <2>1, OldsCovered
<1>6. withheld \in Nat
  <2>1. IsFiniteSet(add) /\ Cardinality(add) \in Nat
    BY <1>4, Finite
  <2>2. Cardinality(admitted) <= Cardinality(add)
    BY <2>1, FS_Subset
  <2> QED BY <1>5, <2>1, <2>2
<1>7. /\ q \in Passes /\ q.at = "adding" /\ q.request = p.request
      /\ q.add = admitted /\ q.olds = olds /\ q.spare = spare
  <2> HIDE DEF spare, withheld, p
  <2> QED BY <1>3, <1>4, <1>5, <1>6 DEF Idle, Passes, Stages, Listing
<1>8. /\ admitted # {} =>
           Cardinality(Created) + Cardinality(admitted) <= GlobalCap
      /\ \A i \in admitted : Cardinality(CreatedAt(i)) < PerIndexerCap
  BY <1>2, <1>4, AdmittedFit
<1>9. \A i \in admitted : \A a \in Created : owner[a] # <<p.request, i>>
  <2> SUFFICES ASSUME NEW i \in admitted, NEW a \in Created,
                      owner[a] = <<p.request, i>>
               PROVE  FALSE
    OBVIOUS
  <2>1. <<a, i>> \in p.active
    BY <1>2, <1>3 DEF KnowsItsOwn, RequestOf, IndexerOf
  <2>2. i \in current
    <3>1. <<a, i>>[2] = i
      OBVIOUS
    <3> QED BY <2>1, <3>1
  <2> QED BY <1>2, <2>2
<1> HIDE DEF q, p, spare, withheld, current, outs
<1>10. TypeOK'
  <2>1. RestTyped'
    BY <1>1, <1>2, <1>7 DEF RestTyped, serviceVars
  <2> QED BY <1>2, <2>1, SameOffers, TypeParts
<1>11. pass'[w] = q /\ \A v \in Runners \ {w} : pass'[v] = pass[v]
  BY <1>1, <1>2 DEF RestTyped
<1>12. (KnowsItsOwn(w) /\ KnowsTheRest(w) /\ HasRoom(w))'
  <2>1. /\ owner' = owner /\ Created' = Created
        /\ \A i : CreatedAt(i)' = CreatedAt(i)
    BY <1>2, SameOffers DEF rowVars
  <2>2. HasRoom(w)'
    BY <1>7, <1>8, <1>9, <1>11, <2>1 DEF HasRoom
  <2> QED BY <1>7, <1>11, <2>2 DEF KnowsItsOwn, KnowsTheRest
<1>13. lock' = w
  BY <1>2, <1>3
<1> QED BY <1>2, <1>3, <1>5, <1>7, <1>10, <1>11, <1>12, <1>13, SameOffers,
       OnePassIInv

(* An offer goes out where there was room for it.                          *)
LEMMA InsertFits ==
  ASSUME IInv, NEW w \in Runners, pass[w].at = "adding",
         NEW i \in pass[w].add, NEW a \in Agreements, Insert(w, i, a)
  PROVE  /\ RowsTyped' /\ WindowRespected' /\ OneOfferPerIndexer'
         /\ pass[w].add \ {i} # {} =>
              Cardinality(Created') + Cardinality(pass[w].add \ {i}) <= GlobalCap
         /\ \A j \in pass[w].add \ {i} :
              Cardinality(CreatedAt(j)') < PerIndexerCap
         /\ \A j \in pass[w].add \ {i} : \A b \in Created' :
              owner'[b] # <<pass[w].request, j>>
<1> USE ReplacementAssumption
<1> DEFINE r == pass[w].request
           S == pass[w].add
<1>1. RowsTyped
  BY TypeParts DEF IInv
<1>2. r \in Requests /\ S \in SUBSET Indexers /\ HasRoom(w) /\ i \in Indexers
  BY RunningPass DEF Passes
<1>3. /\ status' = [status EXCEPT ![a] = "Created"]
      /\ owner' = [owner EXCEPT ![a] = <<r, i>>]
      /\ offer' = [offer EXCEPT ![a] = "open"]
      /\ status[a] = "none"
  BY DEF Insert, Free
<1>4. /\ Cardinality(Created) + Cardinality(S) <= GlobalCap
      /\ \A j \in S : Cardinality(CreatedAt(j)) < PerIndexerCap
      /\ \A j \in S : \A b \in Created : owner[b] # <<r, j>>
  BY <1>2 DEF HasRoom
<1> HIDE DEF r, S
<1> USE <1>2
<1>5. RowsTyped'
  BY <1>1, <1>3 DEF RowsTyped, RowStatuses
<1>6. a \notin Created /\ Created' = Created \cup {a}
  BY <1>1, <1>3 DEF RowsTyped, Created
<1>7. owner'[a] = <<r, i>> /\ \A b \in Created : owner'[b] = owner[b]
  BY <1>1, <1>3, <1>6 DEF RowsTyped, Created
<1>8. /\ IsFiniteSet(Created) /\ Cardinality(Created) \in Nat
      /\ \A j : IsFiniteSet(CreatedAt(j)) /\ Cardinality(CreatedAt(j)) \in Nat
      /\ IsFiniteSet(S) /\ Cardinality(S) \in Nat
  <2>1. Created \in SUBSET Agreements /\ \A j : CreatedAt(j) \in SUBSET Agreements
    BY DEF Created, CreatedAt
  <2> QED BY <2>1, Finite
<1>9. Cardinality(Created') = Cardinality(Created) + 1
  BY <1>6, <1>8, FS_AddElement
<1>10. Cardinality(CreatedAt(i)') = Cardinality(CreatedAt(i)) + 1
  <2>1. CreatedAt(i)' = CreatedAt(i) \cup {a} /\ a \notin CreatedAt(i)
    BY <1>6, <1>7 DEF CreatedAt, IndexerOf
  <2> QED BY <1>8, <2>1, FS_AddElement
<1>11. \A j \in Indexers \ {i} : CreatedAt(j)' = CreatedAt(j)
  BY <1>6, <1>7 DEF CreatedAt, IndexerOf
<1>12. Cardinality(S \ {i}) = Cardinality(S) - 1 /\ Cardinality(S) # 0
  <2>1. i \in S /\ S # {}
    BY DEF S
  <2> QED BY <1>8, <2>1, FS_RemoveElement, FS_EmptySet
<1>13. i \in S
  BY DEF S
<1>14. WindowRespected'
  <2>1. Cardinality(Created') <= GlobalCap
    BY <1>4, <1>8, <1>9, <1>12
  <2>2. Cardinality(CreatedAt(i)') <= PerIndexerCap
    <3>1. Cardinality(CreatedAt(i)) < PerIndexerCap
      BY <1>4, <1>13
    <3> QED BY <1>8, <1>10, <3>1
  <2>3. \A j \in Indexers \ {i} : Cardinality(CreatedAt(j)') <= PerIndexerCap
    BY <1>11 DEF IInv, WindowRespected, CreatedAt
  <2> QED BY <2>1, <2>2, <2>3 DEF WindowRespected, CreatedAt
<1>15. OneOfferPerIndexer'
  BY <1>4, <1>6, <1>7, <1>13 DEF IInv, OneOfferPerIndexer
<1>16. Cardinality(Created') + Cardinality(S \ {i}) <= GlobalCap
  BY <1>4, <1>8, <1>9, <1>12
<1>17. \A j \in S \ {i} : Cardinality(CreatedAt(j)') < PerIndexerCap
  BY <1>4, <1>11
<1>18. \A j \in S \ {i} : \A b \in Created' : owner'[b] # <<r, j>>
  BY <1>4, <1>6, <1>7
<1> QED BY <1>5, <1>14, <1>15, <1>16, <1>17, <1>18 DEF r, S

(* One offer fewer to make and one old fewer to take out, or none left.    *)
LEMMA OldsStillCovered ==
  ASSUME IInv, NEW w \in Runners, pass[w].at = "adding",
         NEW i \in pass[w].add, NEW olds,
         \/ pass[w].olds = {} /\ olds = {}
         \/ \E o \in pass[w].olds : olds = pass[w].olds \ {o}
  PROVE  Cardinality(olds) <= Cardinality(pass[w].add \ {i}) + pass[w].spare
<1>1. pass[w] \in Passes
  BY DEF IInv, TypeOK
<1>2. /\ pass[w].add \in SUBSET Indexers /\ pass[w].olds \in SUBSET Agreements
      /\ pass[w].spare \in Nat
  BY <1>1 DEF Passes
<1>3. /\ IsFiniteSet(pass[w].add) /\ Cardinality(pass[w].add) \in Nat
      /\ IsFiniteSet(pass[w].olds) /\ Cardinality(pass[w].olds) \in Nat
  BY <1>2, Finite
<1>4. /\ Cardinality(pass[w].add \ {i}) = Cardinality(pass[w].add) - 1
      /\ Cardinality(pass[w].add) # 0
  BY <1>3, FS_RemoveElement, FS_EmptySet
<1>5. Cardinality(pass[w].olds) <= Cardinality(pass[w].add) + pass[w].spare
  BY DEF IInv, KeepsEnough
<1>6. CASE olds = {}
  <2>1. Cardinality(olds) = 0
    BY <1>6, FS_EmptySet
  <2> QED BY <1>2, <1>3, <1>4, <2>1
<1>7. CASE \E o \in pass[w].olds : olds = pass[w].olds \ {o}
  <2>1. PICK o \in pass[w].olds : olds = pass[w].olds \ {o}
    BY <1>7
  <2>2. Cardinality(olds) = Cardinality(pass[w].olds) - 1
    BY <1>3, <2>1, FS_RemoveElement
  <2> QED BY <1>2, <1>3, <1>4, <1>5, <2>2
<1> QED BY <1>6, <1>7

(* The pass registers an offer, alone or with what it is to replace.       *)
LEMMA RegisterIInv ==
  ASSUME IInv, NEW w \in Runners, NEW i \in Indexers, NEW a \in Agreements,
         RegisterPlain(w, i, a) \/ \E o \in Agreements : RegisterPaired(w, i, a, o)
  PROVE  IInv'
<1> USE ReplacementAssumption
<1>1. RestTyped
  BY TypeParts DEF IInv
<1>2. PICK olds \in SUBSET Agreements :
        /\ pass[w].at = "adding" /\ i \in pass[w].add /\ Insert(w, i, a)
        /\ pass' = [pass EXCEPT ![w] = [pass[w] EXCEPT !.add = @ \ {i},
                                                       !.olds = olds]]
        /\ \/ pass[w].olds = {} /\ olds = {}
           \/ \E o \in pass[w].olds : olds = pass[w].olds \ {o}
  <2>1. pass[w] \in Passes
    BY <1>1 DEF RestTyped
  <2>2. CASE RegisterPlain(w, i, a)
    <3>1. [pass[w] EXCEPT !.add = @ \ {i}] =
            [pass[w] EXCEPT !.add = @ \ {i}, !.olds = {}]
      BY <2>1, <2>2 DEF RegisterPlain, Passes
    <3> QED BY <2>2, <3>1 DEF RegisterPlain, Plan
  <2>3. CASE \E o \in Agreements : RegisterPaired(w, i, a, o)
    <3>1. PICK o \in Agreements : RegisterPaired(w, i, a, o)
      BY <2>3
    <3>2. pass[w].olds \ {o} \in SUBSET Agreements
      BY <2>1 DEF Passes
    <3> QED BY <3>1, <3>2 DEF RegisterPaired, Plan
  <2> QED BY <2>2, <2>3
<1>3. /\ lock = w /\ pass[w].request \in Requests /\ pass[w] \in Passes
  BY <1>2, RunningPass
<1>4. /\ lock' = w /\ UNCHANGED <<request, queued, serviceVars, faults>>
      /\ pending' = pending \/ \E o \in Agreements : pending' = pending \cup {<<a, o>>}
  BY <1>3 DEF RegisterPlain, RegisterPaired
<1> DEFINE q == [pass[w] EXCEPT !.add = @ \ {i}, !.olds = olds]
<1>5. /\ q \in Passes /\ q.at = "adding" /\ q.request = pass[w].request
      /\ q.add = pass[w].add \ {i} /\ q.olds = olds /\ q.spare = pass[w].spare
  BY <1>2, <1>3 DEF Passes
<1>6. pass' = [pass EXCEPT ![w] = q]
  BY <1>2
<1> HIDE DEF q
<1>7. pass'[w] = q /\ \A v \in Runners \ {w} : pass'[v] = pass[v]
  BY <1>1, <1>6 DEF RestTyped
<1>8. TypeOK' /\ WindowRespected' /\ OneOfferPerIndexer'
  <2>1. RestTyped'
    BY <1>1, <1>3, <1>4, <1>5, <1>6 DEF RestTyped, serviceVars
  <2> QED BY <1>2, <2>1, InsertFits, TypeParts
<1>9. (KnowsItsOwn(w) /\ KnowsTheRest(w) /\ HasRoom(w))'
  <2>1. /\ q.add # {} =>
             Cardinality(Created') + Cardinality(q.add) <= GlobalCap
        /\ \A j \in q.add : Cardinality(CreatedAt(j)') < PerIndexerCap
        /\ \A j \in q.add : \A b \in Created' : owner'[b] # <<q.request, j>>
    BY <1>2, <1>5, InsertFits
  <2>2. HasRoom(w)'
    BY <1>5, <1>7, <2>1 DEF HasRoom
  <2> QED BY <1>5, <1>7, <2>2 DEF KnowsItsOwn, KnowsTheRest
<1>10. Cardinality(q.olds) <= Cardinality(q.add) + q.spare
  BY <1>2, <1>3, <1>5, OldsStillCovered
<1> QED BY <1>3, <1>4, <1>5, <1>7, <1>8, <1>9, <1>10, OnePassIInv

(* An offer can't be registered, or an old agreement leaves unpaired.      *)
LEMMA PlanShrinksIInv ==
  ASSUME IInv, NEW w \in Runners,
         \/ \E i \in Indexers : \E olds \in SUBSET Agreements :
              RegisterFails(w, i, olds)
         \/ \E o \in Agreements : CancelUnpaired(w, o) \/ CancelUnpairedFails(w, o)
  PROVE  IInv'
<1> USE ReplacementAssumption
<1>1. RowsTyped /\ RestTyped
  BY TypeParts DEF IInv
<1>2. /\ pass[w].at = "adding"
      /\ UNCHANGED <<request, pending, queued, lock, serviceVars>>
      /\ faults' \in 0 .. MaxFaults
  <2>1. /\ pass[w].at = "adding"
        /\ UNCHANGED <<request, pending, queued, lock, serviceVars>>
        /\ faults' = faults \/ Fault
    BY DEF RegisterFails, CancelUnpaired, CancelUnpairedFails
  <2>2. faults' \in 0 .. MaxFaults
    BY <1>1, <2>1 DEF RestTyped, Fault
  <2> QED BY <2>1, <2>2
<1>3. /\ lock = w /\ pass[w].request \in Requests /\ pass[w] \in Passes
      /\ HasRoom(w)
  BY <1>2, RunningPass
<1>4. RowsTyped' /\ NoNewOffer
  <2>1. CASE \E o \in Agreements : MarkedCancelling(o)
    BY <1>1, <2>1, CancelMakesNoOffer
  <2>2. CASE UNCHANGED rowVars
    BY <1>1, <2>2, StayMakesNoOffer
  <2> QED BY <2>1, <2>2 DEF RegisterFails, CancelUnpaired, CancelUnpairedFails
<1>5. PICK add \in SUBSET Indexers, olds \in SUBSET Agreements :
        /\ pass' = [pass EXCEPT ![w] = [pass[w] EXCEPT !.add = add,
                                                       !.olds = olds]]
        /\ add \subseteq pass[w].add
        /\ Cardinality(olds) <= Cardinality(add) + pass[w].spare
  <2>1. CASE \E i \in Indexers : \E olds \in SUBSET Agreements :
               RegisterFails(w, i, olds)
    <3>1. PICK i \in Indexers, olds \in SUBSET Agreements :
            RegisterFails(w, i, olds)
      BY <2>1
    <3>2. i \in pass[w].add /\ pass[w].add \ {i} \in SUBSET Indexers
      BY <1>3, <3>1 DEF RegisterFails, Passes
    <3>3. Cardinality(olds) <= Cardinality(pass[w].add \ {i}) + pass[w].spare
      BY <3>1, <3>2, <1>2, OldsStillCovered DEF RegisterFails
    <3> QED BY <3>1, <3>2, <3>3 DEF RegisterFails, Plan
  <2>2. CASE \E o \in Agreements : CancelUnpaired(w, o) \/ CancelUnpairedFails(w, o)
    <3>1. PICK o \in Agreements : CancelUnpaired(w, o) \/ CancelUnpairedFails(w, o)
      BY <2>2
    <3>2. /\ pass[w].add \in SUBSET Indexers /\ pass[w].olds \in SUBSET Agreements
          /\ pass[w].spare \in Nat
      BY <1>3 DEF Passes
    <3> DEFINE olds == pass[w].olds \ {o}
    <3>3. [pass[w] EXCEPT !.olds = @ \ {o}] =
            [pass[w] EXCEPT !.add = pass[w].add, !.olds = olds]
      BY <1>3 DEF Passes
    <3>4. Cardinality(olds) <= Cardinality(pass[w].add) + pass[w].spare
      <4>1. Cardinality(pass[w].olds) <= Cardinality(pass[w].add) + pass[w].spare
        BY <1>2 DEF IInv, KeepsEnough
      <4>2. /\ Cardinality(pass[w].add) \in Nat
            /\ Cardinality(pass[w].olds) \in Nat
            /\ Cardinality(olds) \in Nat
            /\ Cardinality(olds) <= Cardinality(pass[w].olds)
        BY <3>2, Finite, Fewer
      <4> QED BY <3>2, <4>1, <4>2
    <3>5. pass' = [pass EXCEPT ![w] = [pass[w] EXCEPT !.olds = @ \ {o}]]
      BY <3>1 DEF CancelUnpaired, CancelUnpairedFails, Plan
    <3>6. olds \in SUBSET Agreements
      BY <3>2
    <3> QED BY <3>2, <3>3, <3>4, <3>5, <3>6
  <2> QED BY <2>1, <2>2
<1> DEFINE q == [pass[w] EXCEPT !.add = add, !.olds = olds]
<1>6. /\ q \in Passes /\ q.at = "adding" /\ q.request = pass[w].request
      /\ q.add = add /\ q.olds = olds /\ q.spare = pass[w].spare
  BY <1>2, <1>3 DEF Passes
<1>7. pass' = [pass EXCEPT ![w] = q]
  BY <1>5
<1> HIDE DEF q
<1>8. pass'[w] = q /\ \A v \in Runners \ {w} : pass'[v] = pass[v]
  BY <1>1, <1>7 DEF RestTyped
<1>9. TypeOK'
  <2>1. RestTyped'
    BY <1>1, <1>2, <1>6, <1>7 DEF RestTyped, serviceVars
  <2> QED BY <1>4, <2>1, TypeParts
<1>10. /\ WindowRespected' /\ OneOfferPerIndexer'
       /\ Cardinality(Created') \in Nat /\ Cardinality(Created) \in Nat
       /\ Cardinality(Created') <= Cardinality(Created)
       /\ \A j \in Indexers :
            /\ Cardinality(CreatedAt(j)') \in Nat
            /\ Cardinality(CreatedAt(j)) \in Nat
            /\ Cardinality(CreatedAt(j)') <= Cardinality(CreatedAt(j))
  BY <1>4, FewerOffers DEF IInv
<1>11. (KnowsItsOwn(w) /\ KnowsTheRest(w) /\ HasRoom(w))'
  <2>1. add # {} => Cardinality(Created') + Cardinality(add) <= GlobalCap
    <3> SUFFICES ASSUME add # {}
                 PROVE  Cardinality(Created') + Cardinality(add) <= GlobalCap
      OBVIOUS
    <3>1. IsFiniteSet(pass[w].add) /\ Cardinality(pass[w].add) \in Nat
      BY <1>3, Finite DEF Passes
    <3>2. Cardinality(add) <= Cardinality(pass[w].add) /\ Cardinality(add) \in Nat
      BY <1>5, <3>1, Finite, FS_Subset
    <3>3. Cardinality(Created) + Cardinality(pass[w].add) <= GlobalCap
      BY <1>2, <1>3, <1>5 DEF HasRoom
    <3> QED BY <1>10, <3>1, <3>2, <3>3
  <2>2. \A j \in add : Cardinality(CreatedAt(j)') < PerIndexerCap
    <3> TAKE j \in add
    <3>1. Cardinality(CreatedAt(j)) < PerIndexerCap /\ j \in Indexers
      BY <1>2, <1>3, <1>5 DEF HasRoom
    <3> QED BY <1>10, <3>1
  <2>3. \A j \in add : \A b \in Created' : owner'[b] # <<q.request, j>>
    BY <1>2, <1>3, <1>4, <1>5, <1>6 DEF HasRoom, NoNewOffer
  <2>4. HasRoom(w)'
    BY <1>6, <1>8, <2>1, <2>2, <2>3 DEF HasRoom
  <2> QED BY <1>6, <1>8, <2>4 DEF KnowsItsOwn, KnowsTheRest
<1>12. lock' = w
  BY <1>2, <1>3
<1> QED BY <1>3, <1>5, <1>6, <1>8, <1>9, <1>10, <1>11, <1>12, OnePassIInv

-----------------------------------------------------------------------------
(* Every step preserves the invariant.                                     *)
LEMMA NextIInv == IInv /\ [Next]_vars => IInv'
<1> SUFFICES ASSUME IInv, [Next]_vars PROVE IInv'
  OBVIOUS
<1>1. ASSUME NEW r \in Requests, NEW n \in Targets,
             SetTarget(KeyOf[r], r, n) \/ SetTargetUnqueued(KeyOf[r], r, n)
      PROVE  IInv'
  BY <1>1, RequestsIInv
<1>2. ASSUME NEW r \in Requests, Reassign(r) PROVE IInv'
  BY <1>2, RequestsIInv
<1>3. ASSUME NEW w \in Runners, NEW r \in Requests, Start(w, r) PROVE IInv'
  BY <1>3, StartIInv
<1>4. ASSUME NEW w \in Runners, PassStep(w) PROVE IInv'
  <2>1. CASE Selection(w)
    BY <2>1, SelectIInv DEF Selection
  <2>2. CASE Addition(w)
    BY <2>2, RegisterIInv DEF Addition
  <2> QED BY <1>4, <2>1, <2>2, CountIInv, PassEndsIInv, PlanShrinksIInv
         DEF PassStep
<1>5. ASSUME NEW w \in Runners, PassFault(w) PROVE IInv'
  BY <1>5, PlanShrinksIInv, PassEndsIInv DEF PassFault
<1>6. ASSUME NEW c \in chores, DoChore(c) \/ ChoreFails(c) PROVE IInv'
  BY <1>6, ChoresIInv
<1>7. CASE FanOutStep
  BY <1>7, FanOutIInv DEF FanOutStep
<1>8. ASSUME NEW o \in Agreements, NEW rest \in SUBSET Agreements,
             ExecutePendingFails(o, rest)
      PROVE  IInv'
  BY <1>8, FanOutIInv
<1>9. ASSUME NEW a \in Agreements, AgreementStep(a) PROVE IInv'
  BY <1>9, AgreementIInv
<1>10. CASE Crash
  BY <1>10, CrashIInv
<1>11. CASE UNCHANGED vars
  <2>1. TypeOK' /\ NoNewOffer /\ pass' = pass /\ lock' = lock
    BY <1>11 DEF vars, IInv, TypeOK, NoNewOffer, Created
  <2> QED BY <2>1, CalmIInv
<1> QED BY <1>1, <1>2, <1>3, <1>4, <1>5, <1>6, <1>7, <1>8, <1>9, <1>10, <1>11
       DEF Next

(* The inductive invariant is an invariant of the specification.           *)
THEOREM ReplacementInvariant == Spec => []IInv
  BY InitIInv, NextIInv, PTL DEF Spec

(* The rows, the pending cancellations and the passes keep their types,    *)
(* and a row has its request and indexer as long as it is one.             *)
THEOREM ReplacementTypes == Spec => []TypeOK
  BY ReplacementInvariant, PTL DEF IInv

(* The in-flight window holds for any number of requests and worker loops, *)
(* although a pass counts the offers once and registers its own one at a   *)
(* time while every service moves rows.                                    *)
THEOREM ReplacementWindow == Spec => []WindowRespected
  BY ReplacementInvariant, PTL DEF IInv

(* A request never has two offers out to one indexer.                      *)
THEOREM ReplacementOneOffer == Spec => []OneOfferPerIndexer
  BY ReplacementInvariant, PTL DEF IInv

(* A pass takes out no more agreements than its offers replace and the     *)
(* target group can spare.                                                 *)
THEOREM ReplacementKeepsEnough == Spec => []KeepsEnough
  BY ReplacementInvariant, PTL DEF IInv

=============================================================================
