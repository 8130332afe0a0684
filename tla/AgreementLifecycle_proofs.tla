---------------------- MODULE AgreementLifecycle_proofs ----------------------
(***************************************************************************)
(* Proofs about AgreementLifecycle, for any set of offer jobs, any reasons *)
(* to cancel, any announced topics, and any number of faults of any kind.  *)
(*                                                                         *)
(* The argument. The chain never leaves an end, and nothing is accepted    *)
(* past its deadline: an agreement that is Over stays over. Every write    *)
(* that ends the row is made by a task that has seen it over, or, for an   *)
(* offer withdrawn before its deadline, before any accept is on record;    *)
(* and every accept on record was read from the subgraph, which trails the *)
(* chain. The invariant says, task by task, what each one knows at each    *)
(* place between two awaits.                                               *)
(***************************************************************************)
EXTENDS AgreementLifecycle, TLAPS

-----------------------------------------------------------------------------
(* What the registry's UPDATE statements that write several columns do to  *)
(* a row, for any row.                                                     *)

(* The marks the invariant speaks of.                                      *)
Lasting == {"accepted", "abandoned", "replacing", "endedSeen"}

WroteEnd(r, e, m)    == [r EXCEPT !.endEra = e, !.marks = m]
WroteStatus(r, v, m) == [r EXCEPT !.status = v, !.marks = m]

(* The marks and the era of a row written together: the record is again a  *)
(* row, and its status is kept.                                            *)
LEMMA WriteEnd ==
  ASSUME NEW r \in Rows, NEW e \in 0 .. 2, NEW m \in SUBSET Marks
  PROVE  /\ WroteEnd(r, e, m) \in Rows
         /\ WroteEnd(r, e, m).status = r.status
         /\ WroteEnd(r, e, m).marks = m
<1> DEFINE s == [r EXCEPT !.endEra = e]
<1>1. s \in Rows /\ s.status = r.status /\ s.marks = r.marks
  BY DEF Rows
<1>2. WroteEnd(r, e, m) = [s EXCEPT !.marks = m]
  BY DEF Rows, WroteEnd
<1> HIDE DEF s
<1>3. /\ [s EXCEPT !.marks = m] \in Rows
      /\ [s EXCEPT !.marks = m].status = s.status
      /\ [s EXCEPT !.marks = m].marks = m
  BY <1>1 DEF Rows
<1> QED BY <1>1, <1>2, <1>3

(* The same for its status and marks.                                      *)
LEMMA WriteStatus ==
  ASSUME NEW r \in Rows, NEW v \in Statuses, NEW m \in SUBSET Marks
  PROVE  /\ WroteStatus(r, v, m) \in Rows
         /\ WroteStatus(r, v, m).status = v
         /\ WroteStatus(r, v, m).marks = m
<1> DEFINE s == [r EXCEPT !.status = v]
<1>1. s \in Rows /\ s.status = v /\ s.marks = r.marks
  BY DEF Rows
<1>2. WroteStatus(r, v, m) = [s EXCEPT !.marks = m]
  BY DEF Rows, WroteStatus
<1> HIDE DEF s
<1>3. /\ [s EXCEPT !.marks = m] \in Rows
      /\ [s EXCEPT !.marks = m].status = s.status
      /\ [s EXCEPT !.marks = m].marks = m
  BY <1>1 DEF Rows
<1> QED BY <1>1, <1>2, <1>3

(* mark_indexing_agreement_as_abandoning, on a row it applies to.          *)
LEMMA MarkAbandoningRow ==
  ASSUME NEW r \in Rows, r.status \in AbandoningFrom
  PROVE  /\ MarkAbandoning(r) \in Rows
         /\ MarkAbandoning(r).status = "Cancelling"
         /\ MarkAbandoning(r).marks = r.marks \cup {"abandoned", "replacing"}
<1>1. PICK m \in SUBSET Marks : m = r.marks \cup {"abandoned", "replacing"}
  BY DEF Rows, Marks
<1>2. MarkAbandoning(r) = WroteStatus(r, "Cancelling", m)
  BY <1>1 DEF WroteStatus, MarkAbandoning, Rows
<1>3. "Cancelling" \in Statuses
  BY DEF Statuses
<1> QED BY <1>1, <1>2, <1>3, WriteStatus

(* record_cancel_audit keeps the status and the lasting marks.             *)
LEMMA RecordCancelRow ==
  ASSUME NEW r \in Rows, NEW era \in {1, 2}, NEW tx \in SUBSET {"endTx"}
  PROVE  /\ RecordCancel(r, era, tx) \in Rows
         /\ RecordCancel(r, era, tx).status = r.status
         /\ RecordCancel(r, era, tx).marks \cap Lasting = r.marks \cap Lasting
<1>1. CASE ReplacesEnd(r, era, tx)
  <2>1. PICK m \in SUBSET Marks :
          m = (r.marks \ {"endTx", "terminatedSent"}) \cup tx
    BY DEF Rows, Marks
  <2>2. RecordCancel(r, era, tx) = WroteEnd(r, era, m)
    BY <1>1, <2>1 DEF WroteEnd, RecordCancel, Rows
  <2>3. era \in 0 .. 2
    OBVIOUS
  <2>4. m \cap Lasting = r.marks \cap Lasting
    BY <2>1 DEF Lasting, Rows
  <2> QED BY <2>2, <2>3, <2>4, WriteEnd
<1>2. CASE ~ReplacesEnd(r, era, tx)
  <2>1. PICK m \in SUBSET Marks : m = r.marks \cup tx
    BY DEF Rows, Marks
  <2>2. PICK e \in 0 .. 2 : e = IF r.endEra = 0 THEN era ELSE r.endEra
    BY DEF Rows
  <2>3. RecordCancel(r, era, tx) = WroteEnd(r, e, m)
    BY <1>2, <2>1, <2>2 DEF WroteEnd, RecordCancel, Rows
  <2>4. m \cap Lasting = r.marks \cap Lasting
    BY <2>1 DEF Lasting, Rows
  <2> QED BY <2>3, <2>4, WriteEnd
<1> QED BY <1>1, <1>2

(* record_accept_and_cancel_audit adds the accept.                         *)
LEMMA RecordAcceptAndCancelRow ==
  ASSUME NEW r \in Rows, NEW era \in {1, 2}
  PROVE  /\ RecordAcceptAndCancel(r, era) \in Rows
         /\ RecordAcceptAndCancel(r, era).status = r.status
         /\ RecordAcceptAndCancel(r, era).marks \cap Lasting
              = (r.marks \cup {"accepted"}) \cap Lasting
<1>1. /\ RecordAccepted(r) \in Rows
      /\ RecordAccepted(r).status = r.status
      /\ RecordAccepted(r).marks = r.marks \cup {"accepted"}
  BY DEF RecordAccepted, Rows, Marks
<1>2. {"endTx"} \in SUBSET {"endTx"}
  OBVIOUS
<1> HIDE DEF RecordAccepted
<1> QED BY <1>1, <1>2, RecordCancelRow DEF RecordAcceptAndCancel

(* reopen_indexing_agreement_cancel, on a row it applies to.               *)
LEMMA ReopenRow ==
  ASSUME NEW r \in Rows, r.status \in ReopenFrom, NEW seenLive \in BOOLEAN
  PROVE  /\ Reopen(r, seenLive) \in Rows
         /\ Reopen(r, seenLive).status = "Cancelling"
         /\ Reopen(r, seenLive).marks \cap Lasting
              = (r.marks \ {"endedSeen"}) \cap Lasting
<1>0. "Cancelling" \in Statuses
  BY DEF Statuses
<1>1. CASE seenLive
  <2>1. PICK m \in SUBSET Marks :
          m = r.marks \ {"endedSeen", "endTx", "terminatedSent"}
    BY DEF Rows
  <2>2. PICK s \in Rows : s = [r EXCEPT !.status = "Cancelling"]
    BY <1>0 DEF Rows
  <2>3. Reopen(r, seenLive) = WroteEnd(s, 0, m)
    BY <1>1, <2>1, <2>2 DEF WroteEnd, Reopen, Rows
  <2>4. s.status = "Cancelling"
    BY <2>2 DEF Rows
  <2>5. m \cap Lasting = (r.marks \ {"endedSeen"}) \cap Lasting
    BY <2>1 DEF Lasting, Rows
  <2>6. 0 \in 0 .. 2
    OBVIOUS
  <2> QED BY <2>3, <2>4, <2>5, <2>6, WriteEnd
<1>2. CASE ~seenLive
  <2>1. PICK m \in SUBSET Marks : m = r.marks \ {"endedSeen"}
    BY DEF Rows
  <2>2. Reopen(r, seenLive) = WroteStatus(r, "Cancelling", m)
    BY <1>2, <2>1 DEF WroteStatus, Reopen, Rows
  <2> QED BY <1>0, <2>1, <2>2, WriteStatus
<1> QED BY <1>1, <1>2

(* The cancel of apply_reconciliation moves the status only.               *)
LEMMA ApplyCancelRow ==
  ASSUME NEW r \in Rows, NEW kind \in {"ByRequester", "ByIndexer", "none"}
  PROVE  /\ ApplyCancel(r, kind) \in Rows
         /\ ApplyCancel(r, kind).marks = r.marks
         /\ \/ ApplyCancel(r, kind).status = r.status
            \/ /\ kind = "ByRequester" /\ r.status \in CancelByRequesterFrom
               /\ ApplyCancel(r, kind).status =
                    IF "abandoned" \in r.marks THEN "AbandonedByIndexer"
                                               ELSE "CanceledByRequester"
            \/ /\ kind = "ByIndexer" /\ r.status \in CancelByIndexerFrom
               /\ ApplyCancel(r, kind).status = "CanceledByIndexer"
<1>1. CASE kind = "ByRequester"
  BY <1>1 DEF ApplyCancel, SetStatusFrom, Rows, Statuses
<1>2. CASE kind = "ByIndexer"
  BY <1>2 DEF ApplyCancel, SetStatusFrom, Rows, Statuses
<1>3. CASE kind = "none"
  BY <1>3 DEF ApplyCancel
<1> QED BY <1>1, <1>2, <1>3

(* The two halves of apply_reconciliation: the accept,                     *)
AcceptedRow(r) == RecordAccepted([r EXCEPT !.status = "AcceptedOnChain"])

(* and the cancel with what the chain says of it.                          *)
CanceledRow(a, kind, era) ==
  LET e == ApplyCancel(a, kind)
  IN IF e.status # a.status
       THEN WroteEnd(e, era, e.marks \cup {"endTx"}) ELSE e

(* The accept half of a reconciliation changes the status and records the  *)
(* accept, and nothing else.                                               *)
LEMMA AcceptedRowFields ==
  ASSUME NEW r \in Rows
  PROVE  /\ AcceptedRow(r) \in Rows
         /\ AcceptedRow(r).status = "AcceptedOnChain"
         /\ AcceptedRow(r).marks = r.marks \cup {"accepted"}
<1>1. PICK s \in Rows : s = [r EXCEPT !.status = "AcceptedOnChain"]
  BY DEF Rows, Statuses
<1>2. s.status = "AcceptedOnChain" /\ s.marks = r.marks
  BY <1>1 DEF Rows
<1>3. PICK m \in SUBSET Marks : m = r.marks \cup {"accepted"}
  BY DEF Rows, Marks
<1>4. /\ RecordAccepted(s) \in Rows
      /\ RecordAccepted(s).status = s.status
      /\ RecordAccepted(s).marks = m
  BY <1>2, <1>3 DEF RecordAccepted, Rows
<1> QED BY <1>1, <1>2, <1>3, <1>4 DEF AcceptedRow

(* The cancel half moves the status as apply_cancel does, and of the       *)
(* columns that last (see Lasting) it changes none.                        *)
LEMMA CanceledRowFields ==
  ASSUME NEW a \in Rows, NEW era \in {1, 2},
         NEW kind \in {"ByRequester", "ByIndexer", "none"}
  PROVE  /\ CanceledRow(a, kind, era) \in Rows
         /\ CanceledRow(a, kind, era).status = ApplyCancel(a, kind).status
         /\ CanceledRow(a, kind, era).marks \cap Lasting = a.marks \cap Lasting
<1> DEFINE e == ApplyCancel(a, kind)
<1>1. e \in Rows /\ e.marks = a.marks
  BY ApplyCancelRow
<1> HIDE DEF e
<1>2. PICK m \in SUBSET Marks : m = e.marks \cup {"endTx"}
  BY <1>1 DEF Rows, Marks
<1>3. era \in 0 .. 2
  OBVIOUS
<1>4. m \cap Lasting = a.marks \cap Lasting
  BY <1>1, <1>2 DEF Lasting, Rows
<1>5. CanceledRow(a, kind, era) = WroteEnd(e, era, m)
        \/ CanceledRow(a, kind, era) = e
  BY <1>2 DEF CanceledRow, e
<1>6. /\ CanceledRow(a, kind, era) \in Rows
      /\ CanceledRow(a, kind, era).status = e.status
      /\ CanceledRow(a, kind, era).marks \cap Lasting = a.marks \cap Lasting
  BY <1>1, <1>2, <1>3, <1>4, <1>5, WriteEnd
<1> QED BY <1>6 DEF e

-----------------------------------------------------------------------------
(* What each task knows.                                                   *)

Finished(c) == c \in {"endedByPayer", "endedByIndexer"}

Over == Finished(chain) \/ (chain # "accepted" /\ now = "past")

(* A row a cancel was started on, or ended.                                *)
Doomed == EndedStatuses \cup {"Cancelling"}

(* What the subgraph shows did happen.                                     *)
SubgraphTrails ==
  /\ ReachedAccepted(indexed.state) => ReachedAccepted(chain)
  /\ Finished(indexed.state) => chain = indexed.state

(* Every trace of an accept comes from the subgraph.                       *)
AcceptWasSeen ==
  \/ ReachedAccepted(indexed.state)
  \/ /\ pc["check"] = "absent"
     /\ row.status # "AcceptedOnChain"
     /\ {"accepted", "abandoned"} \cap row.marks = {}
     /\ starting.accepted = "no"
     /\ {"accepted", "abandoned"} \cap listed.marks = {}

StarterKnows ==
  /\ starting.reason = "Abandoned" => starting.accepted = "yes"
  /\ pc["starter"] \in {"recording", "ending"} => chain = "endedByPayer"
  /\ pc["starter"] \in {"noting", "replacing"} => Finished(chain)

RetryKnows ==
  /\ pc["retry"] # "idle" => row.status \in Doomed
  /\ listed.now = "past" => now = "past"
  /\ pc["retry"] \notin {"idle", "replacing"} /\ "abandoned" \in row.marks
       => "abandoned" \in listed.marks
  /\ pc["retry"] \in {"NotLive", "Ended", "recording", "ending"}
       /\ {"accepted", "abandoned"} \cap listed.marks # {}
       => chain = "endedByPayer"
  /\ pc["retry"] \in {"NotLive", "Ended"} /\ listed.now = "past" => Over
  /\ pc["retry"] \in {"recording", "ending"} => Over
  /\ pc["retry"] \in {"ByIndexer", "recordingIndexer", "endingByIndexer"}
       => chain = "endedByIndexer"

(* The subgraph stands still during a drain.                               *)
ListenerKnows ==
  pc["listener"] = "preparing" => ReachedAccepted(indexed.state)

(* A row that is ended, with an accept on record or about to be, is over.  *)
EndIsKnown ==
  /\ row.status \in EndedStatuses
  /\ \/ "accepted" \in row.marks
     \/ pc["check"] = "recordingAccept"
     \/ pc["listener"] = "preparing" /\ saw = "Cancelling"
  => Over

AbandonIsTracked ==
  /\ {"abandoned", "endedSeen"} \cap row.marks # {} => row.status \in Doomed
  /\ "abandoned" \in row.marks => HoldsSlot(row) \/ Finished(chain)

Knowledge ==
  /\ SubgraphTrails
  /\ AcceptWasSeen
  /\ StarterKnows
  /\ RetryKnows
  /\ ListenerKnows
  /\ EndIsKnown
  /\ AbandonIsTracked
  /\ BlameIsTrue
  /\ AnnouncementsAreTrue

IInv == TypeOK /\ Knowledge

(* The invariant holds initially.                                          *)
LEMMA InitIInv == Init => IInv
<1> USE LifecycleAssumption
<1> SUFFICES ASSUME Init PROVE IInv
  OBVIOUS
<1>1. TypeOK
  BY DEF Init, TypeOK, ChainStates, Clock, Rows, NewRow, Statuses, Marks,
     Tasks, Cancellers, Pcs, NoStart, NoListed, AllReasons
<1>2. SubgraphTrails /\ AcceptWasSeen /\ StarterKnows /\ RetryKnows
  BY DEF Init, SubgraphTrails, AcceptWasSeen, StarterKnows, RetryKnows,
     ReachedAccepted, Finished, NewRow, NoStart, NoListed, Tasks, Cancellers
<1>3. /\ ListenerKnows /\ EndIsKnown /\ AbandonIsTracked /\ BlameIsTrue
      /\ AnnouncementsAreTrue
  BY DEF Init, ListenerKnows, EndIsKnown, AbandonIsTracked, BlameIsTrue,
     AnnouncementsAreTrue, NewRow, EndedStatuses, Tasks, Cancellers
<1> QED BY <1>1, <1>2, <1>3 DEF IInv, Knowledge

(* The chain, the clock and the subgraph preserve it.                      *)
LEMMA EnvironmentIInv == IInv /\ Environment => IInv'
<1> USE LifecycleAssumption
<1> SUFFICES ASSUME IInv, Environment PROVE IInv'
  OBVIOUS
<1>1. CASE IndexerAccepts
  <2>1. TypeOK'
    BY <1>1 DEF IndexerAccepts, IInv, TypeOK, Tasks, Cancellers, Pcs,
       ChainStates, Clock, taskVars, chainVars
  <2>2. Knowledge'
    BY <1>1 DEF IndexerAccepts, IInv, Knowledge, TypeOK, SubgraphTrails,
       AcceptWasSeen, StarterKnows, RetryKnows, ListenerKnows, EndIsKnown,
       AbandonIsTracked, BlameIsTrue, AnnouncementsAreTrue, ReachedAccepted,
       Finished, Over, Doomed, EndedStatuses, HoldsSlot, Tasks, Cancellers,
       taskVars, chainVars, ChainStates, Clock
  <2> QED BY <2>1, <2>2 DEF IInv
<1>2. CASE IndexerCancels
  <2>1. TypeOK'
    BY <1>2 DEF IndexerCancels, IInv, TypeOK, Tasks, Cancellers, Pcs,
       ChainStates, Clock, taskVars, chainVars
  <2>2. Knowledge'
    BY <1>2 DEF IndexerCancels, IInv, Knowledge, TypeOK, SubgraphTrails,
       AcceptWasSeen, StarterKnows, RetryKnows, ListenerKnows, EndIsKnown,
       AbandonIsTracked, BlameIsTrue, AnnouncementsAreTrue, ReachedAccepted,
       Finished, Over, Doomed, EndedStatuses, HoldsSlot, Tasks, Cancellers,
       taskVars, chainVars, ChainStates, Clock
  <2> QED BY <2>1, <2>2 DEF IInv
<1>3. CASE DeadlinePasses
  <2>1. TypeOK'
    BY <1>3 DEF DeadlinePasses, IInv, TypeOK, Tasks, Cancellers, Pcs,
       ChainStates, Clock, taskVars, chainVars
  <2>2. Knowledge'
    BY <1>3 DEF DeadlinePasses, IInv, Knowledge, TypeOK, SubgraphTrails,
       AcceptWasSeen, StarterKnows, RetryKnows, ListenerKnows, EndIsKnown,
       AbandonIsTracked, BlameIsTrue, AnnouncementsAreTrue, ReachedAccepted,
       Finished, Over, Doomed, EndedStatuses, HoldsSlot, Tasks, Cancellers,
       taskVars, chainVars, ChainStates, Clock
  <2> QED BY <2>1, <2>2 DEF IInv
<1>4. CASE LateOffer
  <2>1. TypeOK'
    BY <1>4 DEF LateOffer, AfterOffer, ReachedAccepted, IInv, TypeOK, Tasks,
       Cancellers, Pcs, ChainStates, Clock, taskVars, chainVars
  <2>2. Knowledge'
    BY <1>4 DEF LateOffer, AfterOffer, ReachedAccepted, IInv, Knowledge,
       TypeOK, SubgraphTrails, AcceptWasSeen, StarterKnows, RetryKnows,
       ListenerKnows, EndIsKnown, AbandonIsTracked, BlameIsTrue,
       AnnouncementsAreTrue, ReachedAccepted, Finished, Over, Doomed,
       EndedStatuses, HoldsSlot, Tasks, Cancellers, taskVars, chainVars,
       ChainStates, Clock
  <2> QED BY <2>1, <2>2 DEF IInv
<1>5. CASE SubgraphSyncs
  <2>1. TypeOK'
    BY <1>5 DEF SubgraphSyncs, IInv, TypeOK, Tasks, Cancellers, Pcs,
       ChainStates, Clock, taskVars, chainVars
  <2>2. Knowledge'
    BY <1>5 DEF SubgraphSyncs, IInv, Knowledge, TypeOK, SubgraphTrails,
       AcceptWasSeen, StarterKnows, RetryKnows, ListenerKnows, EndIsKnown,
       AbandonIsTracked, BlameIsTrue, AnnouncementsAreTrue, ReachedAccepted,
       Finished, Over, Doomed, EndedStatuses, HoldsSlot, Tasks, Cancellers,
       taskVars, chainVars, ChainStates, Clock
  <2> QED BY <2>1, <2>2 DEF IInv
<1> QED BY <1>1, <1>2, <1>3, <1>4, <1>5 DEF Environment

(* The proposal job preserves it.                                          *)
LEMMA ProposalIInv == IInv /\ Proposal => IInv'
<1> USE LifecycleAssumption
<1> SUFFICES ASSUME IInv, Proposal PROVE IInv'
  OBVIOUS
<1>1. CASE ProposalStart
  <2>1. TypeOK'
    BY <1>1 DEF ProposalStart, Goto, JobEnds, Fault, IInv, TypeOK, Tasks,
       Cancellers, Pcs, ChainStates, Clock, taskVars, chainVars
  <2>2. Knowledge'
    BY <1>1 DEF ProposalStart, Goto, JobEnds, Fault, IInv, Knowledge, TypeOK,
       SubgraphTrails, AcceptWasSeen, StarterKnows, RetryKnows,
       ListenerKnows, EndIsKnown, AbandonIsTracked, BlameIsTrue,
       AnnouncementsAreTrue, ReachedAccepted, Finished, Over, Doomed,
       EndedStatuses, HoldsSlot, Tasks, Cancellers, taskVars, chainVars
  <2> QED BY <2>1, <2>2 DEF IInv
<1>2. CASE \E o \in OfferJobs : ProposalAccepted(o)
  <2>1. TypeOK'
    BY <1>2 DEF ProposalAccepted, Goto, JobEnds, Fault, IInv, TypeOK, Tasks,
       Cancellers, Pcs, ChainStates, Clock, taskVars, chainVars
  <2>2. Knowledge'
    BY <1>2 DEF ProposalAccepted, Goto, JobEnds, Fault, IInv, Knowledge,
       TypeOK, SubgraphTrails, AcceptWasSeen, StarterKnows, RetryKnows,
       ListenerKnows, EndIsKnown, AbandonIsTracked, BlameIsTrue,
       AnnouncementsAreTrue, ReachedAccepted, Finished, Over, Doomed,
       EndedStatuses, HoldsSlot, Tasks, Cancellers, taskVars, chainVars
  <2> QED BY <2>1, <2>2 DEF IInv
<1>3. CASE ProposalDeclined
  <2>1. TypeOK'
    BY <1>3 DEF ProposalDeclined, Goto, JobEnds, Fault, SetStatusFrom,
       MarkRejected, MarkUnresponsive, Rows, Statuses, Marks, IInv, TypeOK,
       Tasks, Cancellers, Pcs, ChainStates, Clock, taskVars, chainVars
  <2>2. Knowledge'
    BY <1>3 DEF ProposalDeclined, Goto, JobEnds, Fault, SetStatusFrom,
       MarkRejected, MarkUnresponsive, Rows, Statuses, Marks, IInv,
       Knowledge, TypeOK, SubgraphTrails, AcceptWasSeen, StarterKnows,
       RetryKnows, ListenerKnows, EndIsKnown, AbandonIsTracked, BlameIsTrue,
       AnnouncementsAreTrue, ReachedAccepted, Finished, Over, Doomed,
       EndedStatuses, HoldsSlot, Tasks, Cancellers, taskVars, chainVars
  <2> QED BY <2>1, <2>2 DEF IInv
<1>4. CASE ProposalDies
  <2>1. TypeOK'
    BY <1>4 DEF ProposalDies, Goto, JobEnds, Fault, IInv, TypeOK, Tasks,
       Cancellers, Pcs, ChainStates, Clock, taskVars, chainVars
  <2>2. Knowledge'
    BY <1>4 DEF ProposalDies, Goto, JobEnds, Fault, IInv, Knowledge, TypeOK,
       SubgraphTrails, AcceptWasSeen, StarterKnows, RetryKnows,
       ListenerKnows, EndIsKnown, AbandonIsTracked, BlameIsTrue,
       AnnouncementsAreTrue, ReachedAccepted, Finished, Over, Doomed,
       EndedStatuses, HoldsSlot, Tasks, Cancellers, taskVars, chainVars
  <2> QED BY <2>1, <2>2 DEF IInv
<1> QED BY <1>1, <1>2, <1>3, <1>4 DEF Proposal

(* The offer jobs preserve it.                                             *)
LEMMA OfferIInv ==
  ASSUME IInv, NEW o \in OfferJobs, Offer(o)
  PROVE  IInv'
<1> USE LifecycleAssumption
<1>1. CASE OfferStart(o)
  <2>1. TypeOK'
    BY <1>1 DEF OfferStart, DipperCancelled, Goto, JobEnds, Fault, IInv,
       TypeOK, Tasks, Cancellers, Pcs, ChainStates, Clock, taskVars,
       chainVars
  <2>2. Knowledge'
    BY <1>1 DEF OfferStart, DipperCancelled, Goto, JobEnds, Fault, IInv,
       Knowledge, TypeOK, SubgraphTrails, AcceptWasSeen, StarterKnows,
       RetryKnows, ListenerKnows, EndIsKnown, AbandonIsTracked, BlameIsTrue,
       AnnouncementsAreTrue, ReachedAccepted, Finished, Over, Doomed,
       EndedStatuses, HoldsSlot, Tasks, Cancellers, taskVars, chainVars
  <2> QED BY <2>1, <2>2 DEF IInv
<1>2. CASE OfferSends(o)
  <2>1. TypeOK'
    BY <1>2 DEF OfferSends, AfterOffer, ReachedAccepted, JobRetries, Goto,
       JobEnds, Fault, IInv, TypeOK, Tasks, Cancellers, Pcs, ChainStates,
       Clock, taskVars, chainVars
  <2>2. Knowledge'
    BY <1>2 DEF OfferSends, AfterOffer, JobRetries, Goto, JobEnds, Fault,
       IInv, Knowledge, TypeOK, SubgraphTrails, AcceptWasSeen, StarterKnows,
       RetryKnows, ListenerKnows, EndIsKnown, AbandonIsTracked, BlameIsTrue,
       AnnouncementsAreTrue, ReachedAccepted, Finished, Over, Doomed,
       EndedStatuses, HoldsSlot, Tasks, Cancellers, taskVars, chainVars,
       ChainStates, Clock
  <2> QED BY <2>1, <2>2 DEF IInv
<1>3. CASE OfferRereads(o)
  <2>1. TypeOK'
    BY <1>3 DEF OfferRereads, DipperCancelled, Goto, JobEnds, Fault, IInv,
       TypeOK, Tasks, Cancellers, Pcs, ChainStates, Clock, taskVars,
       chainVars
  <2>2. Knowledge'
    BY <1>3 DEF OfferRereads, DipperCancelled, Goto, JobEnds, Fault, IInv,
       Knowledge, TypeOK, SubgraphTrails, AcceptWasSeen, StarterKnows,
       RetryKnows, ListenerKnows, EndIsKnown, AbandonIsTracked, BlameIsTrue,
       AnnouncementsAreTrue, ReachedAccepted, Finished, Over, Doomed,
       EndedStatuses, HoldsSlot, Tasks, Cancellers, taskVars, chainVars
  <2> QED BY <2>1, <2>2 DEF IInv
<1> QED BY <1>1, <1>2, <1>3 DEF Offer

(* cancel_if_live preserves it, whichever task runs it.                    *)
LEMMA CancelIfLiveIInv ==
  ASSUME IInv, NEW t \in Cancellers, CancelIfLive(t)
  PROVE  IInv'
<1> USE LifecycleAssumption
<1>1. CASE CancelReads(t)
  <2>1. TypeOK'
    BY <1>1 DEF CancelReads, Returns, OfferReturns, StarterReturns, NotLive,
       KeepStarting, NoStart, Goto, Fault, Outcomes, AllReasons, StillLive,
       EndedBy, AfterCancel, IInv, TypeOK, Tasks, Cancellers, Pcs,
       ChainStates, Clock, taskVars, chainVars
  <2>2. Knowledge'
    BY <1>1 DEF CancelReads, Returns, OfferReturns, StarterReturns, NotLive,
       KeepStarting, NoStart, Goto, Fault, Outcomes, AllReasons, StillLive,
       EndedBy, AfterCancel, IInv, Knowledge, TypeOK, SubgraphTrails,
       AcceptWasSeen, StarterKnows, RetryKnows, ListenerKnows, EndIsKnown,
       AbandonIsTracked, BlameIsTrue, AnnouncementsAreTrue, ReachedAccepted,
       Finished, Over, Doomed, EndedStatuses, HoldsSlot, Tasks, Cancellers,
       taskVars, chainVars, ChainStates, Clock
  <2> QED BY <2>1, <2>2 DEF IInv
<1>2. CASE CancelSends(t)
  <2>1. TypeOK'
    BY <1>2 DEF CancelSends, Returns, OfferReturns, StarterReturns, NotLive,
       KeepStarting, NoStart, Goto, Fault, Outcomes, AllReasons, StillLive,
       EndedBy, AfterCancel, IInv, TypeOK, Tasks, Cancellers, Pcs,
       ChainStates, Clock, taskVars, chainVars
  <2>2. Knowledge'
    BY <1>2 DEF CancelSends, Returns, OfferReturns, StarterReturns, NotLive,
       KeepStarting, NoStart, Goto, Fault, Outcomes, AllReasons, StillLive,
       EndedBy, AfterCancel, IInv, Knowledge, TypeOK, SubgraphTrails,
       AcceptWasSeen, StarterKnows, RetryKnows, ListenerKnows, EndIsKnown,
       AbandonIsTracked, BlameIsTrue, AnnouncementsAreTrue, ReachedAccepted,
       Finished, Over, Doomed, EndedStatuses, HoldsSlot, Tasks, Cancellers,
       taskVars, chainVars, ChainStates, Clock
  <2> QED BY <2>1, <2>2 DEF IInv
<1>3. CASE CancelConfirms(t)
  <2>1. TypeOK'
    BY <1>3 DEF CancelConfirms, Returns, OfferReturns, StarterReturns,
       NotLive, KeepStarting, NoStart, Goto, Fault, Outcomes, AllReasons,
       StillLive, EndedBy, AfterCancel, IInv, TypeOK, Tasks, Cancellers, Pcs,
       ChainStates, Clock, taskVars, chainVars
  <2>2. Knowledge'
    BY <1>3 DEF CancelConfirms, Returns, OfferReturns, StarterReturns,
       NotLive, KeepStarting, NoStart, Goto, Fault, Outcomes, AllReasons,
       StillLive, EndedBy, AfterCancel, IInv, Knowledge, TypeOK,
       SubgraphTrails, AcceptWasSeen, StarterKnows, RetryKnows,
       ListenerKnows, EndIsKnown, AbandonIsTracked, BlameIsTrue,
       AnnouncementsAreTrue, ReachedAccepted, Finished, Over, Doomed,
       EndedStatuses, HoldsSlot, Tasks, Cancellers, taskVars, chainVars,
       ChainStates, Clock
  <2> QED BY <2>1, <2>2 DEF IInv
<1> QED BY <1>1, <1>2, <1>3 DEF CancelIfLive

(* The starter's other steps preserve it.                                  *)
LEMMA StarterIInv == IInv /\ Starter => IInv'
<1> USE LifecycleAssumption
<1> SUFFICES ASSUME IInv, Starter PROVE IInv'
  OBVIOUS
<1>1. CASE StartNotWanted
  <2>1. TypeOK'
    BY <1>1 DEF StartNotWanted, KeepStarting, NoStart, AllReasons, Goto,
       Fault, CancellingFrom, IInv, TypeOK, Tasks, Cancellers, Pcs,
       ChainStates, Clock, taskVars, chainVars
  <2>2. Knowledge'
    BY <1>1 DEF StartNotWanted, KeepStarting, NoStart, AllReasons, Goto,
       Fault, CancellingFrom, IInv, Knowledge, TypeOK, SubgraphTrails,
       AcceptWasSeen, StarterKnows, RetryKnows, ListenerKnows, EndIsKnown,
       AbandonIsTracked, BlameIsTrue, AnnouncementsAreTrue, ReachedAccepted,
       Finished, Over, Doomed, EndedStatuses, HoldsSlot, Tasks, Cancellers,
       taskVars, chainVars
  <2> QED BY <2>1, <2>2 DEF IInv
<1>2. CASE StartAbandoned
  <2>1. TypeOK'
    BY <1>2 DEF StartAbandoned, KeepStarting, NoStart, AllReasons, Goto,
       Fault, IInv, TypeOK, Tasks, Cancellers, Pcs, ChainStates, Clock,
       taskVars, chainVars
  <2>2. Knowledge'
    BY <1>2 DEF StartAbandoned, KeepStarting, NoStart, AllReasons, Goto,
       Fault, IInv, Knowledge, TypeOK, SubgraphTrails, AcceptWasSeen,
       StarterKnows, RetryKnows, ListenerKnows, EndIsKnown, AbandonIsTracked,
       BlameIsTrue, AnnouncementsAreTrue, ReachedAccepted, Finished, Over,
       Doomed, EndedStatuses, HoldsSlot, Tasks, Cancellers, taskVars,
       chainVars
  <2> QED BY <2>1, <2>2 DEF IInv
<1>3. CASE StarterPeeks
  <2>1. TypeOK'
    BY <1>3 DEF StarterPeeks, KeepStarting, NoStart, AllReasons, Goto, Fault,
       StillLive, IInv, TypeOK, Tasks, Cancellers, Pcs, ChainStates, Clock,
       taskVars, chainVars
  <2>2. Knowledge'
    BY <1>3 DEF StarterPeeks, KeepStarting, NoStart, AllReasons, Goto, Fault,
       StillLive, IInv, Knowledge, TypeOK, SubgraphTrails, AcceptWasSeen,
       StarterKnows, RetryKnows, ListenerKnows, EndIsKnown, AbandonIsTracked,
       BlameIsTrue, AnnouncementsAreTrue, ReachedAccepted, Finished, Over,
       Doomed, EndedStatuses, HoldsSlot, Tasks, Cancellers, taskVars,
       chainVars
  <2> QED BY <2>1, <2>2 DEF IInv
<1>4. CASE StarterMarks
  <2>a. row \in Rows
    BY DEF IInv, TypeOK
  <2>b. /\ MarkCancelling(row) \in Rows
        /\ MarkCancelling(row).marks = row.marks
        /\ row.status \in CancellingFrom =>
             MarkCancelling(row).status = "Cancelling"
        /\ row.status \notin CancellingFrom => MarkCancelling(row) = row
    BY <2>a DEF MarkCancelling, SetStatusFrom, Rows, Statuses
  <2>c. row.status \notin AbandoningFrom => MarkAbandoning(row) = row
    BY DEF MarkAbandoning
  <2>0. \/ row' = row
        \/ /\ row' \in Rows /\ row'.status = "Cancelling"
           /\ row.status \in CancellingFrom
           /\ row'.marks = row.marks
        \/ /\ row' \in Rows /\ row'.status = "Cancelling"
           /\ row.status \in AbandoningFrom
           /\ row'.marks = row.marks \cup {"abandoned", "replacing"}
    BY <1>4, <2>a, <2>b, <2>c, MarkAbandoningRow DEF StarterMarks
  <2>1. TypeOK'
    BY <1>4, <2>0 DEF StarterMarks, KeepStarting, NoStart, AllReasons, Goto,
       Fault, Rows, Statuses, Marks, AbandoningFrom, CancellingFrom, IInv,
       TypeOK, Tasks, Cancellers, Pcs, ChainStates, Clock, taskVars,
       chainVars
  <2>2. Knowledge'
    BY <1>4, <2>0 DEF StarterMarks, KeepStarting, NoStart, AllReasons, Goto,
       Fault, Rows, Statuses, Marks, AbandoningFrom, CancellingFrom, IInv,
       Knowledge, TypeOK, SubgraphTrails, AcceptWasSeen, StarterKnows,
       RetryKnows, ListenerKnows, EndIsKnown, AbandonIsTracked, BlameIsTrue,
       AnnouncementsAreTrue, ReachedAccepted, Finished, Over, Doomed,
       EndedStatuses, HoldsSlot, Tasks, Cancellers, taskVars, chainVars
  <2> QED BY <2>1, <2>2 DEF IInv
<1>5. CASE StarterRecords
  <2>a. row \in Rows /\ EraNow \in {1, 2} /\ {"endTx"} \in SUBSET {"endTx"}
    BY DEF IInv, TypeOK, EraNow
  <2>b. /\ RecordCancel(row, EraNow, {"endTx"}) \in Rows
        /\ RecordCancel(row, EraNow, {"endTx"}).status = row.status
        /\ \A m \in Lasting : m \in RecordCancel(row, EraNow, {"endTx"}).marks
                               <=> m \in row.marks
    BY <2>a, RecordCancelRow
  <2>0. \/ row' = row
        \/ /\ row' \in Rows /\ row'.status = row.status
           /\ \A m \in Lasting : m \in row'.marks <=> m \in row.marks
    BY <1>5, <2>b DEF StarterRecords
  <2>1. TypeOK'
    BY <1>5, <2>0 DEF StarterRecords, KeepStarting, NoStart, AllReasons,
       Goto, Fault, Lasting, IInv, TypeOK, Tasks, Cancellers, Pcs,
       ChainStates, Clock, taskVars, chainVars
  <2>2. Knowledge'
    BY <1>5, <2>0 DEF StarterRecords, KeepStarting, NoStart, AllReasons,
       Goto, Fault, Lasting, IInv, Knowledge, TypeOK, SubgraphTrails,
       AcceptWasSeen, StarterKnows, RetryKnows, ListenerKnows, EndIsKnown,
       AbandonIsTracked, BlameIsTrue, AnnouncementsAreTrue, ReachedAccepted,
       Finished, Over, Doomed, EndedStatuses, HoldsSlot, Tasks, Cancellers,
       taskVars, chainVars
  <2> QED BY <2>1, <2>2 DEF IInv
<1>6. CASE StarterEnds
  <2>1. TypeOK'
    BY <1>6 DEF StarterEnds, KeepStarting, NoStart, AllReasons, Goto, Fault,
       SetStatusFrom, Rows, Statuses, Marks, MarkEnded,
       MarkAbandonedByIndexer, MarkCanceledByRequester,
       CancelByRequesterFrom, IInv, TypeOK, Tasks, Cancellers, Pcs,
       ChainStates, Clock, taskVars, chainVars
  <2>2. Knowledge'
    BY <1>6 DEF StarterEnds, KeepStarting, NoStart, AllReasons, Goto, Fault,
       SetStatusFrom, Rows, Statuses, Marks, MarkEnded,
       MarkAbandonedByIndexer, MarkCanceledByRequester,
       CancelByRequesterFrom, IInv, Knowledge, TypeOK, SubgraphTrails,
       AcceptWasSeen, StarterKnows, RetryKnows, ListenerKnows, EndIsKnown,
       AbandonIsTracked, BlameIsTrue, AnnouncementsAreTrue, ReachedAccepted,
       Finished, Over, Doomed, EndedStatuses, HoldsSlot, Tasks, Cancellers,
       taskVars, chainVars
  <2> QED BY <2>1, <2>2 DEF IInv
<1>7. CASE StarterNotes
  <2>1. TypeOK'
    BY <1>7 DEF StarterNotes, KeepStarting, NoStart, AllReasons, Goto, Fault,
       Rows, Statuses, Marks, RecordCancelCheck, IInv, TypeOK, Tasks,
       Cancellers, Pcs, ChainStates, Clock, taskVars, chainVars
  <2>2. Knowledge'
    BY <1>7 DEF StarterNotes, KeepStarting, NoStart, AllReasons, Goto, Fault,
       Rows, Statuses, Marks, RecordCancelCheck, IInv, Knowledge, TypeOK,
       SubgraphTrails, AcceptWasSeen, StarterKnows, RetryKnows,
       ListenerKnows, EndIsKnown, AbandonIsTracked, BlameIsTrue,
       AnnouncementsAreTrue, ReachedAccepted, Finished, Over, Doomed,
       EndedStatuses, HoldsSlot, Tasks, Cancellers, taskVars, chainVars
  <2> QED BY <2>1, <2>2 DEF IInv
<1>8. CASE StarterReplaces
  <2>1. TypeOK'
    BY <1>8 DEF StarterReplaces, KeepStarting, NoStart, AllReasons, Goto,
       Fault, Rows, Statuses, Marks, MarkReplacementQueued, IInv, TypeOK,
       Tasks, Cancellers, Pcs, ChainStates, Clock, taskVars, chainVars
  <2>2. Knowledge'
    BY <1>8 DEF StarterReplaces, KeepStarting, NoStart, AllReasons, Goto,
       Fault, Rows, Statuses, Marks, MarkReplacementQueued, IInv, Knowledge,
       TypeOK, SubgraphTrails, AcceptWasSeen, StarterKnows, RetryKnows,
       ListenerKnows, EndIsKnown, AbandonIsTracked, BlameIsTrue,
       AnnouncementsAreTrue, ReachedAccepted, Finished, Over, Doomed,
       EndedStatuses, HoldsSlot, Tasks, Cancellers, taskVars, chainVars
  <2> QED BY <2>1, <2>2 DEF IInv
<1> QED BY <1>1, <1>2, <1>3, <1>4, <1>5, <1>6, <1>7, <1>8 DEF Starter, StarterSteps

(* The retry's other steps preserve it.                                    *)
LEMMA RetryIInv == IInv /\ Retry => IInv'
<1> USE LifecycleAssumption
<1> SUFFICES ASSUME IInv, Retry PROVE IInv'
  OBVIOUS
<1>1. CASE RetryLists
  <2>1. TypeOK'
    BY <1>1 DEF RetryLists, KeepListed, NoListed, Listed, Outcomes, NotLive,
       Goto, Fault, IInv, TypeOK, Tasks, Cancellers, Pcs, ChainStates, Clock,
       taskVars, chainVars
  <2>2. Knowledge'
    BY <1>1 DEF RetryLists, KeepListed, NoListed, Listed, Outcomes, NotLive,
       Goto, Fault, IInv, Knowledge, TypeOK, SubgraphTrails, AcceptWasSeen,
       StarterKnows, RetryKnows, ListenerKnows, EndIsKnown, AbandonIsTracked,
       BlameIsTrue, AnnouncementsAreTrue, ReachedAccepted, Finished, Over,
       Doomed, EndedStatuses, HoldsSlot, Tasks, Cancellers, taskVars,
       chainVars
  <2> QED BY <2>1, <2>2 DEF IInv
<1>2. CASE RetryReadsTime
  <2>1. TypeOK'
    BY <1>2 DEF RetryReadsTime, KeepListed, NoListed, Listed, Outcomes,
       NotLive, Goto, Fault, IInv, TypeOK, Tasks, Cancellers, Pcs,
       ChainStates, Clock, taskVars, chainVars
  <2>2. Knowledge'
    BY <1>2 DEF RetryReadsTime, KeepListed, NoListed, Listed, Outcomes,
       NotLive, Goto, Fault, IInv, Knowledge, TypeOK, SubgraphTrails,
       AcceptWasSeen, StarterKnows, RetryKnows, ListenerKnows, EndIsKnown,
       AbandonIsTracked, BlameIsTrue, AnnouncementsAreTrue, ReachedAccepted,
       Finished, Over, Doomed, EndedStatuses, HoldsSlot, Tasks, Cancellers,
       taskVars, chainVars
  <2> QED BY <2>1, <2>2 DEF IInv
<1>3. CASE RetryConfirms
  <2>1. TypeOK'
    BY <1>3 DEF RetryConfirms, KeepListed, NoListed, Listed, Outcomes,
       NotLive, Goto, Fault, CanConfirm, PastGrace, IInv, TypeOK, Tasks,
       Cancellers, Pcs, ChainStates, Clock, taskVars, chainVars
  <2>2. Knowledge'
    BY <1>3 DEF RetryConfirms, KeepListed, NoListed, Listed, Outcomes,
       NotLive, Goto, Fault, CanConfirm, PastGrace, IInv, Knowledge, TypeOK,
       SubgraphTrails, AcceptWasSeen, StarterKnows, RetryKnows,
       ListenerKnows, EndIsKnown, AbandonIsTracked, BlameIsTrue,
       AnnouncementsAreTrue, ReachedAccepted, Finished, Over, Doomed,
       EndedStatuses, HoldsSlot, Tasks, Cancellers, taskVars, chainVars
  <2> QED BY <2>1, <2>2 DEF IInv
<1>4. CASE RetryKeeps
  <2>1. TypeOK'
    BY <1>4 DEF RetryKeeps, KeepListed, NoListed, Listed, Outcomes, NotLive,
       Goto, Fault, Rows, Statuses, Marks, CanConfirm, PastGrace, RetryNotes,
       RecordCancelCheck, IInv, TypeOK, Tasks, Cancellers, Pcs, ChainStates,
       Clock, taskVars, chainVars
  <2>2. Knowledge'
    BY <1>4 DEF RetryKeeps, KeepListed, NoListed, Listed, Outcomes, NotLive,
       Goto, Fault, Rows, Statuses, Marks, CanConfirm, PastGrace, RetryNotes,
       RecordCancelCheck, IInv, Knowledge, TypeOK, SubgraphTrails,
       AcceptWasSeen, StarterKnows, RetryKnows, ListenerKnows, EndIsKnown,
       AbandonIsTracked, BlameIsTrue, AnnouncementsAreTrue, ReachedAccepted,
       Finished, Over, Doomed, EndedStatuses, HoldsSlot, Tasks, Cancellers,
       taskVars, chainVars
  <2> QED BY <2>1, <2>2 DEF IInv
<1>5. CASE RetryRecords
  <2>a. row \in Rows /\ EraNow \in {1, 2} /\ {"endTx"} \in SUBSET {"endTx"}
    BY DEF IInv, TypeOK, EraNow
  <2>b. /\ RecordCancel(row, EraNow, {"endTx"}) \in Rows
        /\ RecordCancel(row, EraNow, {"endTx"}).status = row.status
        /\ \A m \in Lasting : m \in RecordCancel(row, EraNow, {"endTx"}).marks
                               <=> m \in row.marks
    BY <2>a, RecordCancelRow
  <2>0. \/ row' = row
        \/ /\ row' \in Rows /\ row'.status = row.status
           /\ \A m \in Lasting : m \in row'.marks <=> m \in row.marks
    BY <1>5, <2>b DEF RetryRecords
  <2>1. TypeOK'
    BY <1>5, <2>0 DEF RetryRecords, KeepListed, NoListed, Listed, Outcomes,
       NotLive, Goto, Fault, Lasting, IInv, TypeOK, Tasks, Cancellers, Pcs,
       ChainStates, Clock, taskVars, chainVars
  <2>2. Knowledge'
    BY <1>5, <2>0 DEF RetryRecords, KeepListed, NoListed, Listed, Outcomes,
       NotLive, Goto, Fault, Lasting, IInv, Knowledge, TypeOK,
       SubgraphTrails, AcceptWasSeen, StarterKnows, RetryKnows,
       ListenerKnows, EndIsKnown, AbandonIsTracked, BlameIsTrue,
       AnnouncementsAreTrue, ReachedAccepted, Finished, Over, Doomed,
       EndedStatuses, HoldsSlot, Tasks, Cancellers, taskVars, chainVars
  <2> QED BY <2>1, <2>2 DEF IInv
<1>6. CASE RetryEnds
  <2>1. TypeOK'
    BY <1>6 DEF RetryEnds, KeepListed, NoListed, Listed, Outcomes, NotLive,
       Goto, Fault, SetStatusFrom, Rows, Statuses, Marks, MarkEnded,
       MarkAbandonedByIndexer, MarkCanceledByRequester,
       CancelByRequesterFrom, RecordCancelCheck, IInv, TypeOK, Tasks,
       Cancellers, Pcs, ChainStates, Clock, taskVars, chainVars
  <2>2. Knowledge'
    BY <1>6 DEF RetryEnds, KeepListed, NoListed, Listed, Outcomes, NotLive,
       Goto, Fault, SetStatusFrom, Rows, Statuses, Marks, MarkEnded,
       MarkAbandonedByIndexer, MarkCanceledByRequester,
       CancelByRequesterFrom, RecordCancelCheck, IInv, Knowledge, TypeOK,
       SubgraphTrails, AcceptWasSeen, StarterKnows, RetryKnows,
       ListenerKnows, EndIsKnown, AbandonIsTracked, BlameIsTrue,
       AnnouncementsAreTrue, ReachedAccepted, Finished, Over, Doomed,
       EndedStatuses, HoldsSlot, Tasks, Cancellers, taskVars, chainVars
  <2> QED BY <2>1, <2>2 DEF IInv
<1>7. CASE RetryRecordsIndexer
  <2>a. row \in Rows /\ EraNow \in {1, 2} /\ {} \in SUBSET {"endTx"}
    BY DEF IInv, TypeOK, EraNow
  <2>b. /\ RecordCancel(row, EraNow, {}) \in Rows
        /\ RecordCancel(row, EraNow, {}).status = row.status
        /\ \A m \in Lasting : m \in RecordCancel(row, EraNow, {}).marks
                               <=> m \in row.marks
    BY <2>a, RecordCancelRow
  <2>c. RecordCancelCheck(row, "ended") \in Rows
    BY <2>a DEF RecordCancelCheck, Rows, Marks
  <2>0. \/ row' = row
        \/ row' = RecordCancelCheck(row, "ended") /\ row' \in Rows
        \/ /\ row' \in Rows /\ row'.status = row.status
           /\ \A m \in Lasting : m \in row'.marks <=> m \in row.marks
    BY <1>7, <2>b, <2>c DEF RetryRecordsIndexer
  <2>1. TypeOK'
    BY <1>7, <2>0 DEF RetryRecordsIndexer, KeepListed, NoListed, Listed,
       Outcomes, NotLive, Goto, Fault, Lasting, IInv, TypeOK, Tasks,
       Cancellers, Pcs, ChainStates, Clock, taskVars, chainVars
  <2>2. Knowledge'
    BY <1>7, <2>0 DEF RetryRecordsIndexer, KeepListed, NoListed, Listed,
       Outcomes, NotLive, Goto, Fault, Rows, Statuses, Marks,
       RecordCancelCheck, Lasting, IInv, Knowledge, TypeOK, SubgraphTrails,
       AcceptWasSeen, StarterKnows, RetryKnows, ListenerKnows, EndIsKnown,
       AbandonIsTracked, BlameIsTrue, AnnouncementsAreTrue, ReachedAccepted,
       Finished, Over, Doomed, EndedStatuses, HoldsSlot, Tasks, Cancellers,
       taskVars, chainVars
  <2> QED BY <2>1, <2>2 DEF IInv
<1>8. CASE RetryEndsByIndexer
  <2>1. TypeOK'
    BY <1>8 DEF RetryEndsByIndexer, KeepListed, NoListed, Listed, Outcomes,
       NotLive, Goto, Fault, SetStatusFrom, Rows, Statuses, Marks,
       ApplyCancel, CancelByIndexerFrom, RecordCancelCheck, IInv, TypeOK,
       Tasks, Cancellers, Pcs, ChainStates, Clock, taskVars, chainVars
  <2>2. Knowledge'
    BY <1>8 DEF RetryEndsByIndexer, KeepListed, NoListed, Listed, Outcomes,
       NotLive, Goto, Fault, SetStatusFrom, Rows, Statuses, Marks,
       ApplyCancel, CancelByIndexerFrom, RecordCancelCheck, IInv, Knowledge,
       TypeOK, SubgraphTrails, AcceptWasSeen, StarterKnows, RetryKnows,
       ListenerKnows, EndIsKnown, AbandonIsTracked, BlameIsTrue,
       AnnouncementsAreTrue, ReachedAccepted, Finished, Over, Doomed,
       EndedStatuses, HoldsSlot, Tasks, Cancellers, taskVars, chainVars
  <2> QED BY <2>1, <2>2 DEF IInv
<1>9. CASE RetryReplaces
  <2>1. TypeOK'
    BY <1>9 DEF RetryReplaces, KeepListed, NoListed, Listed, Outcomes,
       NotLive, Goto, Fault, Rows, Statuses, Marks, MarkReplacementQueued,
       AwaitsReplacement, IInv, TypeOK, Tasks, Cancellers, Pcs, ChainStates,
       Clock, taskVars, chainVars
  <2>2. Knowledge'
    BY <1>9 DEF RetryReplaces, KeepListed, NoListed, Listed, Outcomes,
       NotLive, Goto, Fault, Rows, Statuses, Marks, MarkReplacementQueued,
       AwaitsReplacement, IInv, Knowledge, TypeOK, SubgraphTrails,
       AcceptWasSeen, StarterKnows, RetryKnows, ListenerKnows, EndIsKnown,
       AbandonIsTracked, BlameIsTrue, AnnouncementsAreTrue, ReachedAccepted,
       Finished, Over, Doomed, EndedStatuses, HoldsSlot, Tasks, Cancellers,
       taskVars, chainVars
  <2> QED BY <2>1, <2>2 DEF IInv
<1> QED BY <1>1, <1>2, <1>3, <1>4, <1>5, <1>6, <1>7, <1>8, <1>9 DEF Retry

(* The listener preserves it.                                              *)
LEMMA ListenerIInv == IInv /\ Listener => IInv'
<1> USE LifecycleAssumption
<1> SUFFICES ASSUME IInv, Listener PROVE IInv'
  OBVIOUS
<1>1. CASE ListenNothing
  <2>1. TypeOK'
    BY <1>1 DEF ListenNothing, KeepSaw, EventSweeps, Goto, Fault, Later,
       IInv, TypeOK, Tasks, Cancellers, Pcs, ChainStates, Clock, taskVars,
       chainVars
  <2>2. Knowledge'
    BY <1>1 DEF ListenNothing, KeepSaw, EventSweeps, Goto, Fault, Later,
       IInv, Knowledge, TypeOK, SubgraphTrails, AcceptWasSeen, StarterKnows,
       RetryKnows, ListenerKnows, EndIsKnown, AbandonIsTracked, BlameIsTrue,
       AnnouncementsAreTrue, ReachedAccepted, Finished, Over, Doomed,
       EndedStatuses, HoldsSlot, Tasks, Cancellers, taskVars, chainVars
  <2> QED BY <2>1, <2>2 DEF IInv
<1>2. CASE ListenFetch
  <2>1. TypeOK'
    BY <1>2 DEF ListenFetch, KeepSaw, EventSweeps, Goto, Fault, Rows,
       Statuses, Marks, PrepareWrites, EndedButAccepted, AcceptedAndEnded,
       ReopenFrom, IInv, TypeOK, Tasks, Cancellers, Pcs, ChainStates, Clock,
       taskVars, chainVars
  <2>2. Knowledge'
    BY <1>2 DEF ListenFetch, KeepSaw, EventSweeps, Goto, Fault, Rows,
       Statuses, Marks, PrepareWrites, EndedButAccepted, AcceptedAndEnded,
       ReopenFrom, IInv, Knowledge, TypeOK, SubgraphTrails, AcceptWasSeen,
       StarterKnows, RetryKnows, ListenerKnows, EndIsKnown, AbandonIsTracked,
       BlameIsTrue, AnnouncementsAreTrue, ReachedAccepted, Finished, Over,
       Doomed, EndedStatuses, HoldsSlot, Tasks, Cancellers, taskVars,
       chainVars
  <2> QED BY <2>1, <2>2 DEF IInv
<1>3. CASE ListenPrepare
  <2>a. row \in Rows
    BY DEF IInv, TypeOK
  <2>b. /\ RecordAccepted(row) \in Rows
        /\ RecordAccepted(row).status = row.status
        /\ RecordAccepted(row).marks = row.marks \cup {"accepted"}
    BY <2>a DEF RecordAccepted, Rows, Marks
  <2>c. /\ RecordAcceptAndCancel(row, 2) \in Rows
        /\ RecordAcceptAndCancel(row, 2).status = row.status
        /\ \A m \in Lasting : m \in RecordAcceptAndCancel(row, 2).marks
                               <=> m \in row.marks \cup {"accepted"}
    BY <2>a, RecordAcceptAndCancelRow
  <2>0. \/ row' = row
        \/ /\ row' \in Rows /\ row'.status = row.status
           /\ saw = "Cancelling" \/ AcceptedAndEnded(indexed.state, saw)
           /\ \A m \in Lasting : m \in row'.marks
                                  <=> m \in row.marks \cup {"accepted"}
    BY <1>3, <2>b, <2>c DEF ListenPrepare
  <2>1. TypeOK'
    BY <1>3, <2>0 DEF ListenPrepare, KeepSaw, EventSweeps, Goto, Fault,
       Statuses, QueueCheck, EndedButAccepted, AcceptedAndEnded, ReopenFrom,
       Lasting, IInv, TypeOK, Tasks, Cancellers, Pcs, ChainStates, Clock,
       taskVars, chainVars
  <2>2. Knowledge'
    BY <1>3, <2>0 DEF ListenPrepare, KeepSaw, EventSweeps, Goto, Fault,
       Statuses, QueueCheck, EndedButAccepted, AcceptedAndEnded, ReopenFrom,
       Lasting, IInv, Knowledge, TypeOK, SubgraphTrails, AcceptWasSeen,
       StarterKnows, RetryKnows, ListenerKnows, EndIsKnown, AbandonIsTracked,
       BlameIsTrue, AnnouncementsAreTrue, ReachedAccepted, Finished, Over,
       Doomed, EndedStatuses, HoldsSlot, Tasks, Cancellers, taskVars,
       chainVars
  <2> QED BY <2>1, <2>2 DEF IInv
<1>4. CASE ListenApply
  <2>a. /\ row \in Rows
        /\ AppliesAccept \in BOOLEAN
        /\ AppliedCancel \in {"ByRequester", "ByIndexer", "none"}
    BY DEF IInv, TypeOK, AppliesAccept, AppliedCancel
  <2>b. PICK a \in Rows :
          /\ a = row \/ /\ AppliesAccept /\ row.status \in AcceptFrom
                        /\ a.status = "AcceptedOnChain"
                        /\ a.marks = row.marks \cup {"accepted"}
          /\ row' \in Rows
          /\ row'.status = ApplyCancel(a, AppliedCancel).status
          /\ row'.marks \cap Lasting = a.marks \cap Lasting
    <3>1. PICK era \in {1, 2} :
            era = IF indexed.state = "withdrawn" THEN 1 ELSE 2
      OBVIOUS
    <3>2. PICK a \in Rows :
            a = IF AppliesAccept /\ row.status \in AcceptFrom
                  THEN AcceptedRow(row) ELSE row
      BY <2>a, AcceptedRowFields
    <3>3. row' = CanceledRow(a, AppliedCancel, era)
      BY <1>4, <3>1, <3>2 DEF ListenApply, ApplyReconciliation, AcceptedRow,
         CanceledRow, WroteEnd
    <3>4. a = row \/ /\ AppliesAccept /\ row.status \in AcceptFrom
                     /\ a.status = "AcceptedOnChain"
                     /\ a.marks = row.marks \cup {"accepted"}
      BY <2>a, <3>2, AcceptedRowFields
    <3> QED BY <2>a, <3>3, <3>4, CanceledRowFields
  <2>c. \A m \in Lasting : m \in row'.marks <=> m \in a.marks
    BY <2>b
  <2>d. \/ ApplyCancel(a, AppliedCancel).status = a.status
        \/ /\ AppliedCancel = "ByRequester"
           /\ a.status \in CancelByRequesterFrom
           /\ ApplyCancel(a, AppliedCancel).status =
                IF "abandoned" \in a.marks
                  THEN "AbandonedByIndexer" ELSE "CanceledByRequester"
        \/ /\ AppliedCancel = "ByIndexer"
           /\ a.status \in CancelByIndexerFrom
           /\ ApplyCancel(a, AppliedCancel).status = "CanceledByIndexer"
    BY <2>a, ApplyCancelRow
  <2>0. /\ row' \in Rows
        /\ a = row \/ /\ AppliesAccept /\ row.status \in AcceptFrom
                      /\ a.status = "AcceptedOnChain"
                      /\ a.marks = row.marks \cup {"accepted"}
        /\ \A m \in Lasting : m \in row'.marks <=> m \in a.marks
        /\ \/ row'.status = a.status
           \/ /\ AppliedCancel = "ByRequester"
              /\ a.status \in CancelByRequesterFrom
              /\ row'.status = IF "abandoned" \in a.marks
                    THEN "AbandonedByIndexer" ELSE "CanceledByRequester"
           \/ /\ AppliedCancel = "ByIndexer"
              /\ a.status \in CancelByIndexerFrom
              /\ row'.status = "CanceledByIndexer"
    BY <2>b, <2>c, <2>d
  <2>1. TypeOK'
    BY <1>4, <2>0 DEF ListenApply, KeepSaw, EventSweeps, Goto, Fault,
       Statuses, Later, AppliesAccept, AppliedCancel, AcceptFrom,
       CancelByRequesterFrom, CancelByIndexerFrom, Lasting, IInv, TypeOK,
       Tasks, Cancellers, Pcs, ChainStates, Clock, taskVars, chainVars
  <2>2. Knowledge'
    BY <1>4, <2>0 DEF ListenApply, KeepSaw, EventSweeps, Goto, Fault,
       Statuses, Later, AppliesAccept, AppliedCancel, AcceptFrom,
       CancelByRequesterFrom, CancelByIndexerFrom, Lasting, IInv, Knowledge,
       TypeOK, SubgraphTrails, AcceptWasSeen, StarterKnows, RetryKnows,
       ListenerKnows, EndIsKnown, AbandonIsTracked, BlameIsTrue,
       AnnouncementsAreTrue, ReachedAccepted, Finished, Over, Doomed,
       EndedStatuses, HoldsSlot, Tasks, Cancellers, taskVars, chainVars
  <2> QED BY <2>1, <2>2 DEF IInv
<1>5. CASE ListenHolds
  <2>1. TypeOK'
    BY <1>5 DEF ListenHolds, KeepSaw, EventSweeps, Goto, Fault, Statuses,
       Later, IInv, TypeOK, Tasks, Cancellers, Pcs, ChainStates, Clock,
       taskVars, chainVars
  <2>2. Knowledge'
    BY <1>5 DEF ListenHolds, KeepSaw, EventSweeps, Goto, Fault, Statuses,
       Later, IInv, Knowledge, TypeOK, SubgraphTrails, AcceptWasSeen,
       StarterKnows, RetryKnows, ListenerKnows, EndIsKnown, AbandonIsTracked,
       BlameIsTrue, AnnouncementsAreTrue, ReachedAccepted, Finished, Over,
       Doomed, EndedStatuses, HoldsSlot, Tasks, Cancellers, taskVars,
       chainVars
  <2> QED BY <2>1, <2>2 DEF IInv
<1>6. CASE \E kind \in Kinds : SweepsNothing(kind)
  <2>1. TypeOK'
    BY <1>6 DEF SweepsNothing, Kinds, KeepSaw, EventSweeps, Goto, Fault,
       Sweep, After, Marker, Pending, PendingAccepted, PendingTerminated,
       PendingExpired, MarkEmitted, IInv, TypeOK, Tasks, Cancellers, Pcs,
       ChainStates, Clock, taskVars, chainVars
  <2>2. Knowledge'
    BY <1>6 DEF SweepsNothing, Kinds, KeepSaw, EventSweeps, Goto, Fault,
       Sweep, After, Marker, Pending, PendingAccepted, PendingTerminated,
       PendingExpired, MarkEmitted, IInv, Knowledge, TypeOK, SubgraphTrails,
       AcceptWasSeen, StarterKnows, RetryKnows, ListenerKnows, EndIsKnown,
       AbandonIsTracked, BlameIsTrue, AnnouncementsAreTrue, ReachedAccepted,
       Finished, Over, Doomed, EndedStatuses, HoldsSlot, Tasks, Cancellers,
       taskVars, chainVars
  <2> QED BY <2>1, <2>2 DEF IInv
<1>7. CASE \E kind \in Kinds : SweepSends(kind)
  <2>1. TypeOK'
    BY <1>7 DEF SweepSends, Kinds, KeepSaw, EventSweeps, Goto, Fault, Rows,
       Statuses, Marks, Sweep, After, Marker, Pending, PendingAccepted,
       PendingTerminated, PendingExpired, MarkEmitted, IInv, TypeOK, Tasks,
       Cancellers, Pcs, ChainStates, Clock, taskVars, chainVars
  <2>2. Knowledge'
    BY <1>7 DEF SweepSends, Kinds, KeepSaw, EventSweeps, Goto, Fault, Rows,
       Statuses, Marks, Sweep, After, Marker, Pending, PendingAccepted,
       PendingTerminated, PendingExpired, MarkEmitted, IInv, Knowledge,
       TypeOK, SubgraphTrails, AcceptWasSeen, StarterKnows, RetryKnows,
       ListenerKnows, EndIsKnown, AbandonIsTracked, BlameIsTrue,
       AnnouncementsAreTrue, ReachedAccepted, Finished, Over, Doomed,
       EndedStatuses, HoldsSlot, Tasks, Cancellers, taskVars, chainVars
  <2> QED BY <2>1, <2>2 DEF IInv
<1>8. CASE \E kind \in Kinds : SweepFails(kind)
  <2>1. TypeOK'
    BY <1>8 DEF SweepFails, Kinds, KeepSaw, EventSweeps, Goto, Fault, Sweep,
       After, Marker, Pending, PendingAccepted, PendingTerminated,
       PendingExpired, MarkEmitted, IInv, TypeOK, Tasks, Cancellers, Pcs,
       ChainStates, Clock, taskVars, chainVars
  <2>2. Knowledge'
    BY <1>8 DEF SweepFails, Kinds, KeepSaw, EventSweeps, Goto, Fault, Sweep,
       After, Marker, Pending, PendingAccepted, PendingTerminated,
       PendingExpired, MarkEmitted, IInv, Knowledge, TypeOK, SubgraphTrails,
       AcceptWasSeen, StarterKnows, RetryKnows, ListenerKnows, EndIsKnown,
       AbandonIsTracked, BlameIsTrue, AnnouncementsAreTrue, ReachedAccepted,
       Finished, Over, Doomed, EndedStatuses, HoldsSlot, Tasks, Cancellers,
       taskVars, chainVars
  <2> QED BY <2>1, <2>2 DEF IInv
<1>9. CASE MarksTerminated
  <2>1. TypeOK'
    BY <1>9 DEF MarksTerminated, KeepSaw, EventSweeps, Goto, Fault, Rows,
       Statuses, Marks, Sweep, After, Marker, Pending, PendingAccepted,
       PendingTerminated, PendingExpired, MarkEmitted, IInv, TypeOK, Tasks,
       Cancellers, Pcs, ChainStates, Clock, taskVars, chainVars
  <2>2. Knowledge'
    BY <1>9 DEF MarksTerminated, KeepSaw, EventSweeps, Goto, Fault, Rows,
       Statuses, Marks, Sweep, After, Marker, Pending, PendingAccepted,
       PendingTerminated, PendingExpired, MarkEmitted, IInv, Knowledge,
       TypeOK, SubgraphTrails, AcceptWasSeen, StarterKnows, RetryKnows,
       ListenerKnows, EndIsKnown, AbandonIsTracked, BlameIsTrue,
       AnnouncementsAreTrue, ReachedAccepted, Finished, Over, Doomed,
       EndedStatuses, HoldsSlot, Tasks, Cancellers, taskVars, chainVars
  <2> QED BY <2>1, <2>2 DEF IInv
<1> QED BY <1>1, <1>2, <1>3, <1>4, <1>5, <1>6, <1>7, <1>8, <1>9 DEF Listener,
  ListenerWork

(* The check job preserves it.                                             *)
LEMMA CheckIInv == IInv /\ Check => IInv'
<1> USE LifecycleAssumption
<1> SUFFICES ASSUME IInv, Check PROVE IInv'
  OBVIOUS
<1>1. CASE CheckStart
  <2>1. TypeOK'
    BY <1>1 DEF CheckStart, ReopenFrom, Goto, JobEnds, Fault, IInv, TypeOK,
       Tasks, Cancellers, Pcs, ChainStates, Clock, taskVars, chainVars
  <2>2. Knowledge'
    BY <1>1 DEF CheckStart, ReopenFrom, Goto, JobEnds, Fault, IInv,
       Knowledge, TypeOK, SubgraphTrails, AcceptWasSeen, StarterKnows,
       RetryKnows, ListenerKnows, EndIsKnown, AbandonIsTracked, BlameIsTrue,
       AnnouncementsAreTrue, ReachedAccepted, Finished, Over, Doomed,
       EndedStatuses, HoldsSlot, Tasks, Cancellers, taskVars, chainVars
  <2> QED BY <2>1, <2>2 DEF IInv
<1>2. CASE CheckReads
  <2>1. TypeOK'
    BY <1>2 DEF CheckReads, ReopenFrom, Goto, JobEnds, Fault, StillLive,
       IInv, TypeOK, Tasks, Cancellers, Pcs, ChainStates, Clock, taskVars,
       chainVars
  <2>2. Knowledge'
    BY <1>2 DEF CheckReads, ReopenFrom, Goto, JobEnds, Fault, StillLive,
       IInv, Knowledge, TypeOK, SubgraphTrails, AcceptWasSeen, StarterKnows,
       RetryKnows, ListenerKnows, EndIsKnown, AbandonIsTracked, BlameIsTrue,
       AnnouncementsAreTrue, ReachedAccepted, Finished, Over, Doomed,
       EndedStatuses, HoldsSlot, Tasks, Cancellers, taskVars, chainVars
  <2> QED BY <2>1, <2>2 DEF IInv
<1>3. CASE CheckReopens
  <2>a. row \in Rows
    BY DEF IInv, TypeOK
  <2>b. PICK seen \in BOOLEAN : seen = (pc["check"] = "reopening")
    OBVIOUS
  <2>0. row.status \in ReopenFrom =>
          LET r == Reopen(row, pc["check"] = "reopening")
          IN /\ r \in Rows /\ r.status = "Cancelling"
             /\ \A m \in Lasting : m \in r.marks
                                     <=> m \in row.marks \ {"endedSeen"}
    BY <2>a, <2>b, ReopenRow
  <2>1. TypeOK'
    BY <1>3, <2>0 DEF CheckReopens, ReopenFrom, Goto, JobEnds, Fault,
       Lasting, IInv, TypeOK, Tasks, Cancellers, Pcs, ChainStates, Clock,
       taskVars, chainVars
  <2>2. Knowledge'
    BY <1>3, <2>0 DEF CheckReopens, ReopenFrom, Goto, JobEnds, Fault,
       Lasting, IInv, Knowledge, TypeOK, SubgraphTrails, AcceptWasSeen,
       StarterKnows, RetryKnows, ListenerKnows, EndIsKnown, AbandonIsTracked,
       BlameIsTrue, AnnouncementsAreTrue, ReachedAccepted, Finished, Over,
       Doomed, EndedStatuses, HoldsSlot, Tasks, Cancellers, taskVars,
       chainVars
  <2> QED BY <2>1, <2>2 DEF IInv
<1>4. CASE CheckRecords
  <2>1. TypeOK'
    BY <1>4 DEF CheckRecords, ReopenFrom, Goto, JobEnds, Fault, Rows,
       Statuses, Marks, RecordAccepted, IInv, TypeOK, Tasks, Cancellers, Pcs,
       ChainStates, Clock, taskVars, chainVars
  <2>2. Knowledge'
    BY <1>4 DEF CheckRecords, ReopenFrom, Goto, JobEnds, Fault, Rows,
       Statuses, Marks, RecordAccepted, IInv, Knowledge, TypeOK,
       SubgraphTrails, AcceptWasSeen, StarterKnows, RetryKnows,
       ListenerKnows, EndIsKnown, AbandonIsTracked, BlameIsTrue,
       AnnouncementsAreTrue, ReachedAccepted, Finished, Over, Doomed,
       EndedStatuses, HoldsSlot, Tasks, Cancellers, taskVars, chainVars
  <2> QED BY <2>1, <2>2 DEF IInv
<1> QED BY <1>1, <1>2, <1>3, <1>4 DEF Check

(* The expiration service preserves it.                                    *)
LEMMA ExpireIInv == IInv /\ Expire => IInv'
<1> USE LifecycleAssumption
<1> SUFFICES ASSUME IInv, Expire PROVE IInv'
  OBVIOUS
<1>1. TypeOK'
  BY DEF Expire, MarkExpired, SetStatusFrom, Rows, Statuses, IInv, TypeOK,
     Tasks, Cancellers, Pcs, ChainStates, Clock, taskVars, chainVars
<1>2. Knowledge'
  BY DEF Expire, MarkExpired, SetStatusFrom, Rows, Statuses, IInv, Knowledge,
     TypeOK, SubgraphTrails, AcceptWasSeen, StarterKnows, RetryKnows,
     ListenerKnows, EndIsKnown, AbandonIsTracked, BlameIsTrue,
     AnnouncementsAreTrue, ReachedAccepted, Finished, Over, Doomed,
     EndedStatuses, HoldsSlot, Tasks, Cancellers, taskVars, chainVars
<1> QED BY <1>1, <1>2 DEF IInv

(* A run cut short preserves it: what the task knew is forgotten, and the  *)
(* transaction it leaves behind is an offer, or a cancel.                  *)
LEMMA RunCutIInv ==
  ASSUME IInv, NEW t \in Tasks, RunCut(t)
  PROVE  IInv'
<1> USE LifecycleAssumption
<1>1. TypeOK'
  BY DEF RunCut, InFlight, Fault, AfterCut, Restartable, Resting, AfterOffer,
     AfterCancel, KeepStarting, NoStart, AllReasons, ReachedAccepted, IInv,
     TypeOK, Tasks, Cancellers, Pcs, ChainStates, Clock, taskVars, chainVars
<1>2. Knowledge'
  BY DEF RunCut, InFlight, Fault, AfterCut, Restartable, Resting, AfterOffer,
     AfterCancel, KeepStarting, NoStart, AllReasons, IInv, Knowledge, TypeOK,
     SubgraphTrails, AcceptWasSeen, StarterKnows, RetryKnows, ListenerKnows,
     EndIsKnown, AbandonIsTracked, BlameIsTrue, AnnouncementsAreTrue,
     ReachedAccepted, Finished, Over, Doomed, EndedStatuses, HoldsSlot,
     Tasks, Cancellers, taskVars, chainVars, ChainStates, Clock
<1> QED BY <1>1, <1>2 DEF IInv

(* So does a crash.                                                        *)
LEMMA CrashIInv == IInv /\ Crash => IInv'
<1> USE LifecycleAssumption
<1> SUFFICES ASSUME IInv, Crash PROVE IInv'
  OBVIOUS
<1>1. TypeOK'
  BY DEF Crash, InFlight, Fault, AfterCut, Restartable, Resting, AfterOffer,
     AfterCancel, KeepStarting, NoStart, AllReasons, KeepListed, NoListed,
     KeepSaw, Listed, Statuses, ReachedAccepted, IInv, TypeOK, Tasks,
     Cancellers, Pcs, ChainStates, Clock, taskVars, chainVars
<1>2. Knowledge'
  BY DEF Crash, InFlight, Fault, AfterCut, Restartable, Resting, AfterOffer,
     AfterCancel, KeepStarting, NoStart, AllReasons, KeepListed, NoListed,
     KeepSaw, IInv, Knowledge, TypeOK, SubgraphTrails, AcceptWasSeen,
     StarterKnows, RetryKnows, ListenerKnows, EndIsKnown, AbandonIsTracked,
     BlameIsTrue, AnnouncementsAreTrue, ReachedAccepted, Finished, Over,
     Doomed, EndedStatuses, HoldsSlot, Tasks, Cancellers, taskVars,
     chainVars, ChainStates, Clock
<1> QED BY <1>1, <1>2 DEF IInv

(* Every step preserves the invariant.                                     *)
LEMMA NextIInv == IInv /\ [Next]_vars => IInv'
<1> SUFFICES ASSUME IInv, [Next]_vars PROVE IInv'
  OBVIOUS
<1>1. CASE UNCHANGED vars
  BY <1>1 DEF vars, IInv, Knowledge, TypeOK, SubgraphTrails, AcceptWasSeen,
     StarterKnows, RetryKnows, ListenerKnows, EndIsKnown, AbandonIsTracked,
     BlameIsTrue, AnnouncementsAreTrue, ReachedAccepted, Finished, Over,
     Doomed, EndedStatuses, HoldsSlot, Tasks, Cancellers, taskVars,
     chainVars, HoldsSlot, StillLive
<1>2. CASE Next
  BY <1>2, EnvironmentIInv, ProposalIInv, OfferIInv, CancelIfLiveIInv,
     StarterIInv, RetryIInv, ListenerIInv, CheckIInv, ExpireIInv, RunCutIInv,
     CrashIInv DEF Next
<1> QED BY <1>1, <1>2

(* The invariant implies the properties the model checker looks at.        *)
LEMMA IInvImplies ==
  IInv => /\ TypeOK /\ BlameIsTrue /\ EndedIsOver /\ AnnouncementsAreTrue
          /\ SlotHeldWhileLive
<1> SUFFICES ASSUME IInv
             PROVE  /\ TypeOK /\ BlameIsTrue /\ EndedIsOver
                    /\ AnnouncementsAreTrue /\ SlotHeldWhileLive
  OBVIOUS
<1>1. EndedIsOver
  BY DEF IInv, Knowledge, TypeOK, EndedIsOver, EndIsKnown, Over, Finished,
     StillLive, ChainStates, Clock
<1>2. SlotHeldWhileLive
  BY DEF IInv, Knowledge, TypeOK, SlotHeldWhileLive, AbandonIsTracked,
     Finished, StillLive, ChainStates, Clock
<1> QED BY <1>1, <1>2 DEF IInv, Knowledge

(* The invariant holds throughout.                                         *)
THEOREM LifecycleInvariant == Spec => []IInv
BY InitIInv, NextIInv, PTL DEF Spec

(* Every variable keeps its type.                                          *)
THEOREM LifecycleTypes == Spec => []TypeOK
BY LifecycleInvariant, IInvImplies, PTL

(* The registry never blames the wrong party for an agreement's end,       *)
(* whichever of the starter, the retry and the listener records it.        *)
THEOREM LifecycleBlame == Spec => []BlameIsTrue
BY LifecycleInvariant, IInvImplies, PTL

(* No agreement on record as accepted and as ended is live on the chain.   *)
THEOREM LifecycleEndedIsOver == Spec => []EndedIsOver
BY LifecycleInvariant, IInvImplies, PTL

(* No consumer is told of an accept or of an end that did not happen.      *)
THEOREM LifecycleAnnouncements == Spec => []AnnouncementsAreTrue
BY LifecycleInvariant, IInvImplies, PTL

(* An abandoned agreement keeps its slot while it can be paid.             *)
THEOREM LifecycleSlotHeld == Spec => []SlotHeldWhileLive
BY LifecycleInvariant, IInvImplies, PTL

(* What CancelIsFinal says of one step.                                    *)
StaysDoomed == row.status \in Doomed => row'.status \in Doomed

(* The steps that leave the row alone, and those whose statements are      *)
(* guarded by a status that is not doomed.                                 *)
LEMMA OthersStayDoomed ==
  ASSUME TypeOK,
         \/ Environment \/ Proposal \/ Expire \/ Crash
         \/ \E o \in OfferJobs : Offer(o)
         \/ \E t \in Cancellers : CancelIfLive(t)
         \/ \E t \in Tasks : RunCut(t)
  PROVE  StaysDoomed
<1> USE DEF StaysDoomed, Doomed, EndedStatuses
<1>1. CASE Environment
  BY <1>1 DEF Environment, IndexerAccepts, IndexerCancels, DeadlinePasses,
     LateOffer, SubgraphSyncs
<1>2. CASE Proposal
  BY <1>2 DEF Proposal, ProposalStart, ProposalAccepted, ProposalDeclined,
     ProposalDies, MarkRejected, MarkUnresponsive, SetStatusFrom
<1>3. CASE Expire
  BY <1>3 DEF Expire
<1>4. CASE \E o \in OfferJobs : Offer(o)
  BY <1>4 DEF Offer, OfferStart, OfferSends, OfferRereads
<1>5. CASE \E t \in Cancellers : CancelIfLive(t)
  BY <1>5 DEF CancelIfLive, CancelReads, CancelSends, CancelConfirms
<1>6. CASE Crash \/ \E t \in Tasks : RunCut(t)
  BY <1>6 DEF Crash, RunCut
<1> QED BY <1>1, <1>2, <1>3, <1>4, <1>5, <1>6

(* The starter and the retry move a row only from one doomed status to     *)
(* another.                                                                *)
LEMMA CancelsStayDoomed ==
  ASSUME TypeOK, Starter \/ Retry
  PROVE  StaysDoomed
<1> USE DEF StaysDoomed, Doomed, EndedStatuses
<1>a. row \in Rows /\ EraNow \in {1, 2} /\ {} \in SUBSET {"endTx"}
      /\ {"endTx"} \in SUBSET {"endTx"}
  BY DEF TypeOK, EraNow
<1>b. /\ RecordCancel(row, EraNow, {"endTx"}).status = row.status
      /\ RecordCancel(row, EraNow, {}).status = row.status
  BY <1>a, RecordCancelRow
<1>c. RecordCancelCheck(row, "ended").status = row.status
  BY <1>a DEF RecordCancelCheck, Rows
<1>d. row.status \in Doomed => /\ MarkCancelling(row).status \in Doomed
                               /\ MarkAbandoning(row) = row
                               /\ MarkCanceledByRequester(row).status \in Doomed
                               /\ MarkAbandonedByIndexer(row).status \in Doomed
                               /\ ApplyCancel(row, "ByIndexer").status \in Doomed
  BY <1>a DEF MarkCancelling, MarkAbandoning, AbandoningFrom, SetStatusFrom,
     MarkCanceledByRequester, MarkAbandonedByIndexer, ApplyCancel, Rows
<1>e. MarkReplacementQueued(row).status = row.status
  BY <1>a DEF MarkReplacementQueued, Rows
<1>1. CASE Starter
  BY <1>1, <1>b, <1>c, <1>d, <1>e DEF Starter, StartNotWanted, StartAbandoned,
     StarterSteps, StarterPeeks, StarterMarks, StarterRecords, StarterEnds,
     MarkEnded, StarterNotes, StarterReplaces
<1>f. \A ended \in {"unknown", "live", "ended"} :
        RecordCancelCheck(row, ended).status = row.status
  BY <1>a DEF RecordCancelCheck, Rows
<1>2. CASE RetryKeeps
  BY <1>2, <1>f DEF RetryKeeps, RetryNotes
<1>3. CASE Retry /\ ~RetryKeeps
  BY <1>3, <1>b, <1>c, <1>d, <1>e DEF Retry, RetryLists, RetryReadsTime,
     RetryConfirms, RetryRecords, RetryEnds, MarkEnded, RetryRecordsIndexer,
     RetryEndsByIndexer, RetryReplaces
<1> QED BY <1>1, <1>2, <1>3

(* A late accept is applied only to a row that is Created or Expired; the  *)
(* check job reopens an ended row into Cancelling.                         *)
LEMMA ListenerStaysDoomed ==
  ASSUME TypeOK, Listener \/ Check
  PROVE  StaysDoomed
<1> USE DEF StaysDoomed, Doomed, EndedStatuses
<1>a. row \in Rows
  BY DEF TypeOK
<1>b. RecordAccepted(row).status = row.status
  BY <1>a DEF RecordAccepted, Rows
<1>c. RecordAcceptAndCancel(row, 2).status = row.status
  BY <1>a, RecordAcceptAndCancelRow
<1>d. \A m \in {"acceptedSent", "terminatedSent", "expiredSent"} :
        MarkEmitted(row, m).status = row.status
  BY <1>a DEF MarkEmitted, Rows
<1>1. CASE Check
  <2>1. PICK seen \in BOOLEAN : seen = (pc["check"] = "reopening")
    OBVIOUS
  <2>2. row.status \in ReopenFrom =>
          Reopen(row, pc["check"] = "reopening").status = "Cancelling"
    BY <1>a, <2>1, ReopenRow
  <2> QED BY <1>1, <1>b, <2>2 DEF Check, CheckStart, CheckReads, CheckReopens,
       CheckRecords
<1>2. CASE ListenApply
  <2>1. PICK era \in {1, 2} :
          era = IF indexed.state = "withdrawn" THEN 1 ELSE 2
    OBVIOUS
  <2>2. AppliedCancel \in {"ByRequester", "ByIndexer", "none"}
    BY DEF AppliedCancel
  <2>3. row.status \in Doomed => row' = CanceledRow(row, AppliedCancel, era)
    BY <1>2, <2>1 DEF ListenApply, ApplyReconciliation, AcceptFrom,
       CanceledRow, WroteEnd
  <2>4. CanceledRow(row, AppliedCancel, era).status
          = ApplyCancel(row, AppliedCancel).status
    BY <1>a, <2>2, CanceledRowFields
  <2>5. ApplyCancel(row, AppliedCancel).status \in {row.status} \cup Doomed
    BY <1>a, <2>2, ApplyCancelRow
  <2> QED BY <2>3, <2>4, <2>5
<1>3. CASE Listener /\ ~ListenApply
  BY <1>3, <1>b, <1>c, <1>d DEF Listener, ListenerWork, ListenNothing,
     ListenFetch, ListenPrepare, ListenHolds, SweepsNothing, SweepSends,
     MarksTerminated, SweepFails, Kinds, Marker
<1> QED BY <1>1, <1>2, <1>3

(* A cancel is never undone, by whatever comes late.                       *)
THEOREM LifecycleCancelIsFinal == Spec => CancelIsFinal
<1>1. IInv /\ [Next]_vars => [row.status \in EndedStatuses \cup {"Cancelling"}
        => row'.status \in EndedStatuses \cup {"Cancelling"}]_vars
  <2> SUFFICES ASSUME IInv, Next PROVE StaysDoomed
    BY DEF StaysDoomed, Doomed
  <2>1. TypeOK
    BY DEF IInv
  <2> QED BY <2>1, OthersStayDoomed, CancelsStayDoomed, ListenerStaysDoomed
       DEF Next
<1> QED BY <1>1, LifecycleInvariant, PTL DEF Spec, CancelIsFinal

=============================================================================
