---------------------------- MODULE AgreementRow -----------------------------
(***************************************************************************)
(* The row of dipper_reg_indexing_agreements and the UPDATE statements of  *)
(* the registry (dipper-pgregistry/src/postgres.rs), as functions from the *)
(* row a statement finds to the row it leaves. A statement guarded by the  *)
(* row's status is a compare-and-set: it leaves any other row as it is,    *)
(* and the caller learns of it as NoRecordsUpdated.                        *)
(*                                                                         *)
(* A row is a record                                                       *)
(*   status  one of Statuses                                               *)
(*   endEra  canceled_at: 0 NULL, 1 before the on-chain accept, 2 from the *)
(*           accept on. An agreement is accepted at most once, and every   *)
(*           rule about canceled_at only compares it with accepted_at.     *)
(*   marks   the nullable and boolean columns that are set:                *)
(*     "accepted"         accepted_at/accepted_tx                          *)
(*     "endTx"            canceled_tx                                      *)
(*     "abandoned"        abandoned                                        *)
(*     "replacing"        replacement_pending                              *)
(*     "endedSeen"        ended_seen_at                                    *)
(*     "acceptedSent"     accepted_event_emitted_at                        *)
(*     "terminatedSent"   terminated_event_emitted_at                      *)
(*     "expiredSent"      expired_event_emitted_at                         *)
(***************************************************************************)
EXTENDS Naturals

Statuses == {"Created", "Unresponsive", "Rejected", "Expired",
             "AcceptedOnChain", "Cancelling", "CanceledByRequester",
             "CanceledByIndexer", "AbandonedByIndexer"}

Marks == {"accepted", "endTx", "abandoned", "replacing", "endedSeen",
          "acceptedSent", "terminatedSent", "expiredSent"}

Rows == [status : Statuses, endEra : 0 .. 2, marks : SUBSET Marks]

(* The statuses the terminated sweep and prepare_reconciliation treat as   *)
(* ended by a cancel.                                                      *)
EndedStatuses == {"CanceledByRequester", "CanceledByIndexer",
                  "AbandonedByIndexer"}

(* register_new_indexing_agreement.                                        *)
NewRow == [status |-> "Created", endEra |-> 0, marks |-> {}]

(* set_status_from, update_status_from.                                    *)
SetStatusFrom(r, from, to) ==
  IF r.status \in from THEN [r EXCEPT !.status = to] ELSE r

MarkUnresponsive(r) == SetStatusFrom(r, {"Created"}, "Unresponsive")
MarkRejected(r)     == SetStatusFrom(r, {"Created"}, "Rejected")
MarkExpired(r)      == SetStatusFrom(r, {"Created"}, "Expired")

CancelByRequesterFrom ==
  {"Created", "AcceptedOnChain", "Rejected", "Cancelling"}
CancelByIndexerFrom == {"AcceptedOnChain", "Cancelling"}

MarkCanceledByRequester(r) ==
  SetStatusFrom(r, CancelByRequesterFrom, "CanceledByRequester")

(* Mutant: a status name the schema does not have.                         *)
MarkAbandoned(r) == SetStatusFrom(r, {"Cancelling"}, "Abandoned")

MarkAbandonedByIndexer(r) ==
  SetStatusFrom(r, {"Cancelling"}, "AbandonedByIndexer")

(* mark_indexing_agreement_as_cancelling.                                  *)
CancellingFrom == {"Created", "AcceptedOnChain", "Rejected", "Expired"}
MarkCancelling(r) == SetStatusFrom(r, CancellingFrom, "Cancelling")

(* mark_indexing_agreement_as_abandoning.                                  *)
AbandoningFrom == {"AcceptedOnChain"}
MarkAbandoning(r) ==
  IF r.status \in AbandoningFrom
    THEN [r EXCEPT !.status = "Cancelling",
                   !.marks = @ \cup {"abandoned", "replacing"}]
    ELSE r

(* Mutant: only agreements dipper cancelled are checked and reopened.      *)
ReopenFromCanceled == {"CanceledByRequester"}

(* reopen_indexing_agreement_cancel: the end on record, and that it was    *)
(* announced, are dropped only when the chain was read and showed it live. *)
ReopenFrom == {"CanceledByRequester", "Rejected"}
Reopen(r, seenLive) ==
  IF r.status \notin ReopenFrom THEN r
  ELSE IF seenLive
    THEN [r EXCEPT !.status = "Cancelling", !.endEra = 0,
                   !.marks = @ \ {"endedSeen", "endTx", "terminatedSent"}]
    ELSE [r EXCEPT !.status = "Cancelling", !.marks = @ \ {"endedSeen"}]

(* Mutant: a check that could not read the chain counts as one that saw    *)
(* the agreement ended.                                                    *)
RecordCancelCheckGuess(r, ended) ==
  IF r.status # "Cancelling" THEN r
  ELSE IF ended \in {"ended", "unknown"}
    THEN [r EXCEPT !.marks = @ \cup {"endedSeen"}]
  ELSE [r EXCEPT !.marks = @ \ {"endedSeen"}]

(* record_cancel_check: what a check that left the row cancelling saw.     *)
RecordCancelCheck(r, ended) ==
  IF r.status # "Cancelling" \/ ended = "unknown" THEN r
  ELSE IF ended = "ended" THEN [r EXCEPT !.marks = @ \cup {"endedSeen"}]
  ELSE [r EXCEPT !.marks = @ \ {"endedSeen"}]

(* record_accepted_audit, persist_accept_audit.                            *)
RecordAccepted(r) == [r EXCEPT !.marks = @ \cup {"accepted"}]

(* record_cancel_audit. An end from the accept on replaces the end on      *)
(* record whole, and is announced afresh, if that came before the accept   *)
(* or has no transaction while the new one has; otherwise each column      *)
(* keeps what it has. `tx` is {"endTx"} or {}.                             *)
ReplacesEnd(r, era, tx) ==
  /\ "accepted" \in r.marks
  /\ era = 2
  /\ r.endEra = 1 \/ ("endTx" \notin r.marks /\ tx # {})

RecordCancel(r, era, tx) ==
  IF ReplacesEnd(r, era, tx)
    THEN [r EXCEPT !.endEra = era,
                   !.marks = (@ \ {"endTx", "terminatedSent"}) \cup tx]
    ELSE [r EXCEPT !.endEra = IF @ = 0 THEN era ELSE @,
                   !.marks = @ \cup tx]

(* record_accept_and_cancel_audit: the end is judged against the accept    *)
(* recorded with it.                                                       *)
RecordAcceptAndCancel(r, era) ==
  RecordCancel(RecordAccepted(r), era, {"endTx"})

(* Mutant: a late accept also moves an agreement dipper is cancelling.     *)
AcceptFromCancelling == {"Created", "Expired", "Cancelling"}

(* apply_reconciliation: accept, then cancel, in one transaction.          *)
AcceptFrom == {"Created", "Expired"}

ApplyCancel(r, kind) ==
  CASE kind = "ByRequester" ->
         SetStatusFrom(r, CancelByRequesterFrom,
                       IF "abandoned" \in r.marks
                         THEN "AbandonedByIndexer" ELSE "CanceledByRequester")
    [] kind = "ByIndexer" ->
         SetStatusFrom(r, CancelByIndexerFrom, "CanceledByIndexer")
    [] OTHER -> r

(* apply_reconciliation_batch on one item: the same, and the chain's       *)
(* payload is stored with each transition that took place.                 *)
ApplyReconciliation(r, accept, kind, era) ==
  LET accepted ==
        IF accept /\ r.status \in AcceptFrom
          THEN RecordAccepted([r EXCEPT !.status = "AcceptedOnChain"])
          ELSE r
      ended == ApplyCancel(accepted, kind)
  IN IF ended.status # accepted.status
       THEN [ended EXCEPT !.endEra = era, !.marks = @ \cup {"endTx"}]
       ELSE ended

(* mark_replacement_queued.                                                *)
MarkReplacementQueued(r) == [r EXCEPT !.marks = @ \ {"replacing"}]

(* mark_accepted_event_emitted, mark_terminated_event_emitted and          *)
(* mark_expired_event_emitted: no status guard.                            *)
MarkEmitted(r, marker) == [r EXCEPT !.marks = @ \cup {marker}]

(* get_agreements_pending_accepted_emission.                               *)
PendingAccepted(r) ==
  "accepted" \in r.marks /\ "acceptedSent" \notin r.marks

(* Mutant: an agreement is announced terminated once its cancel started.   *)
PendingTerminatedEarly(r, waited) ==
  /\ r.status \in EndedStatuses \cup {"Cancelling"}
  /\ "accepted" \in r.marks
  /\ "terminatedSent" \notin r.marks
  /\ "endTx" \in r.marks \/ waited

(* Mutant: the query forgets one way to end.                               *)
PendingTerminatedOurs(r, waited) ==
  /\ r.status \in EndedStatuses \ {"CanceledByIndexer"}
  /\ "accepted" \in r.marks
  /\ "terminatedSent" \notin r.marks
  /\ "endTx" \in r.marks \/ waited

(* get_agreements_pending_terminated_emission; `waited` says the row has   *)
(* been ended for TERMINATED_TX_WAIT_MINUTES.                              *)
PendingTerminated(r, waited) ==
  /\ r.status \in EndedStatuses
  /\ "accepted" \in r.marks
  /\ "terminatedSent" \notin r.marks
  /\ "endTx" \in r.marks \/ waited

(* get_agreements_pending_expired_emission.                                *)
PendingExpired(r) == r.status = "Expired" /\ "expiredSent" \notin r.marks

(* get_abandoned_indexers_holding_slots.                                   *)
HoldsSlot(r) ==
  r.status = "Cancelling" /\ "replacing" \in r.marks
                          /\ "endedSeen" \notin r.marks

(* get_ended_agreements_awaiting_replacement.                              *)
AwaitsReplacement(r) == "replacing" \in r.marks /\ r.status # "Cancelling"
=============================================================================
