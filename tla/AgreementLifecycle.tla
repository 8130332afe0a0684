------------------------- MODULE AgreementLifecycle --------------------------
(***************************************************************************)
(* One indexing agreement, from its proposal to its end: its registry row, *)
(* the agreement on the chain, the subgraph's delayed copy of it, and      *)
(* every task of the service that acts on it, interleaved at each await:   *)
(*                                                                         *)
(*   "proposal"  the job sending the proposal to the indexer               *)
(*   OfferJobs   the jobs submitting the offer (a re-run proposal job      *)
(*               pushes another one)                                       *)
(*   "starter"   whoever starts a cancel: a reassessment, the fan-out of   *)
(*               an accepted replacement, the orphan sweep (not wanted),   *)
(*               or the liveness checker (abandoned)                       *)
(*   "retry"     the cancel retry service                                  *)
(*   "listener"  the chain listener: drain, then the three event sweeps    *)
(*   "check"     the job checking whether an ended agreement is live       *)
(*                                                                         *)
(* plus the expiration service, whose one write is a single action.        *)
(*                                                                         *)
(* Jobs run at least once (see JobQueue): a job cut off by its timeout, a  *)
(* panic or a crash, or whose removal fails, is queued again. Chain reads  *)
(* and sends, database writes and the event broker may fail. Every such    *)
(* fault counts against MaxFaults, the model's bound.                      *)
(*                                                                         *)
(* Abstractions. Time is the agreement's offer deadline being past or not, *)
(* once for the chain, once for the subgraph's head, once for the          *)
(* timestamp the listener persisted. Pauses (SETTLE_MINUTES, the hourly    *)
(* retry past MAX_CANCEL_ATTEMPTS, LISTENER_GRACE,                         *)
(* TERMINATED_TX_WAIT_MINUTES) may have passed or not whenever they are    *)
(* asked about. Every row has a 32-byte terms hash, so a cancel can be     *)
(* sent. A cancel given up on is mined by then or never. The subgraph      *)
(* never regresses, and moves between two drains; a page holds one         *)
(* agreement; the database answers before a held cursor is given up on;    *)
(* and a broker failure does not pause the sweeps of the next poll. One    *)
(* starter stands for all: nothing leaves Cancelling for a status a cancel *)
(* starts from, so at most one ever passes its mark.                       *)
(***************************************************************************)
EXTENDS AgreementRow

CONSTANTS
  OfferJobs,   \* identities for the submit-offer jobs
  Reasons,     \* the reasons a cancel may start for, a subset of AllReasons
  Topics,      \* the events announced, a subset of Kinds
  Faults,      \* the kinds of fault that happen, a subset of FaultKinds
  MaxFaults    \* bound on the faults of one behaviour

AllReasons == {"NotWanted", "Abandoned"}
Kinds      == {"accepted", "terminated", "expired"}

(* A chain call that fails, a database call that fails, a broker that does *)
(* not answer, and a run cut short, lost in a crash or not settled.        *)
FaultKinds == {"chain", "db", "broker", "job"}

ASSUME LifecycleAssumption ==
  /\ Faults \subseteq FaultKinds
  /\ Reasons \subseteq AllReasons
  /\ Topics \subseteq Kinds
  /\ OfferJobs \cap {"proposal", "starter", "retry", "listener", "check"} = {}
  /\ MaxFaults \in Nat

VARIABLES
  chain,      \* the agreement on the chain, one of ChainStates
  now,        \* the chain's clock against the offer deadline: "open", "past"
  mempool,    \* "offer" while an offer given up on may still be mined
  indexed,    \* the subgraph: the agreement and clock as of its head block
  handled,    \* the agreement state behind the listener's cursor
  listened,   \* the listener's persisted chain time: "open" or "past"
  row,        \* the registry row
  announced,  \* the kinds of event the broker has for the agreement
  pc,         \* where each task is
  starting,   \* whether the starter's copy is AcceptedOnChain; CancelReason
  listed,     \* the retry's copy of the row, and the chain time it read
  saw,        \* the status the listener read from the row
  pushed,     \* "yes" once the listener queued a check for the accept
  faults      \* faults so far

chainVars == <<chain, now, mempool>>
taskVars  == <<starting, listed, saw>>
vars == <<chain, now, mempool, indexed, handled, listened, row, announced, pc,
          starting, listed, saw, pushed, faults>>

Cancellers == OfferJobs \cup {"starter", "retry"}
Tasks      == Cancellers \cup {"proposal", "listener", "check"}

(* "withdrawn" is an offer revoked before any accept.                      *)
ChainStates == {"none", "offered", "withdrawn", "accepted", "endedByPayer",
                "endedByIndexer"}
Clock == {"open", "past"}

(* What the retry's list carries of a row.                                 *)
Listed == {"accepted", "abandoned", "endedSeen"}

(* LiveCancel, what cancel_if_live returns.                                *)
Outcomes == {"NotLive", "ByIndexer", "Ended", "ReadFailed", "Unconfirmed",
             "CancelFailed"}

Pcs == Outcomes \cup
       {"absent", "queued", "done", "idle",
        "asking",                                     \* proposal
        "offering", "rereading",                      \* offer
        "peeking", "marking", "markingLive",          \* starter
        "reading", "sending", "confirming",           \* cancel_if_live
        "recording", "ending", "noting", "replacing", \* starter, retry
        "timing", "recordingIndexer", "endingByIndexer",       \* retry
        "preparing", "prepared",                      \* listener: drain
        "sweepAccepted", "sweepTerminated", "markTerminated",  \* its sweeps
        "sweepExpired",
        "checking", "checkingRejected", "reopening",           \* check
        "reopeningUnread", "recordingAccept"}

TypeOK ==
  /\ chain \in ChainStates
  /\ now \in Clock
  /\ mempool \in {"none", "offer"}
  /\ indexed \in [state : ChainStates, now : Clock]
  /\ handled \in ChainStates
  /\ listened \in Clock
  /\ row \in Rows
  /\ announced \in SUBSET Topics
  /\ pc \in [Tasks -> Pcs]
  /\ starting \in [accepted : {"yes", "no"}, reason : AllReasons]
  /\ listed \in [marks : SUBSET Listed, now : Clock \cup {"unread"}]
  /\ saw \in Statuses
  /\ pushed \in {"yes", "no"}
  /\ faults \in 0 .. MaxFaults

(* What a task keeps in memory lasts as long as its run; at rest:          *)
NoStart  == [accepted |-> "no", reason |-> "NotWanted"]
NoListed == [marks |-> {}, now |-> "unread"]

Init ==
  /\ chain = "none"
  /\ now = "open"
  /\ mempool = "none"
  /\ indexed = [state |-> "none", now |-> "open"]
  /\ handled = "none"
  /\ listened = "open"
  /\ row = NewRow
  /\ announced = {}
  /\ pc = [t \in Tasks |->
             IF t = "proposal" THEN "queued"
             ELSE IF t \in OfferJobs \cup {"check"} THEN "absent" ELSE "idle"]
  /\ starting = NoStart
  /\ listed = NoListed
  /\ saw = "Created"
  /\ pushed = "no"
  /\ faults = 0

-----------------------------------------------------------------------------
(* The chain, the indexer and the subgraph (external).                     *)

ReachedAccepted(c) == c \in {"accepted", "endedByPayer", "endedByIndexer"}

(* still_live and on_chain of the chain client.                            *)
StillLive == chain = "accepted" \/ (chain = "offered" /\ now = "open")

(* Mutant: who ended the agreement is not asked.                           *)
EndedByAnyone == "NotLive"

EndedBy == IF chain = "endedByIndexer" THEN "ByIndexer" ELSE "NotLive"

(* offer() stores an offer unless the agreement was accepted before, and   *)
(* reverts otherwise.                                                      *)
AfterOffer  == IF ReachedAccepted(chain) THEN chain ELSE "offered"

(* The manager's cancel mines even when it has nothing to end.             *)
AfterCancel == CASE chain = "offered"  -> "withdrawn"
                 [] chain = "accepted" -> "endedByPayer"
                 [] OTHER -> chain

(* Whether an end recorded at this moment lies before or after the accept. *)
EraNow == IF ReachedAccepted(chain) THEN 2 ELSE 1

IndexerAccepts ==
  /\ chain = "offered" /\ now = "open"
  /\ chain' = "accepted"
  /\ UNCHANGED <<now, mempool, indexed, handled, listened, row, announced, pc,
                 taskVars, pushed, faults>>

IndexerCancels ==
  /\ chain = "accepted"
  /\ chain' = "endedByIndexer"
  /\ UNCHANGED <<now, mempool, indexed, handled, listened, row, announced, pc,
                 taskVars, pushed, faults>>

DeadlinePasses ==
  /\ now = "open"
  /\ now' = "past"
  /\ UNCHANGED <<chain, mempool, indexed, handled, listened, row, announced,
                 pc, taskVars, pushed, faults>>

(* An offer transaction reported dropped is mined after all.               *)
LateOffer ==
  /\ mempool = "offer"
  /\ mempool' = "none"
  /\ chain' = AfterOffer
  /\ UNCHANGED <<now, indexed, handled, listened, row, announced, pc,
                 taskVars, pushed, faults>>

(* The subgraph catches up between two drains.                             *)
SubgraphSyncs ==
  /\ pc["listener"] \notin {"preparing", "prepared"}
  /\ indexed # [state |-> chain, now |-> now]
  /\ indexed' = [state |-> chain, now |-> now]
  /\ UNCHANGED <<chainVars, handled, listened, row, announced, pc, taskVars,
                 pushed, faults>>

Environment ==
  IndexerAccepts \/ IndexerCancels \/ DeadlinePasses \/ LateOffer
    \/ SubgraphSyncs

-----------------------------------------------------------------------------
Goto(t, l) == pc' = [pc EXCEPT ![t] = l]

Fault(kind) ==
  /\ kind \in Faults
  /\ faults < MaxFaults
  /\ faults' = faults + 1

KeepStarting ==
  starting' = IF pc'["starter"] = "idle" THEN NoStart ELSE starting
KeepListed ==
  listed' = IF pc'["retry"] \in {"idle", "replacing"} THEN NoListed ELSE listed
KeepSaw == saw' = IF pc'["listener"] = "prepared" THEN saw ELSE "Created"

(* A job's handler returned and the job is settled: removed, or, when that *)
(* fails, popped again.                                                    *)
JobEnds(t) ==
  \/ Goto(t, "done") /\ UNCHANGED faults
  \/ Goto(t, "queued") /\ Fault("job")

(* A Retryable result: run again, or given up at the attempt ceiling. The  *)
(* failure behind it is the fault.                                         *)
JobRetries(t) == Fault("chain") /\ (Goto(t, "queued") \/ Goto(t, "done"))

-----------------------------------------------------------------------------
(* send_indexing_agreement_proposal.                                       *)

ProposalStart ==
  /\ pc["proposal"] = "queued"
  /\ IF row.status = "Created"
       THEN Goto("proposal", "asking") /\ UNCHANGED faults
       ELSE JobEnds("proposal")
  /\ UNCHANGED <<chainVars, indexed, handled, listened, row, announced,
                 taskVars, pushed>>

(* The indexer takes the terms: its offer is queued.                       *)
ProposalAccepted(o) ==
  /\ pc["proposal"] = "asking"
  /\ pc[o] = "absent"
  /\ \/ /\ pc' = [pc EXCEPT ![o] = "queued", !["proposal"] = "done"]
        /\ UNCHANGED faults
     \/ /\ pc' = [pc EXCEPT ![o] = "queued", !["proposal"] = "queued"]
        /\ Fault("job")
  /\ UNCHANGED <<chainVars, indexed, handled, listened, row, announced,
                 taskVars, pushed>>

(* It declines, answers nonsense, or cannot be reached. A database error   *)
(* is fatal to the job.                                                    *)
ProposalDeclined ==
  /\ pc["proposal"] = "asking"
  /\ row' \in {MarkRejected(row), MarkUnresponsive(row)}
  /\ JobEnds("proposal")
  /\ UNCHANGED <<chainVars, indexed, handled, listened, announced, taskVars,
                 pushed>>

ProposalDies ==
  /\ pc["proposal"] \in {"queued", "asking"}
  /\ Goto("proposal", "done") /\ Fault("db")
  /\ UNCHANGED <<chainVars, indexed, handled, listened, row, announced,
                 taskVars, pushed>>

Proposal ==
  \/ ProposalStart
  \/ \E o \in OfferJobs : ProposalAccepted(o)
  \/ ProposalDeclined
  \/ ProposalDies

-----------------------------------------------------------------------------
(* cancel_if_live, run by the offer jobs, the starter and the retry.       *)

NotLive == {"NotLive", "ByIndexer", "Ended"}

(* What each caller does with the outcome.                                 *)

(* withdraw_offer_if_stored: the job is done, or Retryable. (A settlement  *)
(* lost after the last read is a run cut at that read.)                    *)
OfferReturns(o, out) ==
  Goto(o, "done") \/ (out \notin NotLive /\ Goto(o, "queued"))

(* Mutant: any answer counts as the cancel having worked.                  *)
StarterReturnsEnded(out) ==
  Goto("starter", IF starting.accepted = "yes" THEN "recording" ELSE "idle")

(* finish_marked_cancel: confirm an accepted agreement this cancel ended.  *)
(* cancel_and_reassess: an abandoned one found not live is noted ended and *)
(* replaced; one that may be live is left to the retry.                    *)
StarterReturns(out) ==
  Goto("starter",
       IF out = "Ended" /\ starting.accepted = "yes" THEN "recording"
       ELSE IF out \in NotLive /\ starting.reason = "Abandoned" THEN "noting"
       ELSE "idle")

Returns(t, out) ==
  /\ \/ t \in OfferJobs /\ OfferReturns(t, out)
     \/ t = "starter" /\ StarterReturns(out)
     \/ t = "retry" /\ Goto(t, out)
  /\ KeepStarting

CancelReads(t) ==
  /\ pc[t] = "reading"
  /\ \/ StillLive /\ Goto(t, "sending") /\ KeepStarting /\ UNCHANGED faults
     \/ ~StillLive /\ Returns(t, EndedBy) /\ UNCHANGED faults
     \/ Returns(t, "ReadFailed") /\ Fault("chain")
  /\ UNCHANGED <<chainVars, indexed, handled, listened, row, announced,
                 listed, saw, pushed>>

(* cancel_agreement_on_chain: the transaction mines, or is reported failed *)
(* whether or not it did anything.                                         *)
CancelSends(t) ==
  /\ pc[t] = "sending"
  /\ \/ /\ chain' = AfterCancel
        /\ Goto(t, "confirming") /\ KeepStarting
        /\ UNCHANGED faults
     \/ /\ chain' \in {chain, AfterCancel}
        /\ Returns(t, "CancelFailed")
        /\ Fault("chain")
  /\ UNCHANGED <<now, mempool, indexed, handled, listened, row, announced,
                 listed, saw, pushed>>

(* The read after the cancel.                                              *)
CancelConfirms(t) ==
  /\ pc[t] = "confirming"
  /\ \/ /\ Returns(t, IF StillLive THEN "CancelFailed"
                      ELSE IF EndedBy = "ByIndexer" THEN "ByIndexer"
                      ELSE "Ended")
        /\ UNCHANGED faults
     \/ Returns(t, "Unconfirmed") /\ Fault("chain")
  /\ UNCHANGED <<chainVars, indexed, handled, listened, row, announced,
                 listed, saw, pushed>>

CancelIfLive(t) == CancelReads(t) \/ CancelSends(t) \/ CancelConfirms(t)

-----------------------------------------------------------------------------
(* submit_offer.                                                           *)

DipperCancelled == row.status \in {"Cancelling", "CanceledByRequester"}

(* next_step; an unreadable row is fatal.                                  *)
OfferStart(o) ==
  /\ pc[o] = "queued"
  /\ \/ row.status = "Created" /\ Goto(o, "offering") /\ UNCHANGED faults
     \/ DipperCancelled /\ Goto(o, "reading") /\ UNCHANGED faults
     \/ row.status # "Created" /\ ~DipperCancelled /\ JobEnds(o)
     \/ Goto(o, "done") /\ Fault("db")
  /\ UNCHANGED <<chainVars, indexed, handled, listened, row, announced,
                 taskVars, pushed>>

(* offer_via_manager: mined; or reverted, which is fatal; or failed, when  *)
(* the transaction may be gone, mined, or still about to be.               *)
OfferSends(o) ==
  /\ pc[o] = "offering"
  /\ \/ /\ ~ReachedAccepted(chain)
        /\ chain' = AfterOffer
        /\ Goto(o, "rereading")
        /\ UNCHANGED <<mempool, faults>>
     \/ /\ JobEnds(o)
        /\ UNCHANGED <<chain, mempool>>
     \/ /\ chain' \in {chain, AfterOffer}
        /\ mempool' \in {mempool, "offer"}
        /\ JobRetries(o)
  /\ UNCHANGED <<now, indexed, handled, listened, row, announced, taskVars,
                 pushed>>

(* update_offer_tx_hash, then cancelled_meanwhile, whose failed read lets  *)
(* the job finish.                                                         *)
OfferRereads(o) ==
  /\ pc[o] = "rereading"
  /\ \/ DipperCancelled /\ Goto(o, "reading") /\ UNCHANGED faults
     \/ ~DipperCancelled /\ JobEnds(o)
     \/ Goto(o, "done") /\ Fault("db")
  /\ UNCHANGED <<chainVars, indexed, handled, listened, row, announced,
                 taskVars, pushed>>

Offer(o) == OfferStart(o) \/ OfferSends(o) \/ OfferRereads(o)

-----------------------------------------------------------------------------
(* start_cancel and its callers.                                           *)

(* A reassessment or the orphan sweep picks an active agreement, an        *)
(* accepted replacement's fan-out picks it in any status; an expired one   *)
(* is read on the chain first. (A row that is past CancellingFrom never    *)
(* comes back to it, so a start from there writes nothing.)                *)
StartNotWanted ==
  /\ pc["starter"] = "idle"
  /\ "NotWanted" \in Reasons
  /\ row.status \in CancellingFrom
  /\ starting' = [accepted |-> IF row.status = "AcceptedOnChain"
                                 THEN "yes" ELSE "no",
                  reason |-> "NotWanted"]
  /\ Goto("starter", IF row.status = "Expired" THEN "peeking" ELSE "marking")
  /\ UNCHANGED <<chainVars, indexed, handled, listened, row, announced,
                 listed, saw, pushed, faults>>

(* The liveness checker gives up on an accepted agreement.                 *)
StartAbandoned ==
  /\ pc["starter"] = "idle"
  /\ "Abandoned" \in Reasons
  /\ row.status = "AcceptedOnChain"
  /\ starting' = [accepted |-> "yes", reason |-> "Abandoned"]
  /\ Goto("starter", "marking")
  /\ UNCHANGED <<chainVars, indexed, handled, listened, row, announced,
                 listed, saw, pushed, faults>>

(* expired_but_live.                                                       *)
StarterPeeks ==
  /\ pc["starter"] = "peeking"
  /\ \/ /\ Goto("starter", IF StillLive THEN "markingLive" ELSE "idle")
        /\ UNCHANGED faults
     \/ Goto("starter", "idle") /\ Fault("chain")
  /\ KeepStarting
  /\ UNCHANGED <<chainVars, indexed, handled, listened, row, announced,
                 listed, saw, pushed>>

(* mark_cancelling: nothing is sent unless the mark was written.           *)
StarterMarks ==
  LET from == IF starting.reason = "Abandoned"
                THEN AbandoningFrom ELSE CancellingFrom
      marked == IF starting.reason = "Abandoned"
                  THEN MarkAbandoning(row) ELSE MarkCancelling(row)
  IN /\ pc["starter"] \in {"marking", "markingLive"}
     /\ \/ /\ row.status \in from
           /\ row' = marked
           /\ Goto("starter", IF pc["starter"] = "marking"
                                THEN "reading" ELSE "sending")
           /\ UNCHANGED faults
        \/ /\ row.status \notin from
           /\ Goto("starter", "idle")
           /\ UNCHANGED <<row, faults>>
        \/ /\ row' \in {row, marked}   \* a mark that fails or lands too late
           /\ Goto("starter", "idle")
           /\ Fault("db")
     /\ KeepStarting
     /\ UNCHANGED <<chainVars, indexed, handled, listened, announced,
                    listed, saw, pushed>>

(* confirm_cancelled, first write: record_cancel, whose failure is logged. *)
StarterRecords ==
  /\ pc["starter"] = "recording"
  /\ \/ row' = RecordCancel(row, EraNow, {"endTx"}) /\ UNCHANGED faults
     \/ UNCHANGED row /\ Fault("db")
  /\ Goto("starter", "ending")
  /\ UNCHANGED <<chainVars, indexed, handled, listened, announced, taskVars,
                 pushed>>

MarkEnded(r, reason) ==
  IF reason = "Abandoned" THEN MarkAbandonedByIndexer(r)
                          ELSE MarkCanceledByRequester(r)

(* Second write: mark_ended; a row the listener already ended counts.      *)
StarterEnds ==
  LET abandoned == starting.reason = "Abandoned"
  IN /\ pc["starter"] = "ending"
     /\ \/ /\ row' = MarkEnded(row, starting.reason)
           /\ Goto("starter", IF abandoned THEN "replacing" ELSE "idle")
           /\ UNCHANGED faults
        \/ /\ UNCHANGED row
           /\ Goto("starter", IF abandoned THEN "noting" ELSE "idle")
           /\ Fault("db")
     /\ KeepStarting
     /\ UNCHANGED <<chainVars, indexed, handled, listened, announced,
                    listed, saw, pushed>>

(* note_seen_ended.                                                        *)
StarterNotes ==
  /\ pc["starter"] = "noting"
  /\ \/ /\ row' = RecordCancelCheck(row, "ended")
        /\ Goto("starter", "replacing")
        /\ UNCHANGED faults
     \/ UNCHANGED row /\ Goto("starter", "idle") /\ Fault("db")
  /\ KeepStarting
  /\ UNCHANGED <<chainVars, indexed, handled, listened, announced, listed, saw,
                 pushed>>

(* replace_abandoned: queue a reassessment, then note it queued; either    *)
(* may fail.                                                               *)
StarterReplaces ==
  /\ pc["starter"] = "replacing"
  /\ \/ row' = MarkReplacementQueued(row) /\ UNCHANGED faults
     \/ UNCHANGED row /\ Fault("db")
  /\ Goto("starter", "idle")
  /\ KeepStarting
  /\ UNCHANGED <<chainVars, indexed, handled, listened, announced, listed, saw,
                 pushed>>

StarterSteps ==
  \/ StarterPeeks
  \/ StarterMarks
  \/ StarterRecords
  \/ StarterEnds
  \/ StarterNotes
  \/ StarterReplaces

Starter == StartNotWanted \/ StartAbandoned \/ StarterSteps

-----------------------------------------------------------------------------
(* The cancel retry.                                                       *)

(* get_cancelling_agreements.                                              *)
RetryLists ==
  /\ pc["retry"] = "idle"
  /\ row.status = "Cancelling"
  /\ listed' = [marks |-> row.marks \cap Listed, now |-> "unread"]
  /\ Goto("retry", IF "accepted" \in row.marks THEN "reading" ELSE "timing")
  /\ UNCHANGED <<chainVars, indexed, handled, listened, row, announced,
                 starting, saw, pushed, faults>>

(* chain_time.                                                             *)
RetryReadsTime ==
  /\ pc["retry"] = "timing"
  /\ \/ listed' = [listed EXCEPT !.now = now] /\ UNCHANGED faults
     \/ UNCHANGED listed /\ Fault("chain")
  /\ Goto("retry", "reading")
  /\ UNCHANGED <<chainVars, indexed, handled, listened, row, announced,
                 starting, saw, pushed>>

(* note_check, the retry's last write for a row left cancelling.           *)
RetryNotes(ended) ==
  /\ \/ row' = RecordCancelCheck(row, ended) /\ UNCHANGED faults
     \/ UNCHANGED row /\ Fault("db")
  /\ Goto("retry", "replacing")

(* Mutant: only a cancel that ended something is confirmed.                *)
CanConfirmEnded(out, pastGrace) ==
  /\ out \in NotLive
  /\ out = "Ended" \/ ("accepted" \in listed.marks /\ pastGrace)
  /\ "accepted" \in listed.marks \/ listed.now = "past"

(* confirm_if_over. LISTENER_GRACE may be over once the copy of the row    *)
(* says the agreement was seen ended.                                      *)
CanConfirm(out, pastGrace) ==
  /\ out \in NotLive
  /\ IF "accepted" \in listed.marks
       THEN out = "Ended" \/ pastGrace
       ELSE listed.now = "past"

(* Time passes LISTENER_GRACE only for an agreement seen ended before.     *)
PastGrace == {FALSE, "endedSeen" \in listed.marks}

RetryConfirms ==
  LET out == pc["retry"]
  IN /\ \E pastGrace \in PastGrace :
          /\ CanConfirm(out, pastGrace)
          /\ out = "ByIndexer" => pastGrace
     /\ Goto("retry", CASE out = "Ended"     -> "recording"
                        [] out = "ByIndexer" -> "recordingIndexer"
                        [] OTHER             -> "ending")
     /\ UNCHANGED <<chainVars, indexed, handled, listened, row, announced,
                    taskVars, pushed, faults>>

RetryKeeps ==
  LET out == pc["retry"]
  IN /\ out \in Outcomes
     /\ \E pastGrace \in PastGrace :
          CanConfirm(out, pastGrace) => out = "ByIndexer" /\ ~pastGrace
     /\ RetryNotes(CASE out \in {"ReadFailed", "Unconfirmed"} -> "unknown"
                     [] out = "CancelFailed" -> "live"
                     [] OTHER -> "ended")
     /\ KeepListed
     /\ UNCHANGED <<chainVars, indexed, handled, listened, announced, starting,
                    saw, pushed>>

RetryRecords ==
  /\ pc["retry"] = "recording"
  /\ \/ row' = RecordCancel(row, EraNow, {"endTx"}) /\ UNCHANGED faults
     \/ UNCHANGED row /\ Fault("db")
  /\ Goto("retry", "ending")
  /\ UNCHANGED <<chainVars, indexed, handled, listened, announced, taskVars,
                 pushed>>

(* The mark fails: the check is noted instead, if it can be.               *)
RetryEnds ==
  LET reason == IF "abandoned" \in listed.marks
                  THEN "Abandoned" ELSE "NotWanted"
  IN /\ pc["retry"] = "ending"
     /\ \/ row' = MarkEnded(row, reason) /\ UNCHANGED faults
        \/ row' = RecordCancelCheck(row, "ended") /\ Fault("db")
     /\ Goto("retry", "replacing")
     /\ KeepListed
     /\ UNCHANGED <<chainVars, indexed, handled, listened, announced,
                    starting, saw, pushed>>

(* record_end_by_indexer: an end without a transaction, then the status.   *)
RetryRecordsIndexer ==
  /\ pc["retry"] = "recordingIndexer"
  /\ \/ /\ row' = RecordCancel(row, EraNow, {})
        /\ Goto("retry", "endingByIndexer")
        /\ UNCHANGED faults
     \/ /\ row' = RecordCancelCheck(row, "ended")
        /\ Goto("retry", "replacing")
        /\ Fault("db")
  /\ KeepListed
  /\ UNCHANGED <<chainVars, indexed, handled, listened, announced, starting,
                 saw, pushed>>

RetryEndsByIndexer ==
  /\ pc["retry"] = "endingByIndexer"
  /\ \/ row' = ApplyCancel(row, "ByIndexer") /\ UNCHANGED faults
     \/ row' = RecordCancelCheck(row, "ended") /\ Fault("db")
  /\ Goto("retry", "replacing")
  /\ KeepListed
  /\ UNCHANGED <<chainVars, indexed, handled, listened, announced, starting,
                 saw, pushed>>

(* replace_ended_abandoned, which ends every sweep, and also one that      *)
(* found nothing cancelling.                                               *)
RetryReplaces ==
  /\ \/ pc["retry"] = "replacing"
     \/ pc["retry"] = "idle" /\ AwaitsReplacement(row)
  /\ \/ /\ row' = IF AwaitsReplacement(row)
                    THEN MarkReplacementQueued(row) ELSE row
        /\ UNCHANGED faults
     \/ UNCHANGED row /\ Fault("db")
  /\ Goto("retry", "idle")
  /\ KeepListed
  /\ UNCHANGED <<chainVars, indexed, handled, listened, announced, starting,
                 saw, pushed>>

Retry ==
  \/ RetryLists
  \/ RetryReadsTime
  \/ RetryConfirms
  \/ RetryKeeps
  \/ RetryRecords
  \/ RetryEnds
  \/ RetryRecordsIndexer
  \/ RetryEndsByIndexer
  \/ RetryReplaces

-----------------------------------------------------------------------------
(* The chain listener: one drain, then the event sweeps.                   *)

(* Where a drain ends.                                                     *)
EventSweeps == IF Topics = {} THEN "idle" ELSE "sweepAccepted"

Later(a, b) == IF "past" \in {a, b} THEN "past" ELSE "open"

EndedButAccepted(c, status) == status \in ReopenFrom /\ c = "accepted"

AcceptedAndEnded(c, status) ==
  status \in EndedStatuses /\ c \in {"endedByPayer", "endedByIndexer"}

PrepareWrites(c, status) ==
  \/ EndedButAccepted(c, status)
  \/ AcceptedAndEnded(c, status)
  \/ status = "Cancelling" /\ ReachedAccepted(c)

(* An empty page still moves the persisted chain time.                     *)
ListenNothing ==
  /\ pc["listener"] = "idle"
  /\ indexed.state = handled
  /\ listened' = Later(listened, indexed.now)
  /\ Goto("listener", EventSweeps)
  /\ UNCHANGED <<chainVars, indexed, handled, row, announced, taskVars,
                 pushed, faults>>

(* get_changed_agreements, then get_indexing_agreements_by_ids (nobody     *)
(* else reads the subgraph, so the two reads are one step). The reorg      *)
(* buffer reads a change again, so the agreement may be in a page whether  *)
(* or not it changed.                                                      *)
ListenFetch ==
  /\ pc["listener"] = "idle"
  /\ saw' = row.status
  /\ Goto("listener", IF PrepareWrites(indexed.state, row.status)
                        THEN "preparing" ELSE "prepared")
  /\ UNCHANGED <<chainVars, indexed, handled, listened, row, announced,
                 starting, listed, pushed, faults>>

(* LiveChecks::queue, once per change. A copy of the job pushed after a    *)
(* restart joins the one still in the queue.                               *)
QueueCheck ==
  /\ pushed' = "yes"
  /\ pc' = [pc EXCEPT !["listener"] = "prepared",
                      !["check"] = IF pushed = "no" /\ @ \in {"absent", "done"}
                                     THEN "queued" ELSE @]

(* prepare_reconciliation's own writes: each by the status read before,    *)
(* whatever the row's status is by now.                                    *)
ListenPrepare ==
  /\ pc["listener"] = "preparing"
  /\ IF EndedButAccepted(indexed.state, saw)
       THEN QueueCheck
       ELSE Goto("listener", "prepared") /\ UNCHANGED pushed
  /\ row' = IF saw = "Cancelling" THEN RecordAccepted(row)
            ELSE IF AcceptedAndEnded(indexed.state, saw)
              THEN RecordAcceptAndCancel(row, 2)
            ELSE row
  /\ UNCHANGED <<chainVars, indexed, handled, listened, announced, taskVars,
                 faults>>

(* The transitions prepare_reconciliation settled on.                      *)
AppliesAccept ==
  saw \in AcceptFrom /\ ReachedAccepted(indexed.state)

AppliedCancel ==
  CASE saw \in EndedStatuses -> "none"
    [] saw \notin EndedStatuses
         /\ indexed.state \in {"withdrawn", "endedByPayer"} -> "ByRequester"
    [] saw \notin EndedStatuses
         /\ indexed.state = "endedByIndexer" -> "ByIndexer"
    [] OTHER -> "none"

(* apply_reconciliation_batch, then update_chain_listener_state, whose     *)
(* failure leaves only the persisted time behind.                          *)
ListenApply ==
  /\ pc["listener"] = "prepared"
  /\ row' = ApplyReconciliation(row, AppliesAccept, AppliedCancel,
                                IF indexed.state = "withdrawn" THEN 1 ELSE 2)
  /\ handled' = indexed.state
  /\ \/ listened' = Later(listened, indexed.now) /\ UNCHANGED faults
     \/ UNCHANGED listened /\ Fault("db")
  /\ Goto("listener", EventSweeps)
  /\ KeepSaw
  /\ UNCHANGED <<chainVars, indexed, announced, starting, listed, pushed>>

(* A change that failed to apply holds the cursor; the persisted chain     *)
(* time moves all the same.                                                *)
ListenHolds ==
  /\ pc["listener"] \in {"preparing", "prepared"}
  /\ listened' = Later(listened, indexed.now)
  /\ Goto("listener", EventSweeps)
  /\ Fault("db")
  /\ KeepSaw
  /\ UNCHANGED <<chainVars, indexed, handled, row, announced, starting,
                 listed, pushed>>

(* run_event_sweeps: the sweep of each kind of event, in this order. Only  *)
(* the sweep's own marker write can be overtaken: `announced` and the      *)
(* markers of the other two kinds are nobody else's.                       *)
Sweep == [accepted |-> "sweepAccepted", terminated |-> "sweepTerminated",
          expired |-> "sweepExpired"]
After == [accepted |-> "sweepTerminated", terminated |-> "sweepExpired",
          expired |-> "idle"]
Marker == [accepted |-> "acceptedSent", terminated |-> "terminatedSent",
           expired |-> "expiredSent"]

Pending(kind, waited) ==
  /\ kind \in Topics
  /\ CASE kind = "accepted"   -> PendingAccepted(row)
       [] kind = "terminated" -> PendingTerminated(row, waited)
       [] OTHER               -> PendingExpired(row)

(* Nothing pending, or a failed query, which counts as an idle sweep: the  *)
(* next one runs.                                                          *)
SweepsNothing(kind) ==
  /\ pc["listener"] = Sweep[kind]
  /\ \/ /\ \E waited \in BOOLEAN : ~Pending(kind, waited)
        /\ UNCHANGED faults
     \/ Fault("db")
  /\ Goto("listener", After[kind])
  /\ UNCHANGED <<chainVars, indexed, handled, listened, row, announced,
                 taskVars, pushed>>

(* The event is sent, then its marker written, which may fail.             *)
SweepSends(kind) ==
  /\ pc["listener"] = Sweep[kind]
  /\ \E waited \in BOOLEAN : Pending(kind, waited)
  /\ announced' = announced \cup {kind}
  /\ \/ /\ kind = "terminated"
        /\ Goto("listener", "markTerminated")
        /\ UNCHANGED <<row, faults>>
     \/ /\ kind # "terminated"
        /\ row' = MarkEmitted(row, Marker[kind])
        /\ Goto("listener", After[kind])
        /\ UNCHANGED faults
     \/ /\ Goto("listener", After[kind])
        /\ UNCHANGED row
        /\ Fault("db")
  /\ UNCHANGED <<chainVars, indexed, handled, listened, taskVars, pushed>>

MarksTerminated ==
  /\ pc["listener"] = "markTerminated"
  /\ row' = MarkEmitted(row, "terminatedSent")
  /\ Goto("listener", After["terminated"])
  /\ UNCHANGED <<chainVars, indexed, handled, listened, announced, taskVars,
                 pushed, faults>>

(* A failed send ends the sweeps of this poll; the broker may have got it. *)
SweepFails(kind) ==
  /\ pc["listener"] = Sweep[kind]
  /\ \E waited \in BOOLEAN : Pending(kind, waited)
  /\ announced' \in {announced, announced \cup {kind}}
  /\ Goto("listener", "idle")
  /\ Fault("broker")
  /\ UNCHANGED <<chainVars, indexed, handled, listened, row, taskVars, pushed>>

ListenerWork ==
  \/ ListenPrepare \/ ListenApply \/ ListenHolds
  \/ \E kind \in Kinds : SweepsNothing(kind) \/ SweepSends(kind)
                           \/ SweepFails(kind)
  \/ MarksTerminated

Listener == ListenNothing \/ ListenFetch \/ ListenerWork

-----------------------------------------------------------------------------
(* cancel_rejected_agreement_on_chain. Every failure defers the job.       *)

CheckStart ==
  /\ pc["check"] = "queued"
  /\ \/ row.status = "Rejected" /\ Goto("check", "checkingRejected")
          /\ UNCHANGED faults
     \/ row.status = "CanceledByRequester" /\ Goto("check", "checking")
          /\ UNCHANGED faults
     \/ row.status = "Cancelling" /\ Goto("check", "recordingAccept")
          /\ UNCHANGED faults
     \/ row.status \notin ReopenFrom \cup {"Cancelling"} /\ JobEnds("check")
  /\ UNCHANGED <<chainVars, indexed, handled, listened, row, announced,
                 taskVars, pushed>>

(* reopen_if_live's read: an unreadable chain reopens an agreement that    *)
(* was rejected and defers one that was cancelled.                         *)
CheckReads ==
  /\ pc["check"] \in {"checking", "checkingRejected"}
  /\ \/ StillLive /\ Goto("check", "reopening") /\ UNCHANGED faults
     \/ ~StillLive /\ JobEnds("check")
     \/ /\ Goto("check", IF pc["check"] = "checkingRejected"
                           THEN "reopeningUnread" ELSE "queued")
        /\ Fault("chain")
  /\ UNCHANGED <<chainVars, indexed, handled, listened, row, announced,
                 taskVars, pushed>>

CheckReopens ==
  /\ pc["check"] \in {"reopening", "reopeningUnread"}
  /\ \/ /\ row.status \in ReopenFrom
        /\ row' = Reopen(row, pc["check"] = "reopening")
        /\ Goto("check", "recordingAccept")
        /\ UNCHANGED faults
     \/ row.status \notin ReopenFrom /\ UNCHANGED row /\ JobEnds("check")
     \/ UNCHANGED row /\ Goto("check", "queued") /\ Fault("db")
  /\ UNCHANGED <<chainVars, indexed, handled, listened, announced, taskVars,
                 pushed>>

CheckRecords ==
  /\ pc["check"] = "recordingAccept"
  /\ \/ row' = RecordAccepted(row) /\ JobEnds("check")
     \/ UNCHANGED row /\ Goto("check", "queued") /\ Fault("db")
  /\ UNCHANGED <<chainVars, indexed, handled, listened, announced, taskVars,
                 pushed>>

Check == CheckStart \/ CheckReads \/ CheckReopens \/ CheckRecords

-----------------------------------------------------------------------------
(* The expiration service, by the listener's persisted chain time.         *)
Expire ==
  /\ listened = "past"
  /\ row.status = "Created"
  /\ row' = MarkExpired(row)
  /\ UNCHANGED <<chainVars, indexed, handled, listened, announced, pc,
                 taskVars, pushed, faults>>

-----------------------------------------------------------------------------
(* A run cut off by its timeout, a panic or a crash. A transaction it was  *)
(* waiting for may have been mined, or, for an offer, still be about to.   *)

Restartable == OfferJobs \cup {"proposal", "check"}
Resting     == {"absent", "queued", "done", "idle"}

InFlight(S) ==
  /\ chain' \in {chain}
       \cup {AfterOffer : t \in {t \in S \cap OfferJobs : pc[t] = "offering"}}
       \cup {AfterCancel : t \in {t \in S \cap Cancellers : pc[t] = "sending"}}
  /\ mempool' \in {mempool}
       \cup {"offer" : t \in {t \in S \cap OfferJobs : pc[t] = "offering"}}

AfterCut(t) == IF pc[t] \in Resting THEN pc[t]
               ELSE IF t \in Restartable THEN "queued" ELSE "idle"

RunCut(t) ==
  /\ t \in Restartable \cup {"starter"}
  /\ pc[t] \notin Resting
  /\ pc' = [pc EXCEPT ![t] = AfterCut(t)]
  /\ KeepStarting
  /\ InFlight({t})
  /\ Fault("job")
  /\ UNCHANGED <<now, indexed, handled, listened, row, announced, listed,
                 saw, pushed>>

(* The process dies and is started again.                                  *)
Crash ==
  /\ pc' = [t \in Tasks |-> AfterCut(t)]
  /\ KeepStarting /\ KeepListed /\ KeepSaw
  /\ pushed' = "no"
  /\ InFlight(Tasks)
  /\ Fault("job")
  /\ UNCHANGED <<now, indexed, handled, listened, row, announced>>

-----------------------------------------------------------------------------
Next ==
  \/ Environment
  \/ Proposal
  \/ \E o \in OfferJobs : Offer(o)
  \/ \E t \in Cancellers : CancelIfLive(t)
  \/ Starter
  \/ Retry
  \/ Listener
  \/ Check
  \/ Expire
  \/ \E t \in Tasks : RunCut(t)
  \/ Crash

Spec == Init /\ [][Next]_vars

(* Every task keeps running: the worker, the retry's and the expiration    *)
(* service's timers and the listener's poll are endless loops, and the     *)
(* agreement's last change stays in the reorg buffer, so polls go on       *)
(* reading it. Time passes, the subgraph follows the chain, LISTENER_GRACE *)
(* runs out for an agreement every check finds ended, and                  *)
(* TERMINATED_TX_WAIT_MINUTES for one that stays ended. The indexer owes   *)
(* nothing, and no cancel need be started.                                 *)
Fairness ==
  /\ WF_vars(DeadlinePasses) /\ SF_vars(SubgraphSyncs)
  /\ WF_vars(Proposal)
  /\ \A o \in OfferJobs : WF_vars(Offer(o) \/ CancelIfLive(o))
  /\ WF_vars(StarterSteps \/ CancelIfLive("starter"))
  /\ WF_vars(Retry \/ CancelIfLive("retry")) /\ SF_vars(RetryConfirms)
  /\ WF_vars(ListenerWork) /\ SF_vars(ListenFetch)
  /\ SF_vars(SweepSends("terminated"))
  /\ WF_vars(Check)
  /\ WF_vars(Expire)

FairSpec == Spec /\ Fairness

-----------------------------------------------------------------------------
(* Properties.                                                             *)

(* The row blames the party that ended the agreement: abandoned by the     *)
(* indexer only when dipper's cancel ended it, cancelled by the indexer    *)
(* only when the indexer did. Cancels race the indexer's own, and the      *)
(* listener and the retry decide from a copy of the row.                   *)
BlameIsTrue ==
  /\ row.status = "AbandonedByIndexer" => chain = "endedByPayer"
  /\ row.status = "CanceledByIndexer" => chain = "endedByIndexer"

(* An agreement on record as accepted and as ended is not live: nothing    *)
(* pays an indexer behind a row no task looks at again.                    *)
EndedIsOver ==
  row.status \in EndedStatuses /\ "accepted" \in row.marks => ~StillLive

(* Consumers are told the truth: an announced accept happened, and an      *)
(* agreement announced terminated has ended for good.                      *)
AnnouncementsAreTrue ==
  /\ "accepted" \in announced => ReachedAccepted(chain)
  /\ "terminated" \in announced => chain \in {"endedByPayer", "endedByIndexer"}

(* The slot of an abandoned agreement is not given to a replacement while  *)
(* its indexer can still be paid.                                          *)
SlotHeldWhileLive ==
  "abandoned" \in row.marks /\ ~HoldsSlot(row) => ~StillLive

(* A cancel is never undone: once dipper is cancelling or has ended an     *)
(* agreement, no late accept, expiry or proposal result makes it active.   *)
CancelIsFinal ==
  [][row.status \in EndedStatuses \cup {"Cancelling"} =>
       row'.status \in EndedStatuses \cup {"Cancelling"}]_vars

(* A cancel that was started ends, however the offer, the accept, the      *)
(* indexer's cancel and the listener interleave with it.                   *)
CancelEnds == row.status = "Cancelling" ~> row.status \in EndedStatuses

(* An agreement dipper rejected or cancelled that goes live all the same   *)
(* is found and ended.                                                     *)
ZombieEnds ==
  chain = "accepted" /\ row.status \in {"CanceledByRequester", "Rejected"}
    ~> ~StillLive

(* An announced accept is followed by the announcement of its end.         *)
EndIsAnnounced ==
  "accepted" \in announced /\ chain \in {"endedByPayer", "endedByIndexer"}
    ~> "terminated" \in announced

(* sweep_pending_expired_events: "a premature `expired` never contradicts  *)
(* a subsequent `accepted`".                                               *)
ExpiredNeverContradicted ==
  [][announced' # announced /\ "accepted" \in announced' \ announced =>
       "expired" \notin announced]_vars

(* run_event_sweeps: "`accepted` must lead".                               *)
AcceptedLeads ==
  [][announced' # announced /\ "terminated" \in announced' \ announced =>
       "accepted" \in announced]_vars

(* prepare_reconciliation: "a Rejected agreement should never reach        *)
(* Accepted".                                                              *)
RejectedNeverAccepted == row.status = "Rejected" => chain # "accepted"

=============================================================================
