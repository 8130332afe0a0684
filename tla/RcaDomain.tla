----------------------------- MODULE RcaDomain -----------------------------
(***************************************************************************)
(* The EIP-712 domain of the RecurringCollector, under which dipper signs  *)
(* every proposal and hashes the terms it stores for the cancel path, while*)
(* the contract may be upgraded in place behind its proxy                  *)
(* (chain_client/eip5267.rs, network/service/domain_refresh.rs,            *)
(* indexer_rpc_client.rs, compute_terms_version_hash in                    *)
(* worker/handlers/reassess_indexing_request.rs, cancel_dispatch.rs).      *)
(*                                                                         *)
(* The domain is read at startup, shared by the handlers, and replaced by  *)
(* a background task that reads it again on a timer.  An agreement meets   *)
(* it three times: when it is planned, and the row stores the hash of its  *)
(* terms; when its proposal is signed; and, on the contract's side, when   *)
(* its offer is mined and the collector stores a hash of its own, which a  *)
(* cancel must name.                                                       *)
(*                                                                         *)
(* A domain is the number of the upgrade that brought it and the shape of  *)
(* the report; a hash or a signature is the domain it was made under.      *)
(* MaxUpgrades and LaggingReads bound the environment.                     *)
(***************************************************************************)
EXTENDS Naturals

CONSTANTS Rcas, MaxUpgrades, LaggingReads, CallRetries

ASSUME DomainAssumption == {MaxUpgrades, LaggingReads, CallRetries} \subseteq Nat

\* A report dipper can reproduce, and the ways one can be out of its reach.
Shapes == {"plain", "salted", "extended", "unnamed", "elsewhere"}

Domains == [gen : 0..MaxUpgrades, shape : Shapes]

NoHash == [gen |-> 0, shape |-> "none"]

VARIABLES
    rdContract,  \* the domain the contract reports
    rdBefore,    \* the one it reported before, which a lagging node still serves
    rdShared,    \* the domain in use
    rdAt,        \* the refresh task
    rdStop,      \* the stop call
    rdRow,       \* per agreement, where it is and the hash its row stores
    rdSigned,    \* per agreement, the domain its proposal was signed under
    rdTries,     \* per agreement, the attempts its proposal has had
    rdOffer,     \* per agreement, the hash the collector stored for it
    rdApart,     \* history: the domains were apart between plan and offer
    rdLagged

rdVars == <<rdContract, rdBefore, rdShared, rdAt, rdStop, rdRow, rdSigned, rdTries, rdOffer,
            rdApart, rdLagged>>

rdAgreementVars == <<rdRow, rdSigned, rdTries, rdOffer, rdApart>>

RowStates == {"none", "created", "sending", "agreed", "offered", "cancelling", "ended",
              "undelivered", "refused"}

DomainTypeOK ==
    /\ rdContract \in Domains /\ rdBefore \in Domains /\ rdShared \in Domains
    /\ rdAt \in {"waiting", "reading", "stopped"}
    /\ rdStop \in {"none", "sent", "returned"}
    /\ rdRow \in [Rcas -> [at : RowStates, hash : Domains \cup {NoHash}]]
    /\ rdSigned \in [Rcas -> Domains \cup {NoHash}]
    /\ rdTries \in [Rcas -> 0..CallRetries]
    /\ rdOffer \in [Rcas -> Domains \cup {NoHash}]
    /\ rdApart \in [Rcas -> BOOLEAN]
    /\ rdLagged \in 0..LaggingReads

\* Mutant: only the chain id and the contract's address are checked.
DomainFromReportPartly(report) == report.shape # "elsewhere"

(***************************************************************************)
(* What domain_from_report accepts: the four plain fields, no salt, no     *)
(* extension, a name and version of 1 to 256 bytes, and this chain and     *)
(* contract.                                                               *)
(***************************************************************************)
DomainFromReport(report) == report.shape = "plain"

\* Startup fetches the domain and fails on one it cannot reproduce.
DomainInit ==
    /\ rdContract = [gen |-> 0, shape |-> "plain"]
    /\ DomainFromReport(rdContract)
    /\ rdShared = rdContract /\ rdBefore = rdContract
    /\ rdAt = "waiting" /\ rdStop = "none"
    /\ rdRow = [a \in Rcas |-> [at |-> "none", hash |-> NoHash]]
    /\ rdSigned = [a \in Rcas |-> NoHash]
    /\ rdTries = [a \in Rcas |-> 0]
    /\ rdOffer = [a \in Rcas |-> NoHash]
    /\ rdApart = [a \in Rcas |-> FALSE]
    /\ rdLagged = 0

----------------------------------------------------------------------------
\* Outside: the contract behind the proxy is replaced.
Upgrade ==
    /\ rdContract.gen < MaxUpgrades
    /\ \E shape \in Shapes :
          rdContract' = [gen |-> rdContract.gen + 1, shape |-> shape]
    /\ rdBefore' = rdContract
    /\ rdApart' = [a \in Rcas |-> rdApart[a] \/ rdRow[a].at \in {"created", "sending", "agreed"}]
    /\ UNCHANGED <<rdShared, rdAt, rdStop, rdRow, rdSigned, rdTries, rdOffer, rdLagged>>

----------------------------------------------------------------------------
(***************************************************************************)
(* The refresh task: a stop is heard while it waits and while it reads.    *)
(***************************************************************************)
StopRefresh ==
    /\ rdStop = "none"
    /\ rdStop' = "sent"
    /\ UNCHANGED <<rdContract, rdBefore, rdShared, rdAt, rdAgreementVars, rdLagged>>

HearStopRefresh ==
    /\ rdStop = "sent" /\ rdAt # "stopped"
    /\ rdAt' = "stopped" /\ rdStop' = "returned"
    /\ UNCHANGED <<rdContract, rdBefore, rdShared, rdAgreementVars, rdLagged>>

RefreshTick ==
    /\ rdAt = "waiting" /\ rdStop # "sent"
    /\ rdAt' = "reading"
    /\ UNCHANGED <<rdContract, rdBefore, rdShared, rdStop, rdAgreementVars, rdLagged>>

\* Mutant: a refresh that fails ends the task.
AfterRefreshFailureEnds == rdAt' = "stopped"

\* A failed read or a report that does not validate keeps the domain in use.
AfterRefreshFailure == rdAt' = "waiting"

\* refresh_rca_eip712_domain with what a node of the pool answered.
SwapDomain(report) ==
    IF DomainFromReport(report)
    THEN rdShared' = report /\ rdAt' = "waiting"
    ELSE UNCHANGED rdShared /\ AfterRefreshFailure

ReadDomain ==
    /\ rdAt = "reading" /\ rdStop # "sent"
    /\ SwapDomain(rdContract)
    /\ UNCHANGED <<rdContract, rdBefore, rdStop, rdAgreementVars, rdLagged>>

\* A node that lags behind the upgrade, or a read that fails on every node.
ReadStale ==
    /\ rdAt = "reading" /\ rdStop # "sent" /\ rdLagged < LaggingReads
    /\ rdLagged' = rdLagged + 1
    /\ \/ SwapDomain(rdBefore)
       \/ UNCHANGED rdShared /\ AfterRefreshFailure
    /\ UNCHANGED <<rdContract, rdBefore, rdStop, rdAgreementVars>>

----------------------------------------------------------------------------
\* Mutant: the hash is made under the domain of startup.
VersionHashOfStartup == [gen |-> 0, shape |-> "plain"]

\* compute_terms_version_hash: the signing hash under the domain in use.
VersionHash == rdShared

Plan(a) ==
    /\ rdRow[a].at = "none"
    /\ rdRow' = [rdRow EXCEPT ![a] = [at |-> "created", hash |-> VersionHash]]
    /\ rdApart' = [rdApart EXCEPT ![a] = rdShared # rdContract]
    /\ UNCHANGED <<rdContract, rdBefore, rdShared, rdAt, rdStop, rdSigned, rdTries, rdOffer,
                   rdLagged>>

\* build_proposal_request: signed once, however often it is then sent.
SignProposal(a) ==
    /\ rdRow[a].at = "created"
    /\ rdRow' = [rdRow EXCEPT ![a].at = "sending"]
    /\ rdSigned' = [rdSigned EXCEPT ![a] = rdShared]
    /\ UNCHANGED <<rdContract, rdBefore, rdShared, rdAt, rdStop, rdTries, rdOffer, rdApart,
                   rdLagged>>

\* with_retry: a transient status is sent again while retries are left.
SendAgain(a) ==
    /\ rdRow[a].at = "sending" /\ rdTries[a] < CallRetries
    /\ rdTries' = [rdTries EXCEPT ![a] = @ + 1]
    /\ UNCHANGED <<rdContract, rdBefore, rdShared, rdAt, rdStop, rdRow, rdSigned, rdOffer,
                   rdApart, rdLagged>>

\* The last attempt, a status that is not transient, or the request's timeout.
GiveUpProposal(a) ==
    /\ rdRow[a].at = "sending"
    /\ rdRow' = [rdRow EXCEPT ![a].at = "undelivered"]
    /\ UNCHANGED <<rdContract, rdBefore, rdShared, rdAt, rdStop, rdSigned, rdTries, rdOffer,
                   rdApart, rdLagged>>

\* The indexer recovers the signer under the contract's domain.
ProposalAnswered(a) ==
    /\ rdRow[a].at = "sending"
    /\ \E answer \in {"agreed", "refused"} :
          /\ answer = "agreed" => rdSigned[a] = rdContract
          /\ rdRow' = [rdRow EXCEPT ![a].at = answer]
    /\ UNCHANGED <<rdContract, rdBefore, rdShared, rdAt, rdStop, rdSigned, rdTries, rdOffer,
                   rdApart, rdLagged>>

\* The offer carries the terms; the collector hashes them under its own domain.
OfferMined(a) ==
    /\ rdRow[a].at = "agreed"
    /\ rdOffer' = [rdOffer EXCEPT ![a] = rdContract]
    /\ rdRow' = [rdRow EXCEPT ![a].at = "offered"]
    /\ UNCHANGED <<rdContract, rdBefore, rdShared, rdAt, rdStop, rdSigned, rdTries, rdApart,
                   rdLagged>>

StartCancel(a) ==
    /\ rdRow[a].at = "offered"
    /\ rdRow' = [rdRow EXCEPT ![a].at = "cancelling"]
    /\ UNCHANGED <<rdContract, rdBefore, rdShared, rdAt, rdStop, rdSigned, rdTries, rdOffer,
                   rdApart, rdLagged>>

(***************************************************************************)
(* cancel_agreement_on_chain: the cancel mines in any case and the read    *)
(* after it says whether it ended the agreement.  One that names another   *)
(* hash than the stored one does nothing, and the row stays Cancelling for *)
(* the cancel retry.                                                       *)
(***************************************************************************)
CancelMined(a) ==
    /\ rdRow[a].at = "cancelling" /\ rdRow[a].hash = rdOffer[a]
    /\ rdOffer' = [rdOffer EXCEPT ![a] = NoHash]
    /\ rdRow' = [rdRow EXCEPT ![a].at = "ended"]
    /\ UNCHANGED <<rdContract, rdBefore, rdShared, rdAt, rdStop, rdSigned, rdTries, rdApart,
                   rdLagged>>

AgreementStep ==
    \E a \in Rcas :
        \/ Plan(a) \/ SignProposal(a) \/ SendAgain(a) \/ GiveUpProposal(a) \/ ProposalAnswered(a)
        \/ OfferMined(a) \/ StartCancel(a) \/ CancelMined(a)

DomainNext ==
    \/ Upgrade \/ StopRefresh \/ HearStopRefresh \/ RefreshTick \/ ReadDomain \/ ReadStale
    \/ AgreementStep

DomainSpec == DomainInit /\ [][DomainNext]_rdVars

(***************************************************************************)
(* The timer keeps ticking and every read ends within the pool's walk; the *)
(* cancel retry sends the cancels of Cancelling rows on its own timer.     *)
(***************************************************************************)
DomainFairSpec ==
    /\ DomainSpec
    /\ WF_rdVars(RefreshTick) /\ WF_rdVars(ReadDomain)
    /\ \A a \in Rcas : WF_rdVars(CancelMined(a))

----------------------------------------------------------------------------
(***************************************************************************)
(* DomainUsable: whatever the contract behind the proxy reports after an   *)
(* upgrade, the domain proposals are signed and terms hashed under is one  *)
(* dipper can reproduce (domain_from_report refuses the others and the     *)
(* refresh keeps the domain in use).                                       *)
(***************************************************************************)
DomainUsable == rdShared.shape = "plain"

(***************************************************************************)
(* DomainFollows: a running dipper ends up on the domain of the deployed   *)
(* contract, over failed reads and lagging nodes, unless it was stopped or *)
(* the contract's domain is one it cannot reproduce.                       *)
(***************************************************************************)
DomainFollows ==
    <>[](rdStop # "none" \/ rdContract.shape # "plain" \/ rdShared = rdContract)

(***************************************************************************)
(* SteadyTermsCancel: the cancel of an agreement that was planned under    *)
(* the contract's own domain, and whose offer was mined before the next    *)
(* upgrade, ends it, whatever the domain does afterwards.                  *)
(***************************************************************************)
SteadyTermsCancel ==
    \A a \in Rcas : (rdRow[a].at = "cancelling" /\ ~rdApart[a]) ~> (rdRow[a].at = "ended")

(***************************************************************************)
(* StoredHashIsTheCollectors, which fails: the comment on the hash a row   *)
(* stores says it matches the value the collector stores and checks on     *)
(* cancel.  An upgrade between the plan and the offer, or a refresh that   *)
(* has not come yet, leaves the row with a hash no cancel will match.      *)
(***************************************************************************)
StoredHashIsTheCollectors ==
    \A a \in Rcas : rdOffer[a] # NoHash => rdRow[a].hash = rdOffer[a]
============================================================================
