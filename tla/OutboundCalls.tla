--------------------------- MODULE OutboundCalls ---------------------------
(***************************************************************************)
(* The calls a job makes to services outside dipper, each with its own     *)
(* timeout and its own retries, under the backstop of the whole job: the   *)
(* IISA client (dipper-iisa/src/http_client.rs), which a reassessment asks *)
(* for the DIPs-accepting set and then for a selection, and the indexer    *)
(* client (indexer_rpc_client.rs), through which a proposal job sends its  *)
(* proposal.  A reassessment that has its selection may still read the     *)
(* chain's clock and end its unpaired agreements on the chain, one after   *)
(* the other.  run_job_with_timeout (worker/service.rs) drops the job when *)
(* the sum outlasts PROCESS_JOB_TIMEOUT; nothing bounds the timeouts and   *)
(* retries of the settings by it, and this module assumes no bound either. *)
(*                                                                         *)
(* A behaviour is one run of one job.  Time is in seconds: an answered     *)
(* attempt takes nothing, half its timeout, or a second less than all of   *)
(* it, and the waits between attempts are those of the code, the IISA ones *)
(* rounded up to a second.                                                 *)
(***************************************************************************)
EXTENDS Naturals

CONSTANTS IisaTimeout, IisaRetries, RpcTimeout, RpcRetries, HandlerBackstop,
          ChainTime,  \* bound: seconds one call to the chain takes at most
          MaxSurplus  \* bound: agreements one reassessment leaves unpaired

ASSUME CallAssumption ==
    /\ {IisaTimeout, RpcTimeout, HandlerBackstop} \subseteq Nat \ {0}
    /\ {IisaRetries, RpcRetries, ChainTime, MaxSurplus} \subseteq Nat

VARIABLES
    ocCall,     \* the call under way
    ocAttempt,  \* its attempt, from 0; of the surplus cancels, those made
    ocWait,     \* a retry is waiting for its delay
    ocElapsed,  \* seconds since the job began
    ocResult,   \* what the run came to
    ocSilent,   \* history: some attempt was never answered
    ocLastSeen  \* history: what the last attempt met

ocVars == <<ocCall, ocAttempt, ocWait, ocElapsed, ocResult, ocSilent, ocLastSeen>>

(***************************************************************************)
(* What one attempt can meet.  The IISA client tells a body that does not  *)
(* parse, or breaks off after the headers, from a request that failed; the *)
(* indexer client tells the transient statuses from the rest, and its own  *)
(* timeout, which surfaces as Cancelled.                                   *)
(***************************************************************************)
IisaMeets == {"selected", "garbledBody", "serverError", "clientError", "unreachable", "silent",
              "unsendable"}
RpcMeets == {"answered", "transientStatus", "permanentStatus", "silent", "badUrl"}

Results == {"running", "done", "retryable", "fatal", "undelivered", "backstop"}

CallsTypeOK ==
    /\ ocCall \in {"dips-indexers", "select-indexers", "chain-clock", "surplus-cancels",
                   "submit-proposal"}
    /\ ocAttempt \in Nat
    /\ ocWait \in BOOLEAN /\ ocSilent \in BOOLEAN
    /\ ocElapsed \in 0..HandlerBackstop
    /\ ocResult \in Results
    /\ ocLastSeen \in IisaMeets \cup RpcMeets \cup {"nothing"}

Iisa == ocCall \in {"dips-indexers", "select-indexers"}
TimeoutOf == IF Iisa THEN IisaTimeout ELSE RpcTimeout

CallsInit ==
    /\ ocCall \in {"dips-indexers", "submit-proposal"}
    /\ ocAttempt = 0 /\ ocWait = FALSE /\ ocElapsed = 0
    /\ ocResult = "running" /\ ocSilent = FALSE /\ ocLastSeen = "nothing"

----------------------------------------------------------------------------
Least(x, y) == IF x < y THEN x ELSE y

(***************************************************************************)
(* calculate_retry_delay: 1, 2, 4 ... capped at 30 seconds for an indexer; *)
(* from 100 milliseconds to 5 seconds, a quarter more or less, for IISA.   *)
(***************************************************************************)
RetryDelay(attempt) ==
    IF Iisa THEN Least(7, 1 + 2 ^ Least(attempt, 6) \div 8) ELSE Least(30, 2 ^ Least(attempt, 5))

\* Mutant: no attempt is the last.
MayRetryAlways == TRUE

\* The loop runs attempts 0 to max_retries.
MayRetryCall == ocAttempt < IF Iisa THEN IisaRetries ELSE RpcRetries

\* Mutant: a service that stays down is an error like any other.
GiveUpFatal(meets) == IF Iisa THEN "fatal" ELSE "undelivered"

(***************************************************************************)
(* What the caller makes of the last error of a call.  The reassessment    *)
(* retries an outage and a rejection after a minute and drops the job on   *)
(* anything else; the proposal job counts the indexer unreached, whatever  *)
(* the status.                                                             *)
(***************************************************************************)
GiveUpCall(meets) ==
    IF ~Iisa THEN "undelivered"
    ELSE IF meets \in {"garbledBody", "unsendable"} THEN "fatal" ELSE "retryable"

\* The next attempt after a wait, or the end of the call.
Retried == {"serverError", "unreachable", "transientStatus"}
                \cup (IF Iisa THEN {"silent"} ELSE {})

(***************************************************************************)
(* A call that ends: with an answer, or with an error.  The fetch of the   *)
(* DIPs-accepting set only switches the breaker off for this pass; a       *)
(* selection is followed by what the pass does on the chain.               *)
(***************************************************************************)
EndCall(meets) ==
    \/ /\ ocCall = "dips-indexers" /\ ocCall' = "select-indexers"
       /\ ocAttempt' = 0 /\ ocWait' = FALSE /\ UNCHANGED ocResult
    \/ /\ ocCall = "select-indexers" /\ meets = "selected" /\ ocCall' = "chain-clock"
       /\ ocAttempt' = 0 /\ ocWait' = FALSE /\ UNCHANGED ocResult
    \/ /\ ocCall = "submit-proposal" \/ (ocCall = "select-indexers" /\ meets # "selected")
       /\ ocResult' = IF meets = "answered" THEN "done" ELSE GiveUpCall(meets)
       /\ UNCHANGED <<ocCall, ocAttempt, ocWait>>

AfterAttempt(meets) ==
    IF meets \in Retried /\ MayRetryCall
    THEN ocWait' = TRUE /\ UNCHANGED <<ocCall, ocAttempt, ocResult>>
    ELSE EndCall(meets)

\* Seconds an attempt takes: a silent one all its timeout.
Lasts(meets) ==
    IF meets = "silent" THEN {TimeoutOf}
    ELSE IF meets \in {"badUrl", "unsendable"} THEN {0}
    ELSE {0, TimeoutOf \div 2, TimeoutOf - 1}

\* The job's clock: past the backstop the job's future is dropped where it stands.
Spend(seconds) ==
    IF ocElapsed + seconds >= HandlerBackstop
    THEN /\ ocElapsed' = HandlerBackstop /\ ocResult' = "backstop"
         /\ UNCHANGED <<ocCall, ocAttempt, ocWait>>
    ELSE ocElapsed' = ocElapsed + seconds

Attempt ==
    /\ ocResult = "running" /\ ~ocWait
    /\ Iisa \/ ocCall = "submit-proposal"
    /\ \E meets \in IF Iisa THEN IisaMeets ELSE RpcMeets : \E s \in Lasts(meets) :
          /\ Spend(s)
          /\ ocElapsed + s < HandlerBackstop => AfterAttempt(meets)
          /\ ocSilent' = (ocSilent \/ meets = "silent")
          /\ ocLastSeen' = meets

WaitRetry ==
    /\ ocResult = "running" /\ ocWait
    /\ LET s == RetryDelay(ocAttempt)
       IN /\ Spend(s)
          /\ ocElapsed + s < HandlerBackstop =>
                /\ ocAttempt' = ocAttempt + 1 /\ ocWait' = FALSE
                /\ UNCHANGED <<ocCall, ocResult>>
    /\ UNCHANGED <<ocSilent, ocLastSeen>>

\* A selection of no candidates is answered without a call.
SelectNone ==
    /\ ocResult = "running" /\ ocCall = "select-indexers" /\ ocAttempt = 0 /\ ~ocWait
    /\ ocCall' = "chain-clock"
    /\ UNCHANGED <<ocAttempt, ocWait, ocElapsed, ocResult, ocSilent, ocLastSeen>>

ChainTakes == {0, ChainTime \div 2, ChainTime}

(***************************************************************************)
(* resolve_deadline_clock: the wall clock, which costs nothing, or the     *)
(* time of the newest block.  When that read fails the listener's stored   *)
(* time stands in, and when that cannot be read either the job is retried. *)
(***************************************************************************)
ReadDeadlineClock ==
    /\ ocResult = "running" /\ ocCall = "chain-clock"
    /\ \E s \in ChainTakes, result \in {"running", "retryable"} :
          /\ Spend(s)
          /\ ocElapsed + s < HandlerBackstop =>
                /\ ocCall' = "surplus-cancels" /\ ocResult' = result
                /\ UNCHANGED <<ocAttempt, ocWait>>
    /\ UNCHANGED <<ocSilent, ocLastSeen>>

(***************************************************************************)
(* cancel_unpaired: an agreement that may be live is read on the chain,    *)
(* canceled there and read again, and the loop goes on whatever came of    *)
(* it; one that cannot be live costs no call.                              *)
(***************************************************************************)
CancelUnpaired ==
    /\ ocResult = "running" /\ ocCall = "surplus-cancels" /\ ocAttempt < MaxSurplus
    /\ \E s \in ChainTakes :
          /\ Spend(s)
          /\ ocElapsed + s < HandlerBackstop =>
                /\ ocAttempt' = ocAttempt + 1
                /\ UNCHANGED <<ocCall, ocWait, ocResult>>
    /\ UNCHANGED <<ocSilent, ocLastSeen>>

\* The pass has nothing to change, or has changed all it had to.
EndReassessment ==
    /\ ocResult = "running" /\ ocCall \in {"chain-clock", "surplus-cancels"}
    /\ ocResult' = "done"
    /\ UNCHANGED <<ocCall, ocAttempt, ocWait, ocElapsed, ocSilent, ocLastSeen>>

CallsNext ==
    \/ Attempt \/ WaitRetry \/ SelectNone
    \/ ReadDeadlineClock \/ CancelUnpaired \/ EndReassessment

CallsSpec == CallsInit /\ [][CallsNext]_ocVars

----------------------------------------------------------------------------
\* The longest one IISA call can take: every attempt silent, 7 seconds a wait.
IisaSpan == (IisaRetries + 1) * IisaTimeout + 7 * IisaRetries

(***************************************************************************)
(* SelectionWithinSpan: however slowly IISA answers or fails to, the first *)
(* call of a reassessment is over after one span and the second after two. *)
(* So the backstop cuts a pass while it asks IISA only under settings      *)
(* whose two spans outlast it (with the defaults they do not); under the   *)
(* others a pass that is cut has its selection, and is cut in its calls to *)
(* the chain.                                                              *)
(***************************************************************************)
SelectionWithinSpan ==
    /\ ocCall = "dips-indexers" => ocElapsed <= IisaSpan
    /\ ocCall = "select-indexers" => ocElapsed <= 2 * IisaSpan
    /\ ocResult = "backstop" /\ Iisa => HandlerBackstop <= 2 * IisaSpan

(***************************************************************************)
(* OutageKeepsJob: the calls of a reassessment drop it for good only when  *)
(* IISA answered with success, or the request could not be sent at all: an *)
(* outage, a rejection and a chain that cannot be read leave the job to be *)
(* retried.                                                                *)
(***************************************************************************)
OutageKeepsJob == ocResult = "fatal" => ocLastSeen \in {"garbledBody", "unsendable"}

(***************************************************************************)
(* BackstopMeansSilence, which fails: the comment on PROCESS_JOB_TIMEOUT   *)
(* says the backstop only fires when a dependency accepts the connection   *)
(* and never responds.  Four answered attempts of an indexer, or two slow  *)
(* cancels on the chain, each within its own timeout, outlast it.          *)
(***************************************************************************)
BackstopMeansSilence == ocResult = "backstop" => ocSilent
============================================================================
