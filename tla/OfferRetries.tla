---------------------------- MODULE OfferRetries ----------------------------
(***************************************************************************)
(* How long a job of the queue goes on: the retry budget it is pushed with *)
(* (worker/service_queue.rs, worker/queue.rs, dipper-pgmq/src/queue.rs),   *)
(* the backoff between its attempts (worker/result.rs), and the ceiling at *)
(* which a failed attempt is its last (requeue in dipper-pgmq's            *)
(* postgres.rs).  The job that submits an offer has a budget of its own,   *)
(* sized so that it outlasts the indexer's window to accept, over two      *)
(* backoffs that differ by the kind of failure; every other job has the    *)
(* queue's default.                                                        *)
(*                                                                         *)
(* A behaviour is the life of one job.  Its clock is in seconds from the   *)
(* push and stops counting past the window.                                *)
(***************************************************************************)
EXTENDS Naturals

CONSTANTS
    Windows,          \* values of deadline_seconds
    RunLengths,       \* seconds an attempt may take
    DroppedBase,      \* DROPPED_TX_RETRY_BASE
    TransientBase,    \* TRANSIENT_RETRY_BASE and JOB_TIMEOUT_RETRY_BASE_DELAY
    LongDelay,        \* the fixed delay after five attempts
    BudgetCap,        \* MAX_RETRIES_PER_WINDOW
    DefaultRetries    \* of the queue

ASSUME RetriesAssumption ==
    /\ Windows \subseteq Nat /\ RunLengths \subseteq Nat
    /\ {DroppedBase, TransientBase, LongDelay, BudgetCap} \subseteq Nat \ {0}
    /\ DefaultRetries \in Nat

Smaller(x, y) == IF x < y THEN x ELSE y

(***************************************************************************)
(* calculate_backoff_delay and retries_within_window.                      *)
(***************************************************************************)
RequeueDelay(base, attempt) == IF attempt < 5 THEN base * 2 ^ attempt ELSE LongDelay

\* The time the first n retries wait.
Waited(base) ==
    LET sum[n \in 0..BudgetCap] == IF n = 0 THEN 0 ELSE sum[n - 1] + RequeueDelay(base, n - 1)
    IN sum

RetriesWithinWindow(window, base) ==
    LET Late == {r \in 0..(BudgetCap - 1) : Waited(base)[r + 1] > window}
    IN IF Late = {} THEN BudgetCap ELSE CHOOSE r \in Late : \A s \in Late : r <= s

\* Mutant: sized on the longer of the two backoffs.
SubmitOfferMaxRetriesLonger(window) ==
    RetriesWithinWindow(window, IF DroppedBase < TransientBase THEN TransientBase ELSE DroppedBase)

\* Sized on the shorter of the two backoffs (worker::service::new).
SubmitOfferMaxRetries(window) ==
    RetriesWithinWindow(window, Smaller(DroppedBase, TransientBase))

----------------------------------------------------------------------------
VARIABLES
    orKind,      \* "submit_offer", or a job with the default budget
    orWindow,    \* the indexer's window to accept
    orJob,       \* the row
    orCount,     \* attempt_count
    orMax,       \* max_attempts
    orClock,     \* seconds since the push, up to the end of the window
    orGaveUp     \* history: the budget ran out, and the clock when it did

orVars == <<orKind, orWindow, orJob, orCount, orMax, orClock, orGaveUp>>

RetriesTypeOK ==
    /\ orKind \in {"submit_offer", "other"}
    /\ orWindow \in Windows
    /\ orJob \in {"pushed", "Queued", "Running", "removed", "Failed"}
    /\ orCount \in 0..orMax
    /\ orMax \in (0..(BudgetCap + 1)) \cup (0..(DefaultRetries + 1))
    /\ orClock \in 0..(orWindow + 1)
    /\ orGaveUp \in BOOLEAN

RetriesInit ==
    /\ orKind \in {"submit_offer", "other"}
    /\ orWindow \in Windows
    /\ orJob = "pushed" /\ orCount = 0 /\ orMax = 0 /\ orClock = 0 /\ orGaveUp = FALSE

\* JobBuilder::max_retries and PgQueue::with_max_retries: one first attempt.
MaxAttemptsOf(retries) == retries + 1

\* The budget a job is pushed with.
RetryBudget == IF orKind = "submit_offer" THEN SubmitOfferMaxRetries(orWindow) ELSE DefaultRetries

PushJob ==
    /\ orJob = "pushed"
    /\ orMax' = MaxAttemptsOf(RetryBudget)
    /\ orJob' = "Queued"
    /\ UNCHANGED <<orKind, orWindow, orCount, orClock, orGaveUp>>

\* A loop pops the job once it is due; the wait for a free loop is a run's.
PopJob ==
    /\ orJob = "Queued"
    /\ orJob' = "Running"
    /\ UNCHANGED <<orKind, orWindow, orCount, orMax, orClock, orGaveUp>>

\* The clock after an attempt of s seconds and the wait that follows it.
ClockAfter(s) == Smaller(orWindow + 1, orClock + s)

\* requeue: a counted attempt fails the job at its ceiling, else it waits.
CountAttempt(s, base) ==
    /\ orCount' = orCount + 1
    /\ IF orCount + 1 >= orMax
       THEN orJob' = "Failed" /\ orGaveUp' = TRUE /\ orClock' = ClockAfter(s)
       ELSE /\ orJob' = "Queued" /\ UNCHANGED orGaveUp
            /\ orClock' = ClockAfter(s + RequeueDelay(base, orCount))

\* An attempt whose transaction was dropped, or that failed otherwise.
AttemptFails ==
    /\ orJob = "Running"
    /\ \E s \in RunLengths, base \in {DroppedBase, TransientBase} : CountAttempt(s, base)
    /\ UNCHANGED <<orKind, orWindow, orMax>>

\* The job was done, or nothing can be (a revert): the row goes.
AttemptEnds ==
    /\ orJob = "Running"
    /\ orJob' = "removed"
    /\ UNCHANGED <<orKind, orWindow, orCount, orMax, orClock, orGaveUp>>

\* A deferral waits without counting an attempt, a minute at a time.
AttemptDefers ==
    /\ orJob = "Running" /\ orKind = "other" /\ orClock <= orWindow
    /\ orJob' = "Queued" /\ orClock' = ClockAfter(60)
    /\ UNCHANGED <<orKind, orWindow, orCount, orMax, orGaveUp>>

RetriesNext == PushJob \/ PopJob \/ AttemptFails \/ AttemptEnds \/ AttemptDefers

RetriesSpec == RetriesInit /\ [][RetriesNext]_orVars

----------------------------------------------------------------------------
(***************************************************************************)
(* BudgetOutlastsWindow: when the retries of an offer submission run out,  *)
(* none that was refused would still have come inside the indexer's window *)
(* to accept, not even after the shorter of its two backoffs, and whichever*)
(* failures the job met in whichever order; unless the window is so long   *)
(* that the cap on the budget decides.                                     *)
(***************************************************************************)
BudgetOutlastsWindow ==
    orKind = "submit_offer" /\ orGaveUp /\ orMax <= BudgetCap =>
        orClock + RequeueDelay(Smaller(DroppedBase, TransientBase), orCount - 1) > orWindow
============================================================================
