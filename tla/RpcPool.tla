------------------------------ MODULE RpcPool --------------------------------
(***************************************************************************)
(* The RPC provider pool (chain_client/rpc_provider.rs): several endpoints *)
(* used as one. A call walks the ring of endpoints from wherever the       *)
(* shared index points, asks each up to max_retries + 1 times, and gives   *)
(* up when it has asked them all. Calls run concurrently and every one     *)
(* that leaves an endpoint moves the shared index on.                      *)
(*                                                                         *)
(* An endpoint's answer is one of: "ok"; "retryable" (a fault worth        *)
(* another go, a timeout included); "behind" (refused, as its latest block *)
(* is older than one already seen); "refused" (the contract rejects the    *)
(* call: gas estimation names it); "final" (any other error). Time is in   *)
(* seconds and counts what a walk may spend: on each attempt none or all   *)
(* of its requests' timeouts, and the pauses between attempts. An attempt  *)
(* makes one request, or two: a read at a seen block asks for the block    *)
(* first, and the gas price is a block's base fee and a priority fee.      *)
(***************************************************************************)
EXTENDS Integers, FiniteSetsExt

CONSTANTS
  PoolCalls,       \* concurrent calls
  Endpoints,       \* number of endpoints
  Down,            \* positions of the endpoints that never answer
  RequestTimeout,  \* request_timeout
  MaxRetries,      \* max_retries
  MaxRotations     \* bound on the shared index

ASSUME PoolAssumption ==
  /\ Endpoints \in Nat \ {0}
  /\ Down \subseteq 0 .. Endpoints - 1
  /\ {RequestTimeout, MaxRetries, MaxRotations} \subseteq Nat

VARIABLES
  current,  \* current_index
  walk      \* [call -> the locals of execute_with_retries and ask_endpoint]

poolVars == <<current, walk>>

Ring  == 0 .. Endpoints - 1
LagRetries == 2

Idle ==
  [at |-> "idle", start |-> 0, tried |-> 0, attempt |-> 0, lag |-> 0,
   asked |-> {}, named |-> FALSE, requests |-> 1, spent |-> 0]

PoolTypeOK ==
  /\ current \in 0 .. MaxRotations
  /\ walk \in [PoolCalls ->
       [at : {"idle", "asking", "ok", "named", "failed"},
        start : 0 .. MaxRotations, tried : 0 .. Endpoints,
        attempt : 0 .. MaxRetries, lag : 0 .. LagRetries,
        asked : SUBSET Ring, named : BOOLEAN, requests : {1, 2}, spent : Nat]]

PoolInit == current = 0 /\ walk = [c \in PoolCalls |-> Idle]

-----------------------------------------------------------------------------
(* 1 s, 2 s, 4 s, ... capped at 30 s.                                      *)
BackoffDelay(attempt) == Min({2 ^ Min({attempt, 5}), 30})

(* The pauses before the first n retries.                                  *)
Backoffs[n \in 0 .. MaxRetries] ==
  IF n = 0 THEN 0 ELSE Backoffs[n - 1] + BackoffDelay(n - 1)

BackoffSum == Backoffs[MaxRetries]

(* Mutant: the retries are counted and the first attempt is not.           *)
WorstCaseWalkShort == (RequestTimeout * MaxRetries + BackoffSum) * Endpoints

(* The longest a walk of the ring can take, as `new` works it out.         *)
WorstCaseWalk ==
  (RequestTimeout * (MaxRetries + 1) + BackoffSum) * Endpoints

(* A call starts where the pool points, with the closure it was given.     *)
StartCall(c) ==
  /\ walk[c].at = "idle"
  /\ \E n \in {1, 2} :
       walk' = [walk EXCEPT ![c] = [Idle EXCEPT !.at = "asking", !.start = current,
                                                !.requests = n]]
  /\ UNCHANGED current

(* Mutant: the place is worked out from the shared index each time.        *)
PositionShared(c) == (current + walk[c].tried) % Endpoints

(* A walk goes by its own offset, whatever others do to the index.         *)
Position(c) == (walk[c].start + walk[c].tried) % Endpoints

(* The longest an attempt takes: every request has the client's timeout.   *)
AttemptTime(requests) == RequestTimeout * requests

(* The endpoint is asked, and has taken its time by the end of it.         *)
Asked(c, took) ==
  [walk[c] EXCEPT !.asked = @ \cup {Position(c)}, !.spent = @ + took]

(* The endpoint answers.                                                   *)
Answered(c, took) ==
  /\ Position(c) \notin Down
  /\ walk' = [walk EXCEPT ![c] = [Asked(c, took) EXCEPT !.at = "ok"]]
  /\ UNCHANGED current

(* An endpoint behind a block already seen gets quick retries.             *)
AsksLagging(c, took) ==
  /\ walk[c].lag < LagRetries /\ walk[c].attempt < MaxRetries
  /\ Position(c) \notin Down
  /\ walk' = [walk EXCEPT ![c] =
                [Asked(c, took) EXCEPT !.lag = @ + 1, !.attempt = @ + 1,
                                       !.spent = @ + 1]]
  /\ UNCHANGED current

(* Mutant: a retry more than configured.                                   *)
MayRetryOnceMore(c) == walk[c].attempt <= MaxRetries

MayRetry(c) == walk[c].attempt < MaxRetries

(* A fault worth another go backs off and asks again.                      *)
RetriesEndpoint(c, took) ==
  /\ MayRetry(c)
  /\ walk' = [walk EXCEPT ![c] =
                [Asked(c, took) EXCEPT !.attempt = @ + 1,
                   !.spent = @ + BackoffDelay(walk[c].attempt)]]
  /\ UNCHANGED current

(* Mutant: a refusal is forgotten when the next endpoint fails otherwise.  *)
NamedLast(c, refused) == refused

(* The first refusal the contract named is kept.                           *)
Named(c, refused) == walk[c].named \/ refused

(* The endpoint is given up: a fault no retry is left for, one not worth a *)
(* retry, or a refusal. The call ends when it was the last, and otherwise  *)
(* moves on, and the shared index with it.                                 *)
LeavesEndpoint(c, took, refused) ==
  LET w == [Asked(c, took) EXCEPT !.tried = @ + 1, !.attempt = 0, !.lag = 0,
                                  !.named = Named(c, refused)]
  IN /\ refused => Position(c) \notin Down
     /\ IF w.tried >= Endpoints
        THEN /\ walk' = [walk EXCEPT ![c] =
                           [w EXCEPT !.at = IF w.named THEN "named" ELSE "failed"]]
             /\ UNCHANGED current
        ELSE /\ walk' = [walk EXCEPT ![c] = w]
             /\ current < MaxRotations
             /\ current' = current + 1

Ask(c) ==
  /\ walk[c].at = "asking"
  /\ \E took \in {0, AttemptTime(walk[c].requests)} :
       \/ Answered(c, took)
       \/ AsksLagging(c, took)
       \/ RetriesEndpoint(c, took)
       \/ \E refused \in BOOLEAN : LeavesEndpoint(c, took, refused)

(* The caller has its result, and makes its next call.                     *)
CallReturns(c) ==
  /\ walk[c].at \in {"ok", "named", "failed"}
  /\ walk' = [walk EXCEPT ![c] = Idle]
  /\ UNCHANGED current

PoolNext == \E c \in PoolCalls : StartCall(c) \/ Ask(c) \/ CallReturns(c)

-----------------------------------------------------------------------------
(* WalksTheWholeRing. A call gives up only after every endpoint was asked, *)
(* whatever other calls did to the shared index meanwhile: it never misses *)
(* the healthy one by going back to one it already tried.                  *)
WalksTheWholeRing ==
  \A c \in PoolCalls : walk[c].at \in {"named", "failed"} => walk[c].asked = Ring

(* RefusalNamed. A contract's refusal met on the walk is what the caller   *)
(* is told, whatever the endpoints after it said.                          *)
RefusalNamed ==
  \A c \in PoolCalls : walk[c].named /\ walk[c].at = "asking" => walk'[c].at # "failed"

(* What the retries of every endpoint may take with so many requests each. *)
WalkBudget(requests) ==
  (AttemptTime(requests) * (MaxRetries + 1) + BackoffSum) * Endpoints

(* WalkWithinBudget. A walk of one request an attempt, as the two under    *)
(* submit_lock are (the nonce and the send), takes no longer than the      *)
(* worst case `new` works out, from which the submission deadline is       *)
(* derived: the deadline never pre-empts a retry the configuration allows. *)
(* A walk of two takes at most as much more as the second request may.     *)
WalkWithinBudget ==
  \A c \in PoolCalls :
    /\ walk[c].requests = 1 => walk[c].spent <= WorstCaseWalk
    /\ walk[c].spent <= WalkBudget(walk[c].requests)

(* LongestWalk. The worst case is the longest one walk of the ring can     *)
(* take (the comment on worst_case_walk).                                  *)
LongestWalk == \A c \in PoolCalls : walk[c].spent <= WorstCaseWalk
=============================================================================
