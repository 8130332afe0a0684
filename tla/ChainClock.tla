----------------------------- MODULE ChainClock ------------------------------
(***************************************************************************)
(* The chain time dipper keeps: the timestamp the chain listener takes     *)
(* from the subgraph's answers and stores (chain_listener.rs drain_once,   *)
(* apply_chain_ts_drift_cap; chain_events.rs check_subgraph_skew), and the *)
(* expiry the expiration service decides by it (expiration.rs).            *)
(*                                                                         *)
(* The environment: time passes, the machine's clock is set back, and the  *)
(* subgraph reports a timestamp that is right, behind, missing or far      *)
(* ahead. bypass_chain_clock_defenses is false, as it must be outside a    *)
(* local network.                                                          *)
(***************************************************************************)
EXTENDS Integers

CONSTANTS
  SkewTolerance,   \* wall_clock_skew_tolerance_secs
  DriftTolerance,  \* chain_ts_drift_tolerance_secs
  AcceptBy,        \* the deadline of the proposal that waits
  ExpiryGrace,     \* the grace the expiration service adds
  ClockEnd,        \* bound on time
  ClockFaults      \* bound on bad reports, failed writes, restarts, clock steps

ASSUME ClockAssumption ==
  /\ {SkewTolerance, DriftTolerance, AcceptBy, ExpiryGrace, ClockEnd, ClockFaults}
       \subseteq Nat
  /\ ClockEnd > 0  \* time starts at 1

VARIABLES
  ckTime,    \* the time, which the chain's latest block carries
  ckSlow,    \* how far the machine's clock is behind it
  ckFetched, \* the answer being handled: its timestamp
  ckAt,      \* "idle", or "apply": the answer's page is being applied
  ckMem,     \* last_persisted_timestamp; 0: None
  ckStored,  \* last_processed_block_timestamp; 0: NULL
  ckExpired, \* the proposal was marked Expired
  ckFaults   \* faults so far (bounds the model)

clockVars == <<ckTime, ckSlow, ckFetched, ckAt, ckMem, ckStored, ckExpired, ckFaults>>

Wall  == ckTime - ckSlow
Times == 0 .. 3 * ClockEnd + SkewTolerance + DriftTolerance

ClockTypeOK ==
  /\ ckTime \in 1 .. ClockEnd /\ ckSlow \in 0 .. ClockEnd
  /\ ckFetched \in Times /\ ckMem \in Times /\ ckStored \in Times
  /\ ckAt \in {"idle", "apply"}
  /\ ckExpired \in BOOLEAN
  /\ ckFaults \in 0 .. ClockFaults

ClockInit ==
  /\ ckTime = 1 /\ ckSlow = 0
  /\ ckFetched = 0 /\ ckAt = "idle" /\ ckMem = 0 /\ ckStored = 0
  /\ ckExpired = FALSE /\ ckFaults = 0

ClockFault(n) == ckFaults + n <= ClockFaults /\ ckFaults' = ckFaults + n

Passes ==
  /\ ckTime < ClockEnd
  /\ ckTime' = ckTime + 1
  /\ UNCHANGED <<ckSlow, ckFetched, ckAt, ckMem, ckStored, ckExpired, ckFaults>>

(* The machine's clock is set back, or right again.                        *)
StepClock ==
  /\ ClockFault(1)
  /\ ckSlow' \in (0 .. ckTime - 1) \ {ckSlow}
  /\ UNCHANGED <<ckTime, ckFetched, ckAt, ckMem, ckStored, ckExpired>>

(* check_subgraph_skew.                                                    *)
SkewOk(ts) == ts <= Wall + SkewTolerance

(* A page is fetched: right, or under a fault behind, without a timestamp  *)
(* or ahead. One too far ahead is dropped with its page.                   *)
FetchTime ==
  /\ ckAt = "idle"
  /\ \E ts \in {0} \cup 1 .. 2 * ClockEnd :
       /\ ClockFault(IF ts = ckTime THEN 0 ELSE 1)
       /\ IF SkewOk(ts) THEN ckAt' = "apply" /\ ckFetched' = ts
          ELSE UNCHANGED <<ckAt, ckFetched>>
  /\ UNCHANGED <<ckTime, ckSlow, ckMem, ckStored, ckExpired>>

(* Mutant: the timestamp is taken as it comes.                             *)
DriftCapNone(ts, cached) == ts

(* Mutant: the cap counts from the stored time.                            *)
DriftCapFromStored(ts, cached) ==
  IF ts <= cached + DriftTolerance THEN ts ELSE cached + DriftTolerance

(* apply_chain_ts_drift_cap.                                               *)
DriftCap(ts, cached) ==
  LET allowed == Wall + DriftTolerance
  IN IF ts <= allowed THEN ts
     ELSE IF allowed >= cached THEN allowed ELSE cached

(* Mutant: the timestamp follows the subgraph back.                        *)
RatchetFollows(ts) == IF ts = 0 THEN ckMem ELSE DriftCap(ts, ckMem)

(* ratchet_timestamp: never below the one last stored.                     *)
Ratchet(ts) == IF ts = 0 \/ ts < ckMem THEN ckMem ELSE DriftCap(ts, ckMem)

(* The page is applied and its timestamp stored, if it changed; the one in *)
(* memory follows only a write that succeeds.                              *)
StoreTime ==
  /\ ckAt = "apply"
  /\ \/ /\ ckMem' = Ratchet(ckFetched) /\ ckStored' = Ratchet(ckFetched)
        /\ UNCHANGED ckFaults
     \/ ClockFault(1) /\ UNCHANGED <<ckMem, ckStored>>
  /\ ckAt' = "idle" /\ ckFetched' = 0
  /\ UNCHANGED <<ckTime, ckSlow, ckExpired>>

(* The listener starts again from the stored timestamp.                    *)
RestartClock ==
  /\ ClockFault(1)
  /\ ckAt' = "idle" /\ ckFetched' = 0
  /\ ckMem' = ckStored
  /\ UNCHANGED <<ckTime, ckSlow, ckStored, ckExpired>>

(* The expiration service's scan: without a chain time nothing expires.    *)
Expire ==
  /\ ckStored > 0 /\ ~ckExpired
  /\ AcceptBy + ExpiryGrace < ckStored
  /\ ckExpired' = TRUE
  /\ UNCHANGED <<ckTime, ckSlow, ckFetched, ckAt, ckMem, ckStored, ckFaults>>

ClockNext ==
  Passes \/ StepClock \/ FetchTime \/ StoreTime \/ RestartClock \/ Expire

ClockSpec == ClockInit /\ [][ClockNext]_clockVars

-----------------------------------------------------------------------------
(* NotExpiredEarly. Whatever timestamps the subgraph reports, the chain    *)
(* time dipper stores is never further ahead of the time than the drift    *)
(* tolerance, so that a proposal is not expired while more than that is    *)
(* left of its deadline and grace.                                         *)
NotExpiredEarly ==
  /\ ckStored <= ckTime + DriftTolerance
  /\ ckExpired => AcceptBy + ExpiryGrace < ckTime + DriftTolerance

(* ClockForward. A subgraph that was rolled back, a failed write, a clock  *)
(* set back and a restart never take the stored chain time back: what      *)
(* expired by it stays past its deadline.                                  *)
ClockForward == ckStored' >= ckStored

(* ClockCatchesUp. One right answer, stored under a right clock, brings    *)
(* the stored time up to the chain's however far it was behind.            *)
ClockCatchesUp ==
  /\ ckAt = "apply" /\ ckAt' = "idle" /\ ckFetched = ckTime /\ ckSlow = 0
  /\ ckFaults' = ckFaults
  => ckStored' >= ckTime
=============================================================================
