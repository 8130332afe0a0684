---------------------------- MODULE LivenessCheck ----------------------------
(***************************************************************************)
(* The cycles of the liveness checker (network/service/liveness_checker.rs)*)
(* over the agreements the chain shows accepted: the indexers are asked    *)
(* for their progress, and an agreement without any for its tolerance is   *)
(* abandoned, unless so many indexers are unreachable at once that the     *)
(* fault is likely dipper's (UnreachableBreaker). What abandoning does to  *)
(* the agreement is in AgreementLifecycle.                                 *)
(*                                                                         *)
(* One agreement for each indexer, all on one deployment. An indexer       *)
(* serves, is stuck (answers without progress) or is gone; in an outage on *)
(* dipper's side none can be reached. Time counts cycles, of which a day   *)
(* has CyclesPerDay.                                                       *)
(***************************************************************************)
EXTENDS Integers, FiniteSetsExt

CONSTANTS
  Watched,        \* indexers with an accepted agreement
  CyclesPerDay,
  MaxTolerance,   \* max_tolerance_days
  TripPercent,    \* unreachable_trip_fraction, in percent
  TripMin,        \* unreachable_trip_min_indexers
  MaxCycles,      \* bound on time
  LiveFaults      \* bound on failed writes and restarts

ASSUME LivenessAssumption ==
  /\ {CyclesPerDay, MaxTolerance, TripPercent, TripMin, MaxCycles, LiveFaults} \subseteq Nat
  /\ TripPercent \in 1 .. 100 /\ CyclesPerDay > 0
  /\ IsFiniteSet(Watched)

VARIABLES
  cycle,       \* now
  kind,        \* [indexer -> what it is]
  row,         \* [indexer -> its agreement's row]
  trippedSince, \* tripped_since, or NotYet
  quiet,       \* quiet_cycles
  held,        \* [cycle -> where the span held since then ends, or NotYet for no span]
  outage,      \* when the outage began and the good cycles since (ghost)
  liveFaults

liveVars == <<cycle, kind, row, trippedSince, quiet, held, outage, liveFaults>>

NotYet      == -1
ClearCycles == 3
MaxHold     == Max({MaxTolerance, 1}) * CyclesPerDay
NoneHeld    == [from \in 0 .. MaxCycles |-> NotYet]

LivenessTypeOK ==
  /\ cycle \in 0 .. MaxCycles
  /\ kind \in [Watched -> {"serving", "stuck", "gone"}]
  /\ row \in [Watched -> [status : {"accepted", "abandoned"}, height : {NotYet, 0, 1},
                          progressAt : {NotYet} \cup 0 .. MaxCycles]]
  /\ trippedSince \in {NotYet} \cup 0 .. MaxCycles
  /\ quiet \in 0 .. ClearCycles - 1
  /\ held \in [0 .. MaxCycles -> {NotYet} \cup 0 .. MaxCycles]
  /\ outage \in [from : {NotYet} \cup 0 .. MaxCycles, good : 0 .. ClearCycles]
  /\ liveFaults \in 0 .. LiveFaults

LivenessInit ==
  /\ cycle = 0
  /\ kind \in [Watched -> {"serving", "stuck", "gone"}]
  /\ row = [i \in Watched |-> [status |-> "accepted", height |-> NotYet, progressAt |-> NotYet]]
  /\ trippedSince = NotYet /\ quiet = 0 /\ held = NoneHeld
  /\ outage = [from |-> NotYet, good |-> 0]
  /\ liveFaults = 0

-----------------------------------------------------------------------------
(* The breaker.                                                            *)

Accepted == {i \in Watched : row[i].status = "accepted"}

UnreachableTrips(checked, unreachable) ==
  checked > 0 /\ checked >= TripMin /\ unreachable * 100 >= TripPercent * checked

(* note_trip and note_quiet_cycle: when the current trip began, and how    *)
(* many cycles in a row were quiet since.                                  *)
Noted(trips) ==
  CASE trips -> [since |-> IF trippedSince = NotYet THEN cycle ELSE trippedSince, quiet |-> 0]
    [] ~trips /\ trippedSince # NotYet ->
         IF quiet + 1 < ClearCycles THEN [since |-> trippedSince, quiet |-> quiet + 1]
         ELSE [since |-> NotYet, quiet |-> 0]
    [] OTHER -> [since |-> trippedSince, quiet |-> quiet]

(* Spans too old to matter are dropped.                                    *)
Retained ==
  [from \in 0 .. MaxCycles |-> IF cycle - held[from] <= MaxHold + MaxHold THEN held[from] ELSE NotYet]

(* Mutant: a trip holds for as long as it lasts.                           *)
HoldsForever(from) == from # NotYet

(* A trip holds for at most max_tolerance_days, and then gives up.         *)
Holds(from) == from # NotYet /\ cycle - from <= MaxHold

(* The span of the trip that began at from now reaches to this cycle.      *)
Extended(spans, from) == [spans EXCEPT ![from] = cycle]

(* Mutant: the time held is not left out.                                  *)
GraceNone(at, spans) == 0

(* The time held since `at`, up to max_tolerance_days in all.              *)
Grace(at, spans) ==
  LET total[n \in 0 .. MaxCycles + 1] ==
        IF n = 0 THEN 0 ELSE total[n - 1] + Max({0, spans[n - 1] - Max({n - 1, at})})
  IN Min({MaxHold, total[MaxCycles + 1]})

-----------------------------------------------------------------------------
(* One agreement.                                                          *)

(* count_active_agreements_by_deployment: all of them are on one.          *)
ActiveCount == Cardinality(Accepted)

Tolerance == Max({Min({ActiveCount, MaxTolerance}), 1}) * CyclesPerDay

(* The block its indexer reports: one that has changed, the last one       *)
(* again, or none.                                                         *)
Reports(i, down) ==
  CASE down \/ kind[i] = "gone" -> "unreachable"
    [] ~down /\ kind[i] = "stuck" -> "same"
    [] OTHER -> "changed"

(* decide_liveness_action.                                                 *)
Action(i, report, at) ==
  CASE row[i].height = NotYet -> "initialize"
    [] row[i].height # NotYet /\ report = "changed" -> "reset"
    [] row[i].height = 0 /\ report = "same" -> "reset"
    [] OTHER -> IF at # NotYet /\ cycle - at > Tolerance THEN "cancel" ELSE "wait"

(* check_agreement: what becomes of the row, given whether this cycle      *)
(* holds unreachable ones. A write that fails leaves it. The agreements    *)
(* are those with a terms hash: of one without, which no cancel can be     *)
(* sent for, cancel_and_reassess only tells the operator.                  *)
Checked(i, report, hold, spans, writes) ==
  LET at     == IF report = "unreachable" /\ ~hold /\ row[i].progressAt # NotYet
                THEN row[i].progressAt + Grace(row[i].progressAt, spans)
                ELSE row[i].progressAt
      action == Action(i, report, at)
      height == IF report = "unreachable" THEN 0 ELSE 1
  IN CASE row[i].status # "accepted" -> row[i]
       [] ~writes -> row[i]
       [] writes /\ action \in {"initialize", "reset"}
            -> [row[i] EXCEPT !.height = height, !.progressAt = cycle]
       [] writes /\ action = "cancel" /\ ~(report = "unreachable" /\ hold)
            -> [row[i] EXCEPT !.status = "abandoned"]
       [] OTHER -> row[i]

(* A cycle: every indexer is asked before any answer is acted on.          *)
LivenessCycle(down, writes) ==
  LET reports     == [i \in Accepted |-> Reports(i, down)]
      unreachable == {i \in Accepted : reports[i] = "unreachable"}
      trips       == UnreachableTrips(Cardinality(Accepted), Cardinality(unreachable))
      noted       == Noted(trips)
      hold        == Holds(noted.since)
  IN /\ Accepted # {}
     /\ trippedSince' = noted.since /\ quiet' = noted.quiet
     /\ held' = IF hold THEN Extended(Retained, noted.since) ELSE Retained
     /\ row' = [i \in Watched |->
                  IF i \in Accepted THEN Checked(i, reports[i], hold, Retained, writes)
                  ELSE row[i]]

(* The outage as the cycles see it: it is over after three good ones.      *)
Outage(down) ==
  CASE down -> [from |-> IF outage.from = NotYet THEN cycle ELSE outage.from, good |-> 0]
    [] ~down /\ outage.from # NotYet /\ outage.good + 1 < ClearCycles ->
          [outage EXCEPT !.good = @ + 1]
    [] OTHER -> [from |-> NotYet, good |-> 0]

(* Time moves on to the next cycle. This one runs, or its writes fail, or  *)
(* the database cannot be read and it is skipped.                          *)
RunCycle(down) ==
  /\ cycle < MaxCycles
  /\ cycle' = cycle + 1
  /\ LivenessCycle(down, TRUE)
  /\ outage' = Outage(down)
  /\ UNCHANGED <<kind, liveFaults>>

FailingCycle(down) ==
  /\ cycle < MaxCycles /\ liveFaults < LiveFaults
  /\ cycle' = cycle + 1 /\ liveFaults' = liveFaults + 1
  /\ \/ LivenessCycle(down, FALSE) /\ outage' = Outage(down)
     \/ UNCHANGED <<row, trippedSince, quiet, held, outage>>
  /\ UNCHANGED kind

(* A restart forgets the breaker.                                          *)
LivenessRestart ==
  /\ liveFaults < LiveFaults /\ liveFaults' = liveFaults + 1
  /\ trippedSince # NotYet \/ held # NoneHeld
  /\ trippedSince' = NotYet /\ quiet' = 0 /\ held' = NoneHeld
  /\ UNCHANGED <<cycle, kind, row, outage>>

LivenessNext ==
  \/ \E down \in BOOLEAN : RunCycle(down) \/ FailingCycle(down)
  \/ LivenessRestart

LivenessSpec == LivenessInit /\ [][LivenessNext]_liveVars

-----------------------------------------------------------------------------
(* So few are gone that they do not trip the breaker by themselves, though *)
(* the ones that are stuck do not count among those that answer.           *)
FewGone ==
  100 * Cardinality({i \in Watched : kind[i] = "gone"})
    < TripPercent * Cardinality({i \in Watched : kind[i] # "stuck"})

(* OutageSparesServing. While enough indexers are watched for the breaker  *)
(* to tell an outage from a few that are gone, an agreement whose indexer  *)
(* serves is abandoned only in an outage that began longer ago than the    *)
(* breaker holds; and if nothing was seen of the indexer since it began,   *)
(* only a day of tolerance later than that. A restart in the middle does   *)
(* not bring it forward, a failed cycle by at most its own time.           *)
OutageSparesServing ==
  \A i \in Watched :
    kind[i] = "serving" /\ row[i].status = "accepted" /\ row'[i].status = "abandoned"
      => \/ Cardinality(Accepted) < TripMin
         \/ ~FewGone
         \/ /\ outage.from # NotYet /\ cycle - outage.from > MaxHold
            /\ row[i].progressAt < outage.from
                 => cycle - row[i].progressAt > MaxHold + CyclesPerDay - liveFaults

(* GoneIsAbandoned. An indexer that makes no progress does not stay: its   *)
(* agreement is abandoned within its tolerance, the most time that is ever *)
(* left out and the longest a trip holds, however often the breaker trips; *)
(* a restart starts the hold anew, and a failed cycle costs its own time.  *)
GoneIsAbandoned ==
  \A i \in Accepted :
    row[i].progressAt # NotYet
      => cycle - row[i].progressAt <= (3 + liveFaults) * MaxHold + 2 + 2 * liveFaults
=============================================================================
