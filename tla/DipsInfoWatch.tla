---------------------------- MODULE DipsInfoWatch ----------------------------
(***************************************************************************)
(* The watcher of the indexers' terms                                      *)
(* (network/service/dips_info_watcher.rs) and its table in the registry.   *)
(* It counts how long each indexer with an accepted agreement goes without *)
(* a readable answer from /dips/info, alerts past one limit and blocks the *)
(* indexer past another. While so many are missing at once that the fault  *)
(* is likely dipper's, the count is paused.                                *)
(*                                                                         *)
(* Time is in intervals. A cycle is three steps, and time passes, the      *)
(* holders change and the process stops between them.                      *)
(***************************************************************************)
EXTENDS Integers, FiniteSetsExt

CONSTANTS
  DipsIndexers,          \* indexers
  AlertAfter,     \* alert_after_hours, in intervals
  DenylistAfter,  \* denylist_after_hours
  BlockFor,       \* block_duration
  PauseMin,       \* unreachable_trip_min_indexers
  DipsHorizon,    \* bound on time
  DipsChanges,    \* bound on indexers that break, recover, win or lose agreements
  DipsFaults      \* bound on failed calls and restarts

ASSUME DipsAssumption ==
  /\ {AlertAfter, DenylistAfter, BlockFor, PauseMin, DipsHorizon, DipsChanges, DipsFaults}
       \subseteq Nat
  /\ 0 < AlertAfter /\ AlertAfter < DenylistAfter   \* DipsInfoWatcherConfig::validate
  /\ 3 <= BlockFor                                  \* block_duration: 3 intervals or longer
  /\ IsFiniteSet(DipsIndexers)

VARIABLES
  dipsNow,
  broken,        \* indexers that give no readable answer
  holders,       \* indexers with an accepted agreement
  missing,       \* dipper_indexer_dips_info_missing: [indexer -> its row]
  lastRecorded,  \* Cycles: when the last recorded cycle started
  calm,          \* Cycles: quiet_cycles while paused, or Counting
  watch,         \* the cycle under way
  alerted,       \* indexers alerted on since they went missing (ghost)
  lastGood,      \* [indexer -> the last recorded cycle it was not missing in] (ghost)
  recordedSince, \* [indexer -> recorded cycles since then] (ghost)
  lastDone,      \* when a cycle last ran to its end (ghost)
  ownFault,      \* indexers that broke since they went missing (ghost)
  sparse,        \* whether a cycle ever had too few holders to pause (ghost)
  lostAnswer,    \* whether the answer to a write was ever lost (ghost)
  dipsChanges, dipsFaults

dipsGhosts == <<alerted, lastGood, recordedSince, ownFault, lastDone, sparse, lostAnswer>>
dipsVars   == <<dipsNow, broken, holders, missing, lastRecorded, calm, watch,
                dipsGhosts, dipsChanges, dipsFaults>>

NoTime   == -1
Counting == -1
NoRow    == [secs |-> NoTime, until |-> NoTime]
NoWatch  == [at |-> "idle", began |-> NoTime, holders |-> {}, blocked |-> {}, due |-> {}]

Denylisted(i) == missing[i].until > dipsNow

DipsTypeOK ==
  /\ dipsNow \in 0 .. DipsHorizon
  /\ broken \subseteq DipsIndexers /\ holders \subseteq DipsIndexers
  /\ missing \in [DipsIndexers -> [secs : NoTime .. 2 * (DipsHorizon + DipsFaults),
                            until : NoTime .. DipsHorizon + BlockFor]]
  /\ lastRecorded \in NoTime .. dipsNow
  /\ calm \in Counting .. 2
  /\ watch \in [at : {"idle", "ask", "block"}, began : NoTime .. dipsNow,
                holders : SUBSET DipsIndexers, blocked : SUBSET DipsIndexers,
                due : SUBSET DipsIndexers]
  /\ dipsChanges \in 0 .. DipsChanges /\ dipsFaults \in 0 .. DipsFaults

DipsInit ==
  /\ dipsNow = 0
  /\ broken = {} /\ holders = DipsIndexers
  /\ missing = [i \in DipsIndexers |-> NoRow]
  /\ lastRecorded = NoTime /\ calm = Counting
  /\ watch = NoWatch
  /\ alerted = {}
  /\ lastGood = [i \in DipsIndexers |-> 0] /\ recordedSince = [i \in DipsIndexers |-> 0]
  /\ ownFault = {} /\ lastDone = 0 /\ sparse = FALSE /\ lostAnswer = FALSE
  /\ dipsChanges = 0 /\ dipsFaults = 0

-----------------------------------------------------------------------------
(* Cycles.                                                                 *)

(* Mutant: a stall counts as missing time.                                 *)
ElapsedUncapped(now) == IF lastRecorded = NoTime THEN 0 ELSE now - lastRecorded

(* elapsed: at most two intervals, and nothing on the first cycle.         *)
Elapsed(now) == IF lastRecorded = NoTime THEN 0 ELSE Min({now - lastRecorded, 2})

(* Mutant: the fewest that pause are one too many.                         *)
JudgedMinOff(count, gone) ==
  CASE count > PauseMin /\ 2 * gone >= count -> 0
    [] OTHER -> IF calm = Counting \/ calm = 2 THEN Counting ELSE calm + 1

(* judge: whether counting is paused after this cycle, and for how many    *)
(* calm cycles. At least half of the holders missing pauses it, and three  *)
(* calm cycles in a row resume it.                                         *)
Judged(count, gone) ==
  CASE count > 0 /\ count >= PauseMin /\ 2 * gone >= count -> 0
    [] OTHER -> IF calm = Counting \/ calm = 2 THEN Counting ELSE calm + 1

(* Mutant: an alert is only for a count past the limit.                    *)
CrossedStrictly(total, added, limit) == added # 0 /\ total > limit /\ total - added < limit

(* crossed: whether this cycle took the count to the limit.                *)
Crossed(total, added, limit) == added # 0 /\ total >= limit /\ total - added < limit

(* Mutant: only those with an agreement are asked.                         *)
ToAskHolders == watch.holders

(* Those with an agreement, and those that are blocked.                    *)
ToAsk == watch.holders \cup watch.blocked

(* indexers_to_block: while paused, only those that are blocked already.   *)
ToBlock(rows, paused) ==
  {i \in DipsIndexers : rows[i].secs >= DenylistAfter /\ (paused => i \in watch.blocked)}

(* record_dips_info_checks: the missing gain the time, every other row is  *)
(* deleted.                                                                *)
RecordedRows(gone, added) ==
  [i \in DipsIndexers |-> IF i \in gone
                   THEN [missing[i] EXCEPT !.secs = Max({@, 0}) + added]
                   ELSE NoRow]

-----------------------------------------------------------------------------
(* A cycle.                                                                *)

DipsFail == dipsFaults < DipsFaults /\ dipsFaults' = dipsFaults + 1
DipsWork == UNCHANGED dipsFaults

(* Who has an agreement and who is blocked, or the registry does not say.  *)
WatchReads ==
  /\ watch.at = "idle" /\ dipsNow # lastDone
  /\ \/ /\ DipsWork
        /\ watch' = [NoWatch EXCEPT !.at = "ask", !.began = dipsNow, !.holders = holders,
                                    !.blocked = {i \in DipsIndexers : Denylisted(i)}]
     \/ DipsFail /\ UNCHANGED watch
  /\ UNCHANGED <<dipsNow, broken, holders, missing, lastRecorded, calm, dipsGhosts, dipsChanges>>

(* ask_dips_info: those that gave no readable answer.                      *)
Unreadable(down) == IF down THEN ToAsk ELSE ToAsk \cap broken

(* The transaction of record_dips_info_checks.                             *)
DipsCommit(rows) ==
  /\ missing' = rows
  /\ lastGood' = [i \in DipsIndexers |-> IF rows[i] = NoRow THEN watch.began ELSE lastGood[i]]
  /\ recordedSince' = [i \in DipsIndexers |-> IF rows[i] = NoRow THEN 0 ELSE recordedSince[i] + 1]
  /\ ownFault' = {i \in ownFault \cup broken : rows[i] # NoRow}

(* Everyone is asked, the answers judged and recorded; the count goes on   *)
(* from this cycle only if the registry said that it recorded it.          *)
WatchRecords(down) ==
  LET gone   == Unreadable(down)
      paused == Judged(Cardinality(watch.holders), Cardinality(gone \cap watch.holders))
      added  == IF paused = Counting THEN Elapsed(watch.began) ELSE 0
      rows   == RecordedRows(gone, added)
  IN /\ watch.at = "ask"
     /\ calm' = paused
     /\ \/ /\ DipsWork /\ DipsCommit(rows)
           /\ lastRecorded' = watch.began
           /\ alerted' = (alerted \cap gone)
                           \cup {i \in gone : Crossed(rows[i].secs, added, AlertAfter)}
           /\ watch' = [watch EXCEPT !.at = "block", !.due = ToBlock(rows, paused # Counting)]
           /\ UNCHANGED lostAnswer
        \/ /\ DipsFail /\ watch' = NoWatch
           /\ \/ DipsCommit(rows) /\ alerted' = alerted \cap gone /\ lostAnswer' = TRUE
              \/ UNCHANGED <<missing, alerted, lostAnswer, lastGood, recordedSince, ownFault>>
           /\ UNCHANGED lastRecorded
     /\ sparse' = (sparse \/ Cardinality(watch.holders) < PauseMin)
     /\ UNCHANGED <<dipsNow, broken, holders, lastDone, dipsChanges>>

(* block_missing_dips_info, from the database's clock.                     *)
WatchBlocks ==
  /\ watch.at = "block"
  /\ \/ /\ DipsWork
        /\ missing' = [i \in DipsIndexers |->
                         IF i \in watch.due THEN [missing[i] EXCEPT !.until = dipsNow + BlockFor]
                         ELSE missing[i]]
        /\ lastDone' = dipsNow
     \/ DipsFail /\ UNCHANGED <<missing, lastDone>>
  /\ watch' = NoWatch
  /\ UNCHANGED <<dipsNow, broken, holders, lastRecorded, calm, alerted, lastGood,
                 recordedSince, ownFault, sparse, lostAnswer, dipsChanges>>

WatchRestart ==
  /\ DipsFail
  /\ watch' = NoWatch /\ lastRecorded' = NoTime /\ calm' = Counting
  /\ UNCHANGED <<dipsNow, broken, holders, missing, dipsGhosts, dipsChanges>>

-----------------------------------------------------------------------------
(* What goes on around it.                                                 *)

DipsTick ==
  /\ dipsNow < DipsHorizon /\ dipsNow' = dipsNow + 1
  /\ UNCHANGED <<broken, holders, missing, lastRecorded, calm, watch, dipsGhosts,
                 dipsChanges, dipsFaults>>

IndexerChanges(i) ==
  /\ dipsChanges < DipsChanges /\ dipsChanges' = dipsChanges + 1
  /\ broken' = IF i \in broken THEN broken \ {i} ELSE broken \cup {i}
  /\ UNCHANGED <<dipsNow, holders, missing, lastRecorded, calm, watch, dipsGhosts, dipsFaults>>

(* The agreements of a blocked indexer are replaced.                       *)
HolderReplaced(i) ==
  /\ i \in holders /\ Denylisted(i)
  /\ holders' = holders \ {i}
  /\ UNCHANGED <<dipsNow, broken, missing, lastRecorded, calm, watch, dipsGhosts,
                 dipsChanges, dipsFaults>>

DipsNext ==
  \/ WatchReads \/ WatchBlocks \/ WatchRestart \/ DipsTick
  \/ \E down \in BOOLEAN : WatchRecords(down)
  \/ \E i \in DipsIndexers : IndexerChanges(i) \/ HolderReplaced(i)

DipsSpec == DipsInit /\ [][DipsNext]_dipsVars

-----------------------------------------------------------------------------
(* CountsWhatPassed. An indexer's count is never more than the time since  *)
(* the last recorded cycle it answered in, nor more than two intervals for *)
(* each cycle recorded since: a restart, a stall or a failed cycle counts  *)
(* no time twice. (A write whose answer was lost is counted again.)        *)
CountsWhatPassed ==
  ~lostAnswer
    => \A i \in DipsIndexers :
         missing[i] # NoRow => /\ missing[i].secs <= dipsNow - lastGood[i]
                               /\ missing[i].secs <= 2 * recordedSince[i]

(* AlertBeforeBlock. An indexer is blocked only after it was alerted on,   *)
(* as DipsInfoWatcherConfig::validate promises, unless the answer to a     *)
(* write was lost.                                                         *)
AlertBeforeBlock ==
  ~lostAnswer => \A i \in DipsIndexers : missing[i].until # NoTime => i \in alerted

(* BlockOutlasts. A block lasts until the indexer answers, through pauses, *)
(* the loss of its agreements and two intervals without a cycle that ran   *)
(* to its end.                                                             *)
BlockOutlasts ==
  \A i \in DipsIndexers :
    Denylisted(i) /\ ~(missing'[i].until > dipsNow')
      => \/ missing'[i] = NoRow /\ i \notin broken
         \/ dipsNow' - lastDone > 2

(* OutageBlocksNobody. An indexer that answers whenever dipper can reach   *)
(* it is never blocked anew while enough indexers are watched to tell.     *)
OutageBlocksNobody ==
  \A i \in DipsIndexers :
    missing[i].until = NoTime /\ missing'[i].until # NoTime => i \in ownFault \/ sparse
=============================================================================
