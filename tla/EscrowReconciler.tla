-------------------------- MODULE EscrowReconciler ---------------------------
(***************************************************************************)
(* The escrow reconciler (network/service/escrow_reconciler.rs) and the    *)
(* reads it makes of the RecurringAgreementManager (chain_client/client.rs)*)
(*                                                                         *)
(* A sweep lists the providers the manager tracks, looks for ended         *)
(* agreements from where the last sweep left off and releases them, and    *)
(* then reconciles the providers whose thaw is over or whose periodic      *)
(* rebalance is due. Every read and every transaction is a step, and the   *)
(* manager's lists change between them.                                    *)
(***************************************************************************)
EXTENDS Integers, Sequences, FiniteSetsExt, SequencesExt

CONSTANTS
  Providers,
  Slot,            \* [provider -> its offset into the rebalance interval]
  EscAgreements,
  SweepInterval,   \* interval, in units of chain time
  Period,          \* rebalance_interval
  BatchSize,       \* batch_size, 0 for no limit
  PerSweep,        \* agreements_per_sweep
  EscHorizon,      \* bound on chain time
  EscFaults,       \* bound on failed reads and transactions
  EscChanges       \* bound on what happens to the manager

ASSUME EscrowAssumption ==
  /\ {SweepInterval, Period, BatchSize, PerSweep, EscHorizon, EscFaults, EscChanges} \subseteq Nat
  /\ Period > 0 /\ PerSweep > 0
  /\ Slot \in [Providers -> 0 .. Period - 1]
  /\ IsFiniteSet(Providers) /\ IsFiniteSet(EscAgreements)

VARIABLES
  escNow,      \* chain time
  listed,      \* the manager's list of providers
  books,       \* [provider -> the manager's list of its agreements]
  over,        \* agreements nothing more can be claimed on
  thawing,     \* providers whose thaw is over, tokens still there
  covered,     \* covered_until, or Nowhere
  owed,        \* providers owed a rebalance
  agreementCursor,      \* agreement_cursor
  sweep,       \* the sweep under way
  boot,        \* when the service started
  firstFrom,   \* where the first window handed out began (ghost)
  trackedAt,   \* [provider -> since when the manager tracks it] (ghost)
  midSweep,    \* providers that were added in the middle of a sweep (ghost)
  doneAt,      \* [provider -> when it was last reconciled] (ghost)
  escFaults, escChanges

manager == <<listed, books, over, thawing>>
schedule == <<covered, owed>>
escVars == <<escNow, manager, schedule, agreementCursor, sweep, boot, firstFrom, trackedAt,
             midSweep, doneAt,
             escFaults, escChanges>>

Nowhere == -1

NoSweep == [at |-> "idle", count |-> 0, next |-> 0, got |-> <<>>, complete |-> TRUE,
         counts |-> <<>>, found |-> <<>>, failed |-> {}]

EscrowTypeOK ==
  /\ escNow \in 0 .. EscHorizon
  /\ Range(listed) \subseteq Providers
  /\ books \in [Providers -> Seq(EscAgreements)]
  /\ over \subseteq EscAgreements /\ thawing \subseteq Providers
  /\ covered \in Nowhere .. escNow
  /\ owed \subseteq Providers
  /\ agreementCursor \in Nat
  /\ sweep.at \in {"idle", "list", "count", "scan", "release", "due", "reconcile"}
  /\ sweep.found \in Seq(EscAgreements) \cup Seq(Providers)
  /\ doneAt \in [Providers -> Nowhere .. escNow]
  /\ escFaults \in 0 .. EscFaults /\ escChanges \in 0 .. EscChanges

EscrowInit ==
  /\ escNow = 0
  /\ \E p \in Providers, held \in {{}, EscAgreements} :
       /\ listed = SetToSeq(Providers \ {p})
       /\ books = [q \in Providers |-> IF q = Head(listed) THEN SetToSeq(held) ELSE <<>>]
  /\ over = {} /\ thawing = {}
  /\ covered = Nowhere /\ owed = {} /\ agreementCursor = 0
  /\ sweep = NoSweep
  /\ boot = 0 /\ firstFrom = Nowhere
  /\ trackedAt = [p \in Providers |-> Nowhere] /\ midSweep = {}
  /\ doneAt = [p \in Providers |-> Nowhere]
  /\ escFaults = 0 /\ escChanges = 0

-----------------------------------------------------------------------------
(* The manager. Its lists keep no order: the last entry takes the place of *)
(* one that is removed.                                                    *)

Without(list, e) ==
  LET i == CHOOSE i \in 1 .. Len(list) : list[i] = e
  IN Front([list EXCEPT ![i] = Last(list)])

(* The entries of a list that are in S, in their order.                    *)
Kept(list, S) ==
  LET kept[k \in 0 .. Len(list)] ==
        IF k = 0 THEN <<>>
        ELSE IF list[k] \in S THEN Append(kept[k - 1], list[k]) ELSE kept[k - 1]
  IN kept[Len(list)]

ManagerStep ==
  /\ escChanges < EscChanges /\ escChanges' = escChanges + 1
  /\ UNCHANGED <<escNow, schedule, agreementCursor, sweep, boot, firstFrom, doneAt, escFaults>>

AgreementEnds(a) ==
  /\ ManagerStep
  /\ a \notin over /\ \E p \in Providers : a \in Range(books[p])
  /\ over' = over \cup {a}
  /\ UNCHANGED <<listed, books, thawing, trackedAt, midSweep>>

ThawEnds(p) ==
  /\ ManagerStep
  /\ p \notin thawing /\ p \in Range(listed)
  /\ thawing' = thawing \cup {p}
  /\ UNCHANGED <<listed, books, over, trackedAt, midSweep>>

(* A collection reconciles the agreement by itself, or its provider's last *)
(* tokens are withdrawn.                                                   *)
Dropped(p) ==
  /\ ManagerStep
  /\ p \in Range(listed)
  /\ IF books[p] # <<>>
     THEN /\ books' = [books EXCEPT ![p] = Without(@, Head(@))]
          /\ UNCHANGED <<listed, thawing>>
     ELSE /\ listed' = Without(listed, p) /\ thawing' = thawing \ {p}
          /\ UNCHANGED books
  /\ UNCHANGED <<over, trackedAt, midSweep>>

(* An offer to a provider the manager does not track yet.                  *)
Tracked(p) ==
  /\ ManagerStep
  /\ p \notin Range(listed)
  /\ listed' = Append(listed, p)
  /\ trackedAt' = [trackedAt EXCEPT ![p] = escNow]
  /\ midSweep' = IF sweep.at = "idle" THEN midSweep ELSE midSweep \cup {p}
  /\ UNCHANGED <<books, over, thawing>>

EscTick ==
  /\ escNow < EscHorizon /\ escNow' = escNow + 1
  /\ UNCHANGED <<manager, schedule, agreementCursor, sweep, boot, firstFrom, trackedAt,
                 midSweep, doneAt,
                 escFaults, escChanges>>

-----------------------------------------------------------------------------
(* The list of providers.                                                  *)

EscQuiet == UNCHANGED <<escNow, boot, escChanges, trackedAt, midSweep>>
EscFails == escFaults < EscFaults /\ escFaults' = escFaults + 1
EscWorks == UNCHANGED escFaults

(* The first sweep waits a full interval.                                  *)
StartSweep ==
  /\ sweep.at = "idle"
  /\ covered = Nowhere => escNow >= boot + SweepInterval
  /\ \/ /\ EscWorks
        /\ sweep' = [NoSweep EXCEPT !.at = "list", !.count = Len(listed)]
     \/ EscFails /\ UNCHANGED sweep
  /\ EscQuiet /\ UNCHANGED <<manager, schedule, agreementCursor, firstFrom, doneAt>>

(* tracked_providers reads one entry. A list that has become shorter       *)
(* refuses the read; an entry that turns up twice means one was missed.    *)
ReadProvider ==
  /\ sweep.at = "list"
  /\ LET i == sweep.next + 1
         last == [sweep EXCEPT !.at = "count", !.next = 0]
     IN \/ /\ sweep.next = sweep.count /\ EscWorks
           /\ sweep' = last
        \/ /\ i <= sweep.count /\ i <= Len(listed) /\ EscWorks
           /\ sweep' = IF listed[i] \in Range(sweep.got)
                       THEN [sweep EXCEPT !.next = i, !.complete = FALSE]
                       ELSE [sweep EXCEPT !.next = i, !.got = Append(@, listed[i])]
        \/ /\ i <= sweep.count /\ (IF i > Len(listed) THEN EscWorks ELSE EscFails)
           /\ sweep' = [last EXCEPT !.complete = FALSE]
  /\ EscQuiet /\ UNCHANGED <<manager, schedule, agreementCursor, firstFrom, doneAt>>

-----------------------------------------------------------------------------
(* The agreements that have ended.                                         *)

(* The agreements of the first k providers, laid end to end.               *)
Sums(counts) ==
  LET sum[k \in 0 .. Len(counts)] == IF k = 0 THEN 0 ELSE sum[k - 1] + counts[k].count
  IN sum

Total(counts) == Sums(counts)[Len(counts)]

(* locate: the provider and index of a position in them.                   *)
Located(counts, pos) ==
  LET k == CHOOSE k \in 1 .. Len(counts) : Sums(counts)[k - 1] <= pos /\ pos < Sums(counts)[k]
  IN [provider |-> counts[k].provider, index |-> pos - Sums(counts)[k - 1]]

(* Mutant: a sweep without agreements ends there.                          *)
NoAgreementsEnds == NoSweep

(* Without agreements there is nothing to release, and the providers are   *)
(* next.                                                                   *)
NoAgreements == [sweep EXCEPT !.at = "due"]

(* tracked_agreement_count for every provider; one that cannot be counted  *)
(* is left out of this sweep.                                              *)
CountAgreements ==
  /\ sweep.at = "count"
  /\ LET counted(ps) ==
           LET counts == [k \in 1 .. Len(ps) |->
                            [provider |-> ps[k], count |-> Len(books[ps[k]])]]
           IN IF Total(counts) = 0 THEN NoAgreements
              ELSE [sweep EXCEPT !.at = "scan", !.counts = counts]
     IN \/ EscWorks /\ sweep' = counted(sweep.got)
        \/ /\ EscFails
           /\ \E p \in Range(sweep.got) :
                sweep' = counted(Kept(sweep.got, Providers \ {p}))
  /\ EscQuiet /\ UNCHANGED <<manager, schedule, agreementCursor, firstFrom, doneAt>>

(* Mutant: the next sweep starts where this one found its agreements.      *)
CursorAfterFound(start, checked, total) == (start + Len(sweep.found)) % total

(* The next sweep starts after the last position checked.                  *)
CursorAfter(start, checked, total) == (start + checked) % total

Budget == BatchSize - Len(sweep.found)

(* One position: the agreement there is read, and what can still be        *)
(* claimed on it. The scan ends after agreements_per_sweep positions, or   *)
(* when it has found as many as the sweep may release.                     *)
CheckAgreement ==
  LET total == Total(sweep.counts)
      start == agreementCursor % total
      where == Located(sweep.counts, (start + sweep.next) % total)
      book  == books[where.provider]
      id    == book[where.index + 1]
      moved == [sweep EXCEPT !.next = @ + 1]
  IN /\ sweep.at = "scan"
     /\ \/ /\ sweep.next < Min({PerSweep, total}) /\ (BatchSize > 0 => Budget > 0)
           /\ IF where.index < Len(book)
              THEN \/ EscWorks /\ sweep' = IF id \in over /\ id \notin Range(sweep.found)
                                        THEN [moved EXCEPT !.found = Append(@, id)] ELSE moved
                   \/ EscFails /\ sweep' = moved
              ELSE EscWorks /\ sweep' = moved
           /\ UNCHANGED agreementCursor
        \/ /\ ~(sweep.next < Min({PerSweep, total}) /\ (BatchSize > 0 => Budget > 0)) /\ EscWorks
           /\ agreementCursor' = CursorAfter(start, sweep.next, total)
           /\ sweep' = [sweep EXCEPT !.at = "release", !.next = 0]
     /\ EscQuiet /\ UNCHANGED <<manager, schedule, firstFrom, doneAt>>

(* release_agreements, one transaction at a time. When the releases were   *)
(* as many as the sweep may send, the providers wait for a later sweep.    *)
ReleaseAgreement ==
  /\ sweep.at = "release"
  /\ \/ /\ sweep.next = Len(sweep.found) /\ EscWorks
        /\ sweep' = IF BatchSize > 0 /\ Budget = 0 THEN NoSweep ELSE [sweep EXCEPT !.at = "due"]
        /\ UNCHANGED manager
     \/ /\ sweep.next < Len(sweep.found)
        /\ LET a == sweep.found[sweep.next + 1]
               released(book) == IF a \in Range(book) THEN Without(book, a) ELSE book
           IN \/ EscWorks /\ books' = [p \in Providers |-> released(books[p])]
              \/ EscFails /\ UNCHANGED books
        /\ sweep' = [sweep EXCEPT !.next = @ + 1]
        /\ UNCHANGED <<listed, over, thawing>>
  /\ EscQuiet /\ UNCHANGED <<schedule, agreementCursor, firstFrom, doneAt>>

-----------------------------------------------------------------------------
(* The providers due.                                                      *)

(* window: from what was handed out to the newest block read, or one       *)
(* interval back on the first sweep.                                       *)
WindowFrom(now) == IF covered = Nowhere THEN Max({0, now - SweepInterval}) ELSE covered
WindowTo(now)   == Max({now, WindowFrom(now)})

(* rebalance_due: whether the provider's slot falls in (from, to].         *)
RebalanceDue(p, from, to) ==
  to > from /\ (to + Slot[p]) \div Period # (from + Slot[p]) \div Period

(* Mutant: the window is handed out although the list was short.           *)
HandedOutAnyway(now) == WindowTo(now)

(* A short list leaves the window to be handed out again.                  *)
HandedOut(now) == IF sweep.complete THEN WindowTo(now) ELSE covered

(* Mutant: what a provider is owed goes with the sweep that hands it out.  *)
OwedThisSweep(slots) == slots

(* What is owed to a provider the manager no longer tracks is forgotten,   *)
(* when the list is known to be complete.                                  *)
OwedWith(slots) ==
  (IF sweep.complete THEN owed \cap Range(sweep.got) ELSE owed) \cup slots

(* providers_due: finished thaws first, then what is owed, at most what    *)
(* the releases left of the batch. The newest block may be read from an    *)
(* endpoint that lags; an account that cannot be read waits.               *)
ReadDue ==
  /\ sweep.at = "due"
  /\ \/ /\ \E now \in {escNow, Max({0, escNow - 1})}, unread \in SUBSET Range(sweep.got) :
             LET slots  == {p \in Range(sweep.got) :
                              RebalanceDue(p, WindowFrom(now), WindowTo(now))}
                 read   == Kept(sweep.got, Providers \ unread)
                 queue  == Kept(read, thawing)
                             \o Kept(read, OwedWith(slots) \ thawing)
                 due    == IF BatchSize > 0
                           THEN SubSeq(queue, 1, Min({Budget, Len(queue)})) ELSE queue
             IN /\ IF unread = {} THEN EscWorks ELSE EscFails
                /\ Cardinality(unread) <= 1
                /\ owed' = OwedWith(slots)
                /\ covered' = HandedOut(now)
                /\ firstFrom' = IF firstFrom = Nowhere /\ sweep.complete
                                THEN WindowFrom(now) ELSE firstFrom
                /\ sweep' = IF due = <<>> THEN NoSweep
                            ELSE [NoSweep EXCEPT !.at = "reconcile", !.found = due]
     \/ EscFails /\ sweep' = NoSweep /\ UNCHANGED <<schedule, firstFrom>>
  /\ EscQuiet /\ UNCHANGED <<manager, agreementCursor, doneAt>>

(* settle.                                                                 *)
Settled(succeeded, failed) == (owed \ succeeded) \cup failed

(* reconcile_providers: one transaction at a time, and then the schedule   *)
(* is settled.                                                             *)
ReconcileProvider ==
  /\ sweep.at = "reconcile"
  /\ \/ /\ sweep.next = Len(sweep.found) /\ EscWorks
        /\ owed' = Settled(Range(sweep.found) \ sweep.failed, sweep.failed)
        /\ sweep' = NoSweep
        /\ UNCHANGED <<thawing, doneAt>>
     \/ /\ sweep.next < Len(sweep.found)
        /\ LET p == sweep.found[sweep.next + 1]
               sent == [sweep EXCEPT !.next = @ + 1]
           IN \/ /\ EscWorks
                 /\ sweep' = sent
                 /\ thawing' = thawing \ {p}
                 /\ doneAt' = [doneAt EXCEPT ![p] = escNow]
              \/ /\ EscFails
                 /\ sweep' = [sent EXCEPT !.failed = @ \cup {p}]
                 /\ UNCHANGED <<thawing, doneAt>>
        /\ UNCHANGED owed
  /\ EscQuiet /\ UNCHANGED <<listed, books, over, covered, agreementCursor, firstFrom>>

(* A stop cuts a sweep short wherever it is. The schedule and the cursor   *)
(* are only in memory. The bound on time leaves room for a first sweep.    *)
EscRestart ==
  /\ EscFails
  /\ escNow + SweepInterval <= EscHorizon
  /\ sweep' = NoSweep /\ agreementCursor' = 0 /\ covered' = Nowhere /\ owed' = {}
  /\ boot' = escNow /\ firstFrom' = Nowhere
  /\ UNCHANGED <<escNow, manager, trackedAt, midSweep, doneAt, escChanges>>

SweepStep ==
  \/ StartSweep \/ ReadProvider \/ CountAgreements \/ CheckAgreement
  \/ ReleaseAgreement \/ ReadDue \/ ReconcileProvider

EscrowNext ==
  \/ SweepStep \/ EscRestart \/ EscTick
  \/ \E a \in EscAgreements : AgreementEnds(a)
  \/ \E p \in Providers : ThawEnds(p) \/ Dropped(p) \/ Tracked(p)

EscrowSpec == EscrowInit /\ [][EscrowNext]_escVars

(* The timer ticks for as long as the service runs.                        *)
EscrowFairSpec == EscrowSpec /\ WF_escVars(SweepStep) /\ WF_escVars(EscTick)

-----------------------------------------------------------------------------
(* A slot of p between two times.                                          *)
LastSlot(p, from, to) ==
  LET slots == {t \in from + 1 .. to : RebalanceDue(p, t - 1, t)}
  IN IF slots = {} THEN Nowhere ELSE Max(slots)

(* NoSlotSkipped. Once a window has been handed out, a provider that the   *)
(* manager tracks and whose slot came since is owed its rebalance or has   *)
(* had it: sweeps that fail, come late, read a short list, see an older    *)
(* head or reach their limit skip none. One that the manager began to      *)
(* track in the middle of a sweep may hide another from its list.          *)
NoSlotSkipped ==
  covered # Nowhere /\ midSweep = {}
    => \A p \in Range(listed) :
         LET slot == LastSlot(p, Max({firstFrom, trackedAt[p]}), covered)
         IN slot # Nowhere => p \in owed \/ doneAt[p] >= slot

(* NoSlotSkippedSinceStart. The same from the start of the service, as     *)
(* RebalanceSchedule says: a late or failed sweep does not skip any.       *)
NoSlotSkippedSinceStart ==
  covered # Nowhere /\ midSweep = {}
    => \A p \in Range(listed) :
         LET slot == LastSlot(p, Max({boot, trackedAt[p]}), covered)
         IN slot # Nowhere => p \in owed \/ doneAt[p] >= slot

(* EndedReleased. An agreement that has ended is dropped from the manager's*)
(* books in the end, although a sweep checks only some agreements and the  *)
(* lists shift under its cursor.                                           *)
EndedReleased ==
  \A a \in EscAgreements :
    a \in over ~> \A p \in Providers : a \notin Range(books[p])

(* ThawsWithdrawn. A provider whose thaw is over is reconciled in the end, *)
(* however many releases come first.                                       *)
ThawsWithdrawn ==
  \A p \in Providers : p \in thawing ~> p \notin thawing
=============================================================================
