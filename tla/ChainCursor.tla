----------------------------- MODULE ChainCursor -----------------------------
(***************************************************************************)
(* How the chain listener reads the subgraph (chain_listener.rs drain_once *)
(* over chain_events.rs get_changed_agreements): pages behind a keyset     *)
(* cursor, the reorg buffer, the pin of a drain, the hold before a page    *)
(* whose changes do not apply, and the checks it queues once per change.   *)
(*                                                                         *)
(* A row of the subgraph is an agreement with the block of its latest      *)
(* change; rows are read in the order of (block, agreement). What applying *)
(* a change does to the registry is AgreementLifecycle's; here a change is *)
(* only its number, and applying one twice changes nothing.                *)
(*                                                                         *)
(* The chain is the environment: blocks are added, and the last            *)
(* ReorgDepth blocks below the highest block ever seen may be replaced, by *)
(* blocks that hold the same changes elsewhere. Chain timestamps are       *)
(* ChainClock's and the pacing of the polls ChainPoll's; log lines are     *)
(* left out.                                                               *)
(***************************************************************************)
EXTENDS Integers, FiniteSets, FiniteSetsExt

CONSTANTS
  Agreements,   \* agreement ids: positive integers, so that they are ordered
  EndedHere,    \* those dipper ended: a change of theirs queues a chain check
  Poison,       \* those whose change can never be applied
  Changes,      \* changes an agreement makes on the chain
  SubgraphPage, \* SUBGRAPH_PAGE_SIZE
  MaxPages,     \* MAX_PAGES_PER_DRAIN
  Buffer,       \* reorg_buffer_blocks
  ReorgDepth,   \* how deep the chain reorganises
  MaxCursorHold, \* MAX_CURSOR_HOLD, in ticks of the hold's clock
  StartBlock,   \* the subgraph's head when the listener first starts
  MaxBlock,     \* bound on the chain's length
  CursorFaults  \* bound on reorganisations, failed reads and writes, restarts

ASSUME CursorAssumption ==
  /\ Agreements \subseteq Nat \ {0} /\ IsFiniteSet(Agreements)
  /\ EndedHere \subseteq Agreements /\ Poison \subseteq Agreements
  /\ {Changes, SubgraphPage, MaxPages, MaxCursorHold} \subseteq Nat \ {0}
  /\ {Buffer, ReorgDepth, StartBlock, MaxBlock, CursorFaults} \subseteq Nat
  /\ ReorgDepth <= Buffer
  /\ Buffer + ReorgDepth <= StartBlock /\ StartBlock <= MaxBlock

VARIABLES
  block,     \* [agreement][change]: its block, 0 while it is not on the chain
  subgraphHead, top, \* the subgraph's latest block, and the highest it ever was
  undone,    \* the latest change of each agreement that was ever taken back (ghost)
  applied,   \* the latest change of each agreement the registry has taken
  skipped,   \* the latest one the listener stepped over, with its alert
  cursor,    \* the listener's committed cursor, in memory
  saved,     \* the cursor in dipper_chain_listener_state
  hold,      \* cursor_hold: where the cursor is held, and for how long
  phase,     \* "idle", "fetch" or "apply": where drain_once is
  readFrom,  \* effective_cursor
  pin,       \* pinned_block, 0 before the drain's first page
  pages,     \* pages_per_tick
  page,      \* the answer being applied: its rows, the next cursor
  checkedFor, \* LiveChecks.queued: <<agreement, block>>
  asked,     \* changes whose check this process has queued
  again,     \* changes whose check this process has queued more than once
  cursorFaults \* faults so far (bounds the model, not the code)

chainVars  == <<block, subgraphHead, top, undone>>
drainVars  == <<phase, readFrom, pin, pages, page>>
checkVars  == <<checkedFor, asked, again>>
cursorVars ==
  <<block, subgraphHead, top, undone, applied, skipped, cursor, saved, hold, phase, readFrom,
    pin, pages, page, checkedFor, asked, again, cursorFaults>>

Ks       == 1 .. Changes
Blocks   == 0 .. MaxBlock + 1
Cursors  == Blocks \X ({0} \cup Agreements)
NoHold   == [at |-> <<0, 0>>, age |-> -1]
NoPage   == [rows |-> {}, next |-> <<0, 0>>]

CursorTypeOK ==
  /\ block \in [Agreements -> [Ks -> Blocks]]
  /\ subgraphHead \in Blocks /\ top \in Blocks
  /\ undone \in [Agreements -> 0 .. Changes]
  /\ applied \in [Agreements -> 0 .. Changes]
  /\ skipped \in [Agreements -> 0 .. Changes]
  /\ cursor \in Cursors /\ saved \in Cursors /\ readFrom \in Cursors
  /\ hold \in [at : Cursors, age : -1 .. MaxCursorHold]
  /\ phase \in {"idle", "fetch", "apply"}
  /\ pin \in Blocks /\ pages \in 0 .. MaxPages
  /\ page.rows \subseteq Agreements \X Ks \X Blocks /\ page.next \in Cursors
  /\ checkedFor \subseteq Agreements \X Blocks
  /\ asked \subseteq Agreements \X Blocks /\ again \subseteq asked
  /\ cursorFaults \in 0 .. CursorFaults

-----------------------------------------------------------------------------
(* Cursors.                                                                *)

(* The derived order of Cursor: the block, then None before any id.        *)
Less(c, d) == c[1] < d[1] \/ (c[1] = d[1] /\ c[2] < d[2])

AtBlock(b) == <<b, 0>>

(* Mutant: one block fewer is read again.                                  *)
EffectiveShort(c) ==
  IF Buffer > 0 /\ c[1] > Buffer THEN AtBlock(c[1] - Buffer + 1) ELSE c

(* Where a drain starts to read: `reorg_buffer_blocks` before the          *)
(* committed cursor, the id dropped.                                       *)
Effective(c) ==
  IF Buffer > 0 /\ c[1] > Buffer THEN AtBlock(c[1] - Buffer) ELSE c

(* The change an agreement's row stands for in the subgraph at block n.    *)
LatestChange(a, n) ==
  LET on == {k \in Ks : block[a][k] \in 1 .. n}
  IN IF on = {} THEN 0 ELSE Max(on)

(* A row: the agreement, its latest change and the block of that change.   *)
RowsAt(n) ==
  {<<a, LatestChange(a, n), block[a][LatestChange(a, n)]>> :
     a \in {x \in Agreements : LatestChange(x, n) > 0}}

Pos(r) == <<r[3], r[1]>>

LastRow(rows) ==
  Pos(CHOOSE r \in rows : \A s \in rows \ {r} : Less(Pos(s), Pos(r)))

(* The rows a query answers: those past the cursor, in order, at most a    *)
(* page of them.                                                           *)
FirstPage(c, n) ==
  LET past == {r \in RowsAt(n) : Less(c, Pos(r))}
  IN {r \in past :
        Cardinality({s \in past : Less(Pos(s), Pos(r))}) < SubgraphPage}

CursorInit ==
  /\ block = [a \in Agreements |-> [k \in Ks |-> 0]]
  /\ subgraphHead = StartBlock /\ top = StartBlock
  /\ undone = [a \in Agreements |-> 0]
  /\ applied = [a \in Agreements |-> 0]
  /\ skipped = [a \in Agreements |-> 0]
  /\ cursor = <<0, 0>> /\ saved = <<0, 0>>
  /\ hold = NoHold
  /\ phase = "idle" /\ readFrom = <<0, 0>> /\ pin = 0 /\ pages = 0
  /\ page = NoPage
  /\ checkedFor = {} /\ asked = {} /\ again = {}
  /\ cursorFaults = 0

-----------------------------------------------------------------------------
(* The chain.                                                              *)

CursorFault(n) == cursorFaults + n <= CursorFaults /\ cursorFaults' = cursorFaults + n

(* A block in which the agreements of S make their next change.            *)
MineBlock(S) ==
  /\ subgraphHead < MaxBlock
  /\ \A a \in S : LatestChange(a, subgraphHead) < Changes
  /\ subgraphHead' = subgraphHead + 1
  /\ top' = Max({top, subgraphHead + 1})
  /\ block' = [a \in Agreements |->
                 IF a \in S
                 THEN [block[a] EXCEPT ![LatestChange(a, subgraphHead) + 1] = subgraphHead + 1]
                 ELSE block[a]]
  /\ UNCHANGED <<undone, applied, skipped, cursor, saved, hold, drainVars, checkVars,
                 cursorFaults>>

(* The last blocks are orphaned; their changes wait for another block.     *)
Reorg(n) ==
  /\ n < subgraphHead /\ n >= top - ReorgDepth
  /\ CursorFault(1)
  /\ subgraphHead' = n
  /\ block' = [a \in Agreements |->
                 [k \in Ks |-> IF block[a][k] <= n THEN block[a][k] ELSE 0]]
  /\ undone' = [a \in Agreements |->
                  Max({undone[a]} \cup {k \in Ks : block[a][k] > n})]
  /\ UNCHANGED <<top, applied, skipped, cursor, saved, hold, drainVars,
                 checkVars>>

-----------------------------------------------------------------------------
(* A poll.                                                                 *)

(* Mutant: changes before the committed cursor are forgotten.              *)
ForgetBeforeCursor(c) == {q \in checkedFor : q[2] >= cursor[1]}

(* LiveChecks::forget_before.                                              *)
ForgetBefore(c) == {q \in checkedFor : q[2] >= c[1]}

(* The timer fires: the drain starts behind the committed cursor.          *)
StartDrain ==
  /\ phase = "idle"
  /\ phase' = "fetch"
  /\ readFrom' = Effective(cursor)
  /\ checkedFor' = ForgetBefore(Effective(cursor))
  /\ pin' = 0 /\ pages' = 0
  /\ UNCHANGED <<chainVars, applied, skipped, cursor, saved, hold, page, asked,
                 again, cursorFaults>>

(* drain_once returns, and its locals are gone.                            *)
DrainEnds ==
  /\ phase' = "idle" /\ readFrom' = <<0, 0>> /\ pin' = 0 /\ pages' = 0
  /\ page' = NoPage

View == IF pin = 0 THEN subgraphHead ELSE pin

(* Mutant: a drained page moves the cursor one block too far.              *)
NextCursorTooFar(answer, rows, bad) ==
  IF bad = {} /\ Cardinality(answer) < SubgraphPage THEN AtBlock(View + 2)
  ELSE IF rows = {} THEN readFrom ELSE LastRow(rows)

(* A drained page moves the cursor past the head; a full one past its last *)
(* row; one with a row that did not parse past the last row before it.     *)
NextCursor(answer, rows, bad) ==
  IF bad = {} /\ Cardinality(answer) < SubgraphPage THEN AtBlock(View + 1)
  ELSE IF rows = {} THEN readFrom ELSE LastRow(rows)

(* The answer to a query, of which the rows in `bad` do not parse. `told`  *)
(* is what of such a row can be read: its block and id, its block, or      *)
(* nothing, and then the cursor stays where the query started.             *)
Answer(bad, told) ==
  LET answer == FirstPage(readFrom, View)
      at(r)  == IF told = "row" THEN Pos(r) ELSE AtBlock(Pos(r)[1])
      rows   == {r \in answer \ bad :
                   told = "none" \/ \A b \in bad : Less(Pos(r), at(b))}
  IN [rows |-> rows,
      next |-> IF bad # {} /\ told = "none" THEN readFrom
               ELSE NextCursor(answer, rows, bad)]

Fetch ==
  /\ phase = "fetch"
  /\ pin <= subgraphHead
  /\ \E bad \in SUBSET FirstPage(readFrom, View), told \in {"row", "block", "none"} :
       /\ Cardinality(bad) <= 1
       /\ bad = {} => told = "row"
       /\ CursorFault(Cardinality(bad))
       /\ page' = Answer(bad, told)
  /\ pin' = View
  /\ phase' = "apply"
  /\ UNCHANGED <<chainVars, applied, skipped, cursor, saved, hold, readFrom, pages,
                 checkVars>>

(* The query fails: the subgraph is unreachable, answers for another block *)
(* than the pinned one, out of order or ahead of the wall clock, or no     *)
(* longer has the pinned block.                                            *)
FetchFails ==
  /\ phase = "fetch"
  /\ CursorFault(IF pin > subgraphHead THEN 0 ELSE 1)
  /\ DrainEnds
  /\ UNCHANGED <<chainVars, applied, skipped, cursor, saved, hold, checkVars>>

(* hold_expired: the cursor was held here for MAX_CURSOR_HOLD.             *)
HoldExpired == hold.age = MaxCursorHold /\ hold.at = cursor

(* The hold after a page: gone when all of it was applied or stepped over. *)
HoldAfter(failed) ==
  IF failed = {} \/ HoldExpired THEN NoHold
  ELSE IF hold.age >= 0 /\ hold.at = cursor THEN hold
  ELSE [at |-> cursor, age |-> 0]

(* Mutant: the cursor follows the page, forwards or backwards.             *)
AdvancesEitherWay(failed) ==
  (failed = {} \/ HoldExpired) /\ cursor # page.next

(* Mutant: the hold never runs out.                                        *)
NeverGivesUp(failed) == failed = {} /\ Less(cursor, page.next)

(* The cursor moves when every change was applied, or the hold ran out;    *)
(* never backwards.                                                        *)
Advances(failed) == (failed = {} \/ HoldExpired) /\ Less(cursor, page.next)

(* The change of agreement a among these rows, 0 if there is none.         *)
ChangeIn(rows, a) == Max({0} \cup {r[2] : r \in {s \in rows : s[1] = a}})

Raise(f, rows) ==
  [a \in Agreements |-> Max({f[a], ChangeIn(rows, a)})]

(* The checks to queue: of the changes of ended agreements, those not      *)
(* queued before.                                                          *)
FreshChecks(rows) ==
  {<<r[1], r[3]>> : r \in {s \in rows : s[1] \in EndedHere}} \ checkedFor

(* The page is applied, but for the changes that fail; the cursor and the  *)
(* hold follow; `stored` is the cursor in the database afterwards. A drain *)
(* goes on after a full page that moved the cursor.                        *)
Apply(failed, stored) ==
  LET fresh == FreshChecks(page.rows \ failed)
  IN /\ applied' = Raise(applied, page.rows \ failed)
     /\ skipped' = IF HoldExpired THEN Raise(skipped, failed) ELSE skipped
     /\ checkedFor' = checkedFor \cup fresh
     /\ asked' = asked \cup fresh
     /\ again' = again \cup (fresh \cap asked)
     /\ hold' = HoldAfter(failed)
     /\ cursor' = IF Advances(failed) THEN page.next ELSE cursor
     /\ saved' = stored
     /\ IF /\ Advances(failed)
           /\ Cardinality(page.rows) >= SubgraphPage
           /\ pages + 1 < MaxPages
        THEN /\ phase' = "fetch" /\ readFrom' = page.next /\ pages' = pages + 1
             /\ page' = NoPage
             /\ UNCHANGED pin
        ELSE DrainEnds
     /\ UNCHANGED chainVars

(* What fails of a page: a change that can never be applied, alone or with *)
(* the batch it rolls back, and under a fault any of its changes. What the *)
(* database holds after: the new cursor, or the old one when that write    *)
(* fails; with no advance the write is made only if the chain time moved.  *)
ApplyPage ==
  /\ phase = "apply"
  /\ \E failed \in SUBSET page.rows, stored \in {saved, cursor, page.next} :
       LET never  == {r \in page.rows : r[1] \in Poison}
           strays == ~(failed = never \/ (never # {} /\ failed = page.rows))
           stale  == Advances(failed) /\ stored # page.next
       IN /\ never \subseteq failed
          /\ IF Advances(failed) THEN stored \in {saved, page.next}
             ELSE stored \in {saved, cursor}
          /\ CursorFault((IF strays THEN 1 ELSE 0) + (IF stale THEN 1 ELSE 0))
          /\ Apply(failed, stored)

(* The hold's clock.                                                       *)
HoldAges ==
  /\ hold.age \in 0 .. MaxCursorHold - 1
  /\ hold' = [hold EXCEPT !.age = @ + 1]
  /\ UNCHANGED <<chainVars, applied, skipped, cursor, saved, drainVars,
                 checkVars, cursorFaults>>

(* The process stops or dies, wherever the drain is, and starts again from *)
(* the database.                                                           *)
Restart ==
  /\ CursorFault(1)
  /\ cursor' = saved
  /\ hold' = NoHold
  /\ DrainEnds
  /\ checkedFor' = {} /\ asked' = {} /\ again' = {}
  /\ UNCHANGED <<chainVars, applied, skipped, saved>>

Drain == StartDrain \/ Fetch \/ FetchFails \/ ApplyPage

CursorNext ==
  \/ \E S \in SUBSET Agreements : MineBlock(S)
  \/ \E n \in 0 .. MaxBlock : Reorg(n)
  \/ Drain
  \/ HoldAges
  \/ Restart

CursorSpec == CursorInit /\ [][CursorNext]_cursorVars

(* The poll loop never blocks for good and the hold's clock is the         *)
(* machine's; the chain owes nothing.                                      *)
CursorFairSpec == CursorSpec /\ WF_cursorVars(Drain) /\ WF_cursorVars(HoldAges)

-----------------------------------------------------------------------------
(* What the next drain from cursor c no longer reads.                      *)
Passed(c, a, k) == k > 0 /\ ~Less(Effective(c), <<block[a][k], a>>)

Taken(a, k) == applied[a] >= k \/ skipped[a] >= k

(* Of it, what was not applied or stepped over with an alert had been      *)
(* followed by a change that was taken back.                               *)
Accounted(c) ==
  \A a \in Agreements :
    LET k == LatestChange(a, subgraphHead)
    IN Passed(c, a, k) => Taken(a, k) \/ undone[a] > k

(* NothingLost. Whatever reorganisations, failed reads and writes, rows    *)
(* that do not parse and restarts there are, a change behind the place the *)
(* next drain starts from, be it from the cursor in memory or from the one *)
(* in the database, was applied, or stepped over with its alert after      *)
(* MAX_CURSOR_HOLD: drain_once's cursor never passes a change in silence.  *)
(* One case is exempt, which the buffer does not cover: a change that a    *)
(* later one of its agreement, on a page not yet read, hid when the cursor *)
(* passed it, and that is the latest again when a reorg takes that later   *)
(* one back (see ReorgsReread).                                            *)
NothingLost == Accounted(cursor) /\ Accounted(saved)

(* ReorgsReread. What the blocks that every poll re-reads are for: "a      *)
(* reorg that moves a state change across the cursor boundary is still     *)
(* picked up" (reorg_buffer_blocks in config.rs). Not so in the case that  *)
(* NothingLost exempts, and no run checks it.                              *)
ReorgsReread ==
  \A a \in Agreements :
    LET k == LatestChange(a, subgraphHead)
    IN Passed(cursor, a, k) => Taken(a, k)

(* CheckedOnce. The reorg buffer and a held cursor read a change again and *)
(* again, and a process queues its chain check once: what LiveChecks       *)
(* forgets is never read again.                                            *)
CheckedOnce == again = {}

(* CursorForward. Neither the committed cursor nor the stored one ever     *)
(* moves back, but for the one in memory at a restart.                     *)
CursorForward ==
  /\ ~Less(saved', saved)
  /\ Less(cursor', cursor) => cursor' = saved

(* A page's worth of rows fits in what the reorg buffer reads again.       *)
BufferFull ==
  Cardinality({r \in RowsAt(subgraphHead) :
     Less(Effective(cursor), Pos(r)) /\ ~Less(cursor, Pos(r))}) >= SubgraphPage

Reached(a, k) == block[a][k] = 0 \/ Taken(a, k) \/ undone[a] > k

(* EverySnapshotReconciled. A change on the chain is eventually applied or *)
(* stepped over, or orphaned, itself or a later one: "every snapshot past  *)
(* the per-query cap still gets reconciled".                               *)
EverySnapshotReconciled ==
  \A a \in Agreements, k \in Ks : block[a][k] # 0 ~> Reached(a, k)

(* ChangesReached. The same, as long as the reorg buffer does not go on    *)
(* holding a full page of changes: a change that can never be applied      *)
(* holds up the later ones no longer than MAX_CURSOR_HOLD.                 *)
ChangesReached == <>[]~BufferFull => EverySnapshotReconciled
=============================================================================
