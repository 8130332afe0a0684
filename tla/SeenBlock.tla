------------------------------ MODULE SeenBlock ------------------------------
(***************************************************************************)
(* The newest block dipper has seen (SeenBlock in chain_client/client.rs)  *)
(* and the reads that go by it: view_at_seen_block and                     *)
(* latest_block_timestamp, which ask the endpoints of the pool in turn and *)
(* refuse one that is behind it, or too far ahead to be real; the cross    *)
(* check of the endpoints, and the receipts that confirm it.               *)
(*                                                                         *)
(* A right endpoint reports a block within AgreeWithin of the head: it may *)
(* lag a little, differ from one request to the next, and its latest block *)
(* is reused for a while (EndpointHeads). At most one endpoint is faulty,  *)
(* and stays at a fixed distance from the head. The clock counts in units  *)
(* in which the chain adds at most one block; they are minutes, long       *)
(* beside CROSS_CHECK_DEADLINE and the timeout of one request, so a cross  *)
(* check and a call end in the unit in which they ask for a latest block.  *)
(***************************************************************************)
EXTENDS Integers, FiniteSetsExt

CONSTANTS
  Nodes,         \* the endpoints
  Faulty,        \* the one that may be faulty
  Silent,        \* those that may leave a cross check unanswered
  BlockReaders,  \* concurrent reads
  AheadBy,       \* how far ahead of the head the faulty endpoint may be
  BehindBy,      \* how far behind it
  StartHead,     \* the chain's head at the start
  AgreeWithin,   \* AGREE_WITHIN_BLOCKS
  WeekOfBlocks,  \* WEEK_OF_BLOCKS
  CheckEvery,    \* CROSS_CHECK_INTERVAL
  MaxTime        \* bound on the clock

ASSUME SeenAssumption ==
  /\ {StartHead, AgreeWithin, WeekOfBlocks, CheckEvery, MaxTime} \subseteq Nat
  /\ AheadBy \subseteq Nat /\ IsFiniteSet(AheadBy)
  /\ BehindBy \subseteq 0 .. StartHead
  /\ AgreeWithin < WeekOfBlocks /\ AgreeWithin < StartHead
  /\ IsFiniteSet(Nodes) /\ Cardinality(Nodes) >= 3
  /\ Faulty \in Nodes /\ Silent \subseteq Nodes

VARIABLES
  time, head,  \* the clock and the chain's head
  offset,      \* the faulty endpoint's distance from the head
  seen,        \* the fields of SeenBlock
  read,        \* [reader -> the locals of its read]
  served,      \* the newest block read at that was remembered (ghost)
  confirmedAt  \* when the number was first confirmed (ghost)

seenVars == <<time, head, offset, seen, read, served, confirmedAt>>

NoBlock   == -1
Unbounded == StartHead + MaxTime + WeekOfBlocks + Max(AheadBy \cup {0}) + 1
FaultyOffsets == AheadBy \cup {-b : b \in BehindBy}

(* What a node may report as its latest block.                             *)
Latest(n) == IF n = Faulty THEN {head + offset} ELSE head - AgreeWithin .. head

BlockNumber == 0 .. Unbounded + MaxTime + WeekOfBlocks

SeenTypeOK ==
  /\ time \in 0 .. MaxTime /\ head \in StartHead .. StartHead + MaxTime
  /\ offset \in FaultyOffsets
  /\ seen \in [number : BlockNumber, movedAt : 0 .. MaxTime, confirmed : BOOLEAN,
               checkedAt : {NoBlock} \cup 0 .. MaxTime, jump : BOOLEAN]
  /\ read \in [BlockReaders ->
       [at : {"idle", "checking", "agreed", "asking", "noting"},
        lowest : BlockNumber, highest : BlockNumber,
        block : BlockNumber \cup {NoBlock},
        real : BOOLEAN, floor : BlockNumber]]
  /\ served \in BlockNumber /\ confirmedAt \in 0 .. MaxTime

NoRead == [at |-> "idle", lowest |-> 0, highest |-> 0, block |-> NoBlock,
           real |-> TRUE, floor |-> 0]

SeenInit ==
  /\ time = 0 /\ head = StartHead
  /\ offset \in FaultyOffsets
  /\ seen = [number |-> 0, movedAt |-> 0, confirmed |-> FALSE,
             checkedAt |-> NoBlock, jump |-> FALSE]
  /\ read = [r \in BlockReaders |-> NoRead]
  /\ served = 0 /\ confirmedAt = 0

-----------------------------------------------------------------------------
(* SeenBlock's own operations, on its fields s.                            *)

(* The highest block one endpoint alone may move a confirmed number to.    *)
LoneLimit(s) == s.number + AgreeWithin + (time - s.movedAt)

BelievableLimit(s) == s.number + WeekOfBlocks + (time - s.movedAt)

Take(s, block) ==
  IF block > s.number THEN [s EXCEPT !.number = block, !.movedAt = time] ELSE s

(* Mutant: one endpoint's word is enough.                                  *)
AdvanceAlone(s, block) ==
  IF s.confirmed /\ block > BelievableLimit(s) THEN s ELSE Take(s, block)

(* advance: a block one endpoint reported. Once confirmed, one too far to  *)
(* be real is refused, and one past the lone limit waits for two to agree. *)
Advance(s, block) ==
  CASE s.confirmed /\ block > BelievableLimit(s) -> s
    [] s.confirmed /\ block <= BelievableLimit(s) /\ block > LoneLimit(s)
         -> [s EXCEPT !.jump = TRUE]
    [] OTHER -> Take(s, block)

(* Mutant: a block behind the number confirms nothing.                     *)
ConfirmOnlyNewer(s, block) ==
  IF s.number > block THEN s
  ELSE [Take(s, block) EXCEPT !.jump = FALSE, !.confirmed = TRUE]

(* confirm: a block the chain is known to have reached. It replaces an     *)
(* unconfirmed number that is too far past it.                             *)
Confirm(s, block) ==
  LET c == [s EXCEPT !.jump = FALSE]
  IN CASE s.confirmed /\ block <= BelievableLimit(s) -> Take(c, block)
       [] s.confirmed /\ block > BelievableLimit(s)  -> c
       [] ~s.confirmed /\ (block > s.number \/ s.number > block + AgreeWithin)
            -> [c EXCEPT !.number = block, !.movedAt = time, !.confirmed = TRUE]
       [] OTHER -> [c EXCEPT !.confirmed = TRUE]

CrossCheckDue(s) ==
  /\ ~s.confirmed \/ s.jump
  /\ s.checkedAt = NoBlock \/ time - s.checkedAt >= CheckEvery

(* agreed_head: the newest of the reported blocks that most nodes agree    *)
(* on, at least two of them.                                               *)
AgreedHead(heads) ==
  LET agree(b) == {n \in DOMAIN heads : heads[n] <= b /\ b - heads[n] <= AgreeWithin}
      backed(n) == Cardinality(agree(heads[n]))
      best     == Max({backed(n) : n \in DOMAIN heads} \cup {0})
  IN IF best < 2 THEN NoBlock
     ELSE Max({heads[n] : n \in {m \in DOMAIN heads : backed(m) = best}})

-----------------------------------------------------------------------------
Tick ==
  /\ time < MaxTime
  /\ \A r \in BlockReaders : read[r].at \notin {"checking", "agreed", "noting"}
  /\ time' = time + 1
  /\ head' \in {head, head + 1}
  /\ UNCHANGED <<offset, seen, read, served, confirmedAt>>

(* block_bounds, of the fields s.                                          *)
Highest(s) == IF s.confirmed THEN BelievableLimit(s) ELSE Unbounded

Bounded(r, s) ==
  [read[r] EXCEPT !.at = "asking", !.lowest = s.number, !.highest = Highest(s),
                  !.block = NoBlock]

(* The fields a read starts from: a cross check that is due is made.       *)
BeforeRead ==
  IF CrossCheckDue(seen) THEN [seen EXCEPT !.checkedAt = time] ELSE seen

(* A read starts; when a cross check is due it makes that first.           *)
StartRead(r) ==
  /\ read[r].at = "idle"
  /\ seen' = BeforeRead
  /\ read' = [read EXCEPT ![r] =
       [IF CrossCheckDue(seen) THEN [@ EXCEPT !.at = "checking"] ELSE Bounded(r, seen)
          EXCEPT !.floor = served]]
  /\ UNCHANGED <<time, head, offset, served, confirmedAt>>

(* latest_blocks and agreed_head: what may come of asking every node, of   *)
(* which some do not answer in time.                                       *)
CrossChecks ==
  {AgreedHead(heads) : heads \in
     UNION {{h \in [Nodes \ silent -> UNION {Latest(n) : n \in Nodes}] :
               \A n \in Nodes \ silent : h[n] \in Latest(n)} : silent \in SUBSET Silent}}

CollectHeads(r) ==
  /\ read[r].at = "checking"
  /\ \E agreed \in CrossChecks :
       read' = [read EXCEPT ![r].at = "agreed", ![r].block = agreed]
  /\ UNCHANGED <<time, head, offset, seen, served, confirmedAt>>

CrossChecked(s, agreed) == IF agreed = NoBlock THEN s ELSE Confirm(s, agreed)

(* The first confirmation is remembered.                                   *)
FirstConfirmed ==
  confirmedAt' = IF ~seen.confirmed /\ seen'.confirmed THEN time ELSE confirmedAt

(* What they agree on is taken as confirmed, and the read goes on.         *)
ConfirmAgreed(r) ==
  /\ read[r].at = "agreed"
  /\ seen' = CrossChecked(seen, read[r].block)
  /\ read' = [read EXCEPT ![r] = Bounded(r, seen')]
  /\ FirstConfirmed
  /\ UNCHANGED <<time, head, offset, served>>

(* Mutant: the read takes an endpoint that is behind.                      *)
RefusedOnlyAhead(r, block) == block > read[r].highest

(* An endpoint behind the newest block seen, or too far ahead of it.       *)
Refused(r, block) == block < read[r].lowest \/ block > read[r].highest

(* An endpoint is asked for its latest block, and the call made there.     *)
AskNode(r, n) ==
  /\ read[r].at = "asking"
  /\ \E block \in Latest(n) :
       /\ ~Refused(r, block)
       /\ read' = [read EXCEPT ![r].at = "noting", ![r].block = block,
                               ![r].real = (block <= head)]
  /\ UNCHANGED <<time, head, offset, seen, served, confirmedAt>>

(* Every endpoint was refused or failed: so does the read.                 *)
ReadFailed(r) ==
  /\ read[r].at = "asking"
  /\ read' = [read EXCEPT ![r] = NoRead]
  /\ UNCHANGED <<time, head, offset, seen, served, confirmedAt>>

(* latest_block_timestamp: the cross check, and a read that a lagging      *)
(* endpoint may serve, as its time is only a little early.                 *)
ReadTime ==
  /\ \E agreed \in IF CrossCheckDue(seen) THEN CrossChecks ELSE {NoBlock} :
       LET checked == CrossChecked(BeforeRead, agreed)
       IN \E block \in UNION {Latest(n) : n \in Nodes} :
            block <= Highest(checked) /\ seen' = Advance(checked, block)
  /\ FirstConfirmed
  /\ UNCHANGED <<time, head, offset, read, served>>

(* The call has answered: the block is noted and the answer used. A block  *)
(* over a minute ahead is not remembered until two endpoints agree on it.  *)
NoteBlock(r) ==
  /\ read[r].at = "noting"
  /\ seen' = Advance(seen, read[r].block)
  /\ served' = IF read[r].real /\ read[r].block <= seen'.number
               THEN Max({served, read[r].block}) ELSE served
  /\ read' = [read EXCEPT ![r] = NoRead]
  /\ UNCHANGED <<time, head, offset, confirmedAt>>

(* A receipt names the block that mined it.                                *)
ReceiptConfirms ==
  /\ \E block \in head - AgreeWithin .. head : seen' = Confirm(seen, block)
  /\ FirstConfirmed
  /\ UNCHANGED <<time, head, offset, read, served>>

ReadStep(r) ==
  \/ StartRead(r) \/ CollectHeads(r) \/ ConfirmAgreed(r)
  \/ (\E n \in Nodes : AskNode(r, n)) \/ ReadFailed(r) \/ NoteBlock(r)

SeenNext == Tick \/ ReceiptConfirms \/ ReadTime \/ \E r \in BlockReaders : ReadStep(r)

(* Time passes, and the services that read go on reading: every request    *)
(* and the cross check have their timeouts.                                *)
SeenFairness ==
  /\ WF_seenVars(Tick)
  /\ \A r \in BlockReaders : WF_seenVars(ReadStep(r))

SeenSpec     == SeenInit /\ [][SeenNext]_seenVars
SeenFairSpec == SeenSpec /\ SeenFairness

-----------------------------------------------------------------------------
(* ReadsNeverGoBack. Of the reads at blocks the chain has, none is older,  *)
(* but for a minute of blocks, than one that had ended before it started   *)
(* and was remembered (note_block): an endpoint far behind cannot undo     *)
(* what dipper saw, while the endpoints are cross-checked, a faulty one    *)
(* moves the number and it is set back. A read at a block over a minute    *)
(* ahead, which waits for two endpoints to agree, binds no later read.     *)
ReadsNeverGoBack ==
  \A r \in BlockReaders :
    read[r].at = "noting" /\ read[r].real /\ read'[r].at = "idle"
      => read[r].block + AgreeWithin >= read[r].floor

(* The furthest the chain can be, at its fastest, and a minute of blocks.  *)
Reachable == StartHead + time + AgreeWithin

(* SeenIsReal. A confirmed number is one the chain can have reached, but   *)
(* for a minute of blocks and those of the time it took to confirm it      *)
(* first, whatever block the faulty endpoint reports and however long      *)
(* nothing else was read. While it is unconfirmed the faulty endpoint may  *)
(* set it, and confirm keeps such a number once the chain has come within  *)
(* a minute of it.                                                         *)
SeenIsReal == seen.confirmed => seen.number <= Reachable + confirmedAt

(* SeenSettles. Whatever the faulty endpoint first made of it, the number  *)
(* comes to be such a one: no block far ahead refuses every read for good. *)
SeenSettles == <>[](seen.number <= Reachable)
=============================================================================
