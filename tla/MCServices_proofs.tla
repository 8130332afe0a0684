-------------------------- MODULE MCServices_proofs --------------------------
(***************************************************************************)
(* Proofs about a worker's loops and a loop's subscription, about the      *)
(* alerts and about the events, for any number of loops, alerts, events    *)
(* and keys and any timeouts and queues that fit together, and what is     *)
(* proved of them and of the process carried over to the specification     *)
(* that explores the services side by side.                                *)
(***************************************************************************)
EXTENDS MCServices, Services_proofs

-----------------------------------------------------------------------------
(* The worker's loops.                                                     *)

(* How old a watermark can be, by where its loop is in its turn: the tick, *)
(* the wait for a connection and the job are bounded by their timeouts.    *)
AgeBounded ==
  \A l \in Loops :
    /\ wkAt[l] = "tick" =>
         wkAge[l] <= AcquireTimeout + JobTimeout + wkSpent[l] /\ wkSpent[l] <= TickTime
    /\ wkAt[l] = "wantPop" => wkAge[l] <= wkSpent[l] /\ wkSpent[l] <= AcquireTimeout
    /\ wkAt[l] \in {"job", "wantQuery", "query"} =>
         wkAge[l] <= AcquireTimeout + wkSpent[l] /\ wkSpent[l] <= JobTimeout

(* The watermark of a wedged loop is as old as its hang.                   *)
StuckBounded ==
  \A l \in Loops : wkStuck[l] <= wkAge[l] /\ (wkStuck[l] > 0 => wkAt[l] = "wedged")

(* A joined loop has ended, and its death was seen; the worker ends last.  *)
LoopJoinsSound ==
  /\ \A l \in wkJoined : wkAt[l] \in LoopEnded /\ (wkAt[l] = "died" => wkFailed)
  /\ wkWorker # "run" => wkJoined = Loops
  /\ wkWorker = "ok" => ~wkFailed

PoolSized == wkPool >= RequiredConns(Cardinality(Loops))

LoopsInv == /\ LoopsTypeOK
            /\ AgeBounded
            /\ StuckBounded
            /\ LoopJoinsSound
            /\ PoolSized

(* LoopTimes. The timeouts, as numbers.                                    *)
LEMMA LoopTimes ==
  /\ JobTimeout \in Nat \ {0} /\ AcquireTimeout \in Nat \ {0} /\ TickTime \in Nat \ {0}
  /\ Background \in Nat \ {0} /\ MaxPool \in Nat \ {0} /\ Threshold \in Nat
  /\ TurnTime \in Nat /\ TurnTime = TickTime + AcquireTimeout + JobTimeout
<1>1. /\ JobTimeout \in Nat \ {0} /\ AcquireTimeout \in Nat \ {0} /\ TickTime \in Nat \ {0}
      /\ Background \in Nat \ {0} /\ MaxPool \in Nat \ {0} /\ Threshold \in Nat
  BY WorkerLoopsAssumption, Zenon
<1>. QED
  BY <1>1 DEF TurnTime

LoopPlaces == {"tick", "wantPop"} \cup HoldsTx \cup LoopEnded

(* LoopsTyped. The type invariant with its bounds as numbers.              *)
LoopsTyped ==
  /\ wkPool \in 1 .. MaxPool
  /\ wkAt \in [Loops -> LoopPlaces]
  /\ wkListens \subseteq Loops /\ wkJoined \subseteq Loops
  /\ wkSpent \in [Loops -> 0 .. TurnTime]
  /\ wkAge \in [Loops -> 0 .. Threshold + 1]
  /\ wkStuck \in [Loops -> 0 .. Threshold + 1]
  /\ wkOthers \in 0 .. Background
  /\ wkStop \in BOOLEAN /\ wkFailed \in BOOLEAN
  /\ wkWorker \in {"run", "ok", "err"}

(* LoopsTypeIs. The type invariant of the loops, from its parts.           *)
LEMMA LoopsTypeIs == (LoopsTypeOK <=> LoopsTyped) /\ (LoopsTypeOK' <=> LoopsTyped')
BY LoopTimes DEF LoopsTypeOK, LoopsTyped, LoopPlaces

(* LoopNumbers. The clocks of a loop are numbers.                          *)
LEMMA LoopNumbers ==
  ASSUME LoopsTypeOK, NEW l \in Loops
  PROVE  /\ wkSpent[l] \in Nat /\ wkAge[l] \in Nat /\ wkStuck[l] \in Nat
         /\ wkAge[l] <= Threshold + 1 /\ wkStuck[l] <= Threshold + 1
         /\ wkAt[l] \in LoopPlaces
<1>1. wkSpent[l] \in 0 .. TurnTime /\ wkAge[l] \in 0 .. Threshold + 1
      /\ wkStuck[l] \in 0 .. Threshold + 1 /\ wkAt[l] \in LoopPlaces
  BY LoopsTypeIs DEF LoopsTyped
<1>. QED
  BY <1>1, LoopTimes

(* InitLoopsInv. The invariant holds as the worker starts.                 *)
LEMMA InitLoopsInv == LoopsInit => LoopsInv
<1>. SUFFICES ASSUME LoopsInit PROVE LoopsInv
  OBVIOUS
<1>. USE DEF LoopsInit
<1>0. 0 \in 0 .. TurnTime /\ 0 \in 0 .. Threshold + 1 /\ 0 \in 0 .. Background
  BY LoopTimes
<1>1. LoopsTyped
  BY <1>0 DEF LoopsTyped, LoopPlaces
<1>2. AgeBounded
  BY LoopTimes DEF AgeBounded
<1>3. StuckBounded
  BY DEF StuckBounded
<1>4. LoopJoinsSound
  BY DEF LoopJoinsSound
<1>5. PoolSized
  <2>1. Cardinality(Loops) \in Nat
    BY WorkerLoopsAssumption, FS_CardinalityType
  <2>2. wkPool \in Nat /\ RequiredConns(Cardinality(Loops)) <= wkPool
    BY LoopTimes
  <2>. QED
    BY <2>1, <2>2 DEF PoolSized, RequiredConns
<1>. QED
  BY <1>1, <1>2, <1>3, <1>4, <1>5, LoopsTypeIs DEF LoopsInv

(* LoopMoves. A loop that has not ended and is not wedged moves on.        *)
LEMMA LoopMoves ==
  ASSUME LoopsInv, NEW l \in Loops, NEW where \in LoopPlaces, NEW spent \in 0 .. JobTimeout,
         Moves(l, where, spent), where # "wantPop",
         wkAt[l] \notin LoopEnded \cup {"wedged"},
         where \in {"job", "wantQuery", "query"} => wkAge[l] <= AcquireTimeout + spent,
         where = "tick" => wkAge[l] <= AcquireTimeout + JobTimeout /\ spent = 0,
         UNCHANGED <<wkAge, wkStuck>>, wkListens' \subseteq Loops
  PROVE  LoopsInv'
<1>. USE DEF LoopsInv
<1>1. /\ wkAt' = [wkAt EXCEPT ![l] = where] /\ wkSpent' = [wkSpent EXCEPT ![l] = spent]
      /\ UNCHANGED <<wkPool, wkOthers, wkStop, wkJoined, wkFailed, wkWorker>>
  BY DEF Moves
<1>2. LoopsTyped'
  <2>1. spent \in 0 .. TurnTime
    BY LoopTimes
  <2>. QED
    BY <1>1, <2>1, LoopsTypeIs DEF LoopsTyped
<1>3. /\ wkAt'[l] = where /\ wkSpent'[l] = spent
      /\ \A k \in Loops : k # l => wkAt'[k] = wkAt[k] /\ wkSpent'[k] = wkSpent[k]
  BY <1>1, LoopsTypeIs DEF LoopsTyped
<1>4. AgeBounded'
  <2>1. 0 <= TickTime /\ spent <= JobTimeout /\ AcquireTimeout + JobTimeout + 0 = AcquireTimeout + JobTimeout
    BY LoopTimes
  <2>. QED
    BY <1>1, <1>3, <2>1 DEF AgeBounded
<1>5. StuckBounded'
  BY <1>1, <1>3, LoopNumbers DEF StuckBounded
<1>6. LoopJoinsSound'
  BY <1>1, <1>3, LoopsTypeIs DEF LoopJoinsSound, LoopsTyped
<1>7. PoolSized'
  BY <1>1 DEF PoolSized
<1>. QED
  BY <1>2, <1>4, <1>5, <1>6, <1>7, LoopsTypeIs

(* NextTickKeeps. A loop that ticks renews its watermark.                  *)
LEMMA NextTickKeeps ==
  ASSUME LoopsInv, NEW l \in Loops, NextTick(l)
  PROVE  LoopsInv'
<1>. USE DEF LoopsInv
<1>0. 0 \in 0 .. JobTimeout /\ wkAt[l] = "tick" /\ UNCHANGED wkStuck /\ wkListens \subseteq Loops
  BY LoopTimes, LoopsTypeIs DEF NextTick, LoopsTyped
<1>1. CASE wkStop
  BY <1>0, <1>1, LoopMoves DEF NextTick, LoopPlaces, LoopEnded
<1>2. CASE ~wkStop
  <2>1. /\ wkAt' = [wkAt EXCEPT ![l] = "wantPop"] /\ wkSpent' = [wkSpent EXCEPT ![l] = 0]
        /\ wkAge' = [wkAge EXCEPT ![l] = 0]
        /\ UNCHANGED <<wkPool, wkOthers, wkStop, wkJoined, wkFailed, wkWorker, wkListens, wkStuck>>
    BY <1>2 DEF NextTick, Moves, TickProgress
  <2>2. LoopsTyped'
    <3>1. 0 \in 0 .. Threshold + 1
      BY LoopTimes
    <3>. QED
      BY <1>0, <2>1, <3>1, LoopTimes, LoopsTypeIs DEF LoopsTyped, LoopPlaces
  <2>3. /\ wkAt'[l] = "wantPop" /\ wkSpent'[l] = 0 /\ wkAge'[l] = 0
        /\ \A k \in Loops : k # l => /\ wkAt'[k] = wkAt[k] /\ wkSpent'[k] = wkSpent[k]
                                     /\ wkAge'[k] = wkAge[k]
    BY <2>1, LoopsTypeIs DEF LoopsTyped
  <2>4. AgeBounded'
    BY <2>3, LoopTimes DEF AgeBounded
  <2>5. StuckBounded'
    <3>1. wkStuck[l] = 0
      BY <1>0, LoopNumbers DEF StuckBounded
    <3>. QED
      BY <2>1, <2>3, <3>1 DEF StuckBounded
  <2>6. LoopJoinsSound'
    BY <1>0, <2>1, <2>3, LoopsTypeIs DEF LoopJoinsSound, LoopsTyped, LoopEnded
  <2>7. PoolSized'
    BY <2>1 DEF PoolSized
  <2>. QED
    BY <2>2, <2>4, <2>5, <2>6, <2>7, LoopsTypeIs
<1>. QED
  BY <1>1, <1>2

(* The other moves of a loop: each keeps the time spent or starts anew.    *)
LEMMA LoopStepKeeps ==
  ASSUME LoopsInv, NEW l \in Loops,
         Pop(l) \/ Query(l) \/ JobEnds(l) \/ Wedges(l) \/ Panics(l)
  PROVE  LoopsInv'
<1>. USE DEF LoopsInv
<1>0. /\ 0 \in 0 .. JobTimeout /\ wkListens \subseteq Loops
      /\ AcquireTimeout \in Nat /\ JobTimeout \in Nat /\ wkAge[l] \in Nat /\ wkSpent[l] \in Nat
      /\ wkAt[l] \in {"job", "wantQuery", "query"} => wkSpent[l] \in 0 .. JobTimeout
  BY LoopTimes, LoopsTypeIs, LoopNumbers DEF LoopsTyped, AgeBounded
<1>1. PICK where \in LoopPlaces \ {"wantPop"}, spent \in 0 .. JobTimeout :
        /\ Moves(l, where, spent)
        /\ wkAt[l] \in {"wantPop", "job", "wantQuery", "query"}
        /\ where \in {"job", "wantQuery", "query"} =>
             \/ wkAt[l] = "wantPop" /\ spent = 0
             \/ wkAt[l] # "wantPop" /\ spent = wkSpent[l]
        /\ where = "tick" => spent = 0
  <2>1. CASE Pop(l)
    BY <1>0, <2>1 DEF Pop, LoopPlaces, HoldsTx
  <2>2. CASE Query(l)
    BY <1>0, <2>2 DEF Query, LoopPlaces, HoldsTx
  <2>3. CASE JobEnds(l)
    BY <1>0, <2>3 DEF JobEnds, LoopPlaces, HoldsTx
  <2>4. CASE Wedges(l)
    BY <1>0, <2>4 DEF Wedges, LoopPlaces, HoldsTx
  <2>5. CASE Panics(l)
    BY <1>0, <2>5 DEF Panics, LoopPlaces, LoopEnded
  <2>. QED
    BY <2>1, <2>2, <2>3, <2>4, <2>5
<1>2. UNCHANGED <<wkAge, wkStuck>> /\ wkListens' \subseteq Loops
  BY <1>0 DEF Pop, Query, JobEnds, Wedges, Panics
<1>3. where \in {"job", "wantQuery", "query"} => wkAge[l] <= AcquireTimeout + spent
  <2>1. CASE wkAt[l] = "wantPop"
    BY <1>0, <1>1, <2>1 DEF AgeBounded
  <2>2. CASE wkAt[l] \in {"job", "wantQuery", "query"}
    BY <1>0, <1>1, <2>2 DEF AgeBounded
  <2>. QED
    BY <1>1, <2>1, <2>2
<1>4. where \in LoopPlaces /\ where # "wantPop" /\ wkAt[l] \notin LoopEnded \cup {"wedged"}
  BY <1>1 DEF LoopEnded
<1>5. wkAge[l] <= AcquireTimeout + JobTimeout
  <2>1. CASE wkAt[l] = "wantPop"
    BY <1>0, <2>1 DEF AgeBounded
  <2>2. CASE wkAt[l] \in {"job", "wantQuery", "query"}
    BY <1>0, <2>2 DEF AgeBounded
  <2>. QED
    BY <1>1, <2>1, <2>2
<1>. QED
  BY <1>1, <1>2, <1>3, <1>4, <1>5, LoopMoves

(* What moves no loop.                                                     *)
LEMMA OthersKeep ==
  ASSUME LoopsInv,
         \/ OtherTakes \/ OtherReturns \/ StopWorker
         \/ \E l \in Loops : Listens(l)
  PROVE  LoopsInv'
<1>. USE DEF LoopsInv
<1>1. /\ UNCHANGED <<wkPool, wkAt, wkSpent, wkAge, wkStuck, wkJoined, wkFailed, wkWorker>>
      /\ wkListens' \subseteq Loops
  BY LoopsTypeIs DEF OtherTakes, OtherReturns, StopWorker, Listens, LoopsTyped
<1>2. wkOthers \in 0 .. Background /\ Background \in Nat
  BY LoopsTypeIs, LoopTimes DEF LoopsTyped
<1>3. wkOthers' \in 0 .. Background
  BY <1>2 DEF OtherTakes, OtherReturns, StopWorker, Listens
<1>4. wkStop' \in BOOLEAN
  BY LoopsTypeIs DEF OtherTakes, OtherReturns, StopWorker, Listens, LoopsTyped
<1>5. LoopsTyped'
  BY <1>1, <1>3, <1>4, LoopsTypeIs DEF LoopsTyped
<1>6. AgeBounded' /\ StuckBounded' /\ LoopJoinsSound' /\ PoolSized'
  BY <1>1 DEF AgeBounded, StuckBounded, LoopJoinsSound, PoolSized
<1>. QED
  BY <1>5, <1>6, LoopsTypeIs

(* JoinLoopKeeps. Joining a loop records its death.                        *)
LEMMA JoinLoopKeeps ==
  ASSUME LoopsInv, NEW l \in Loops, JoinLoop(l)
  PROVE  LoopsInv'
<1>. USE DEF LoopsInv
<1>1. /\ wkWorker = "run" /\ wkAt[l] \in LoopEnded /\ wkJoined' = wkJoined \cup {l}
      /\ wkFailed' = (wkFailed \/ wkAt[l] = "died") /\ wkStop' = TRUE
      /\ UNCHANGED <<wkPool, wkAt, wkListens, wkSpent, wkAge, wkStuck, wkOthers, wkWorker>>
  BY DEF JoinLoop, LoopFailed, StopsOthers
<1>2. wkFailed' \in BOOLEAN /\ (wkFailed => wkFailed') /\ (wkAt[l] = "died" => wkFailed')
  BY <1>1, Zenon
<1>3. LoopsTyped'
  BY <1>1, <1>2, LoopsTypeIs DEF LoopsTyped
<1>4. LoopJoinsSound'
  BY <1>1, <1>2 DEF LoopJoinsSound
<1>5. AgeBounded' /\ StuckBounded' /\ PoolSized'
  BY <1>1 DEF AgeBounded, StuckBounded, PoolSized
<1>. QED
  BY <1>3, <1>4, <1>5, LoopsTypeIs

(* WorkerEndsKeeps. The worker ends after the last join.                   *)
LEMMA WorkerEndsKeeps ==
  ASSUME LoopsInv, WorkerEnds
  PROVE  LoopsInv'
<1>. USE DEF LoopsInv
<1>1. /\ wkJoined = Loops /\ wkWorker' = IF wkFailed THEN "err" ELSE "ok"
      /\ UNCHANGED <<wkPool, wkAt, wkListens, wkSpent, wkAge, wkStuck, wkOthers, wkStop,
                     wkJoined, wkFailed>>
  BY DEF WorkerEnds
<1>2. LoopsTyped'
  BY <1>1, LoopsTypeIs DEF LoopsTyped
<1>3. LoopJoinsSound'
  BY <1>1 DEF LoopJoinsSound
<1>4. AgeBounded' /\ StuckBounded' /\ PoolSized'
  BY <1>1 DEF AgeBounded, StuckBounded, PoolSized
<1>. QED
  BY <1>2, <1>3, <1>4, LoopsTypeIs

(* LoopsTickKeeps. Time passes: a loop at its tick, one that waits and one *)
(* that works are each within their timeout.                               *)
LEMMA LoopsTickKeeps ==
  ASSUME LoopsInv, LoopsTick
  PROVE  LoopsInv'
<1>. USE DEF LoopsInv
<1>1. UNCHANGED <<wkPool, wkAt, wkListens, wkOthers, wkStop, wkJoined, wkFailed, wkWorker>>
  BY DEF LoopsTick
<1>2. ASSUME NEW l \in Loops
      PROVE  /\ wkAt[l] = "tick" => wkSpent[l] < TickTime
             /\ wkAt[l] = "wantPop" => wkSpent[l] < AcquireTimeout
             /\ wkAt[l] \in {"job", "wantQuery", "query"} => wkSpent[l] < JobTimeout
             /\ wkSpent'[l] = IF wkAt[l] \in LoopEnded \cup {"wedged"}
                              THEN 0 ELSE wkSpent[l] + 1
             /\ wkAge'[l] = Long(wkAge[l] + 1)
             /\ wkStuck'[l] = IF wkAt[l] = "wedged" THEN Long(wkStuck[l] + 1) ELSE wkStuck[l]
  BY DEF LoopsTick
<1>3. \A n \in Nat : Long(n) = IF n <= Threshold + 1 THEN n ELSE Threshold + 1
  BY LoopTimes, SmallerOfTwo DEF Long
<1>4. ASSUME NEW l \in Loops
      PROVE  /\ wkSpent'[l] \in 0 .. TurnTime
             /\ wkAge'[l] \in 0 .. Threshold + 1
             /\ wkStuck'[l] \in 0 .. Threshold + 1
             /\ wkAge'[l] <= wkAge[l] + 1
             /\ wkStuck'[l] <= wkAge'[l]
             /\ wkStuck'[l] > 0 => wkAt[l] = "wedged"
    <2>1. /\ wkSpent[l] \in Nat /\ wkAge[l] \in Nat /\ wkStuck[l] \in Nat
          /\ wkAge[l] <= Threshold + 1 /\ wkStuck[l] <= Threshold + 1
          /\ wkStuck[l] <= wkAge[l] /\ (wkStuck[l] > 0 => wkAt[l] = "wedged")
      BY LoopNumbers DEF StuckBounded
    <2>2. wkSpent'[l] \in 0 .. TurnTime
      <3>1. wkAt[l] \in LoopPlaces
        BY LoopNumbers
      <3>2. wkSpent'[l] = 0 \/ (wkSpent'[l] = wkSpent[l] + 1 /\ wkSpent[l] < TurnTime)
        BY <1>2, <2>1, <3>1, LoopTimes DEF LoopPlaces, HoldsTx
      <3>. QED
        BY <2>1, <3>2, LoopTimes
    <2>3. CASE wkAt[l] = "wedged"
      <3>1. /\ wkAge'[l] = IF wkAge[l] + 1 <= Threshold + 1 THEN wkAge[l] + 1 ELSE Threshold + 1
            /\ wkStuck'[l] = IF wkStuck[l] + 1 <= Threshold + 1 THEN wkStuck[l] + 1
                             ELSE Threshold + 1
        BY <1>2, <1>3, <2>1, <2>3
      <3>. QED
        BY <2>1, <2>2, <2>3, <3>1, LoopTimes
    <2>4. CASE wkAt[l] # "wedged"
      <3>1. wkStuck'[l] = 0
        BY <1>2, <2>1, <2>4
      <3>2. wkAge'[l] = IF wkAge[l] + 1 <= Threshold + 1 THEN wkAge[l] + 1 ELSE Threshold + 1
        BY <1>2, <1>3, <2>1
      <3>. QED
        BY <2>1, <2>2, <2>4, <3>1, <3>2, LoopTimes
    <2>. QED
      BY <2>3, <2>4
<1>5. LoopsTyped'
  <2>1. wkSpent' = [l \in Loops |-> wkSpent'[l]] /\ wkAge' = [l \in Loops |-> wkAge'[l]]
        /\ wkStuck' = [l \in Loops |-> wkStuck'[l]]
    BY DEF LoopsTick
  <2>. QED
    BY <1>1, <1>4, <2>1, LoopsTypeIs DEF LoopsTyped
<1>6. AgeBounded'
  <2>. SUFFICES ASSUME NEW l \in Loops
                PROVE /\ wkAt[l] = "tick" =>
                           /\ wkAge'[l] <= AcquireTimeout + JobTimeout + wkSpent'[l]
                           /\ wkSpent'[l] <= TickTime
                      /\ wkAt[l] = "wantPop" =>
                           wkAge'[l] <= wkSpent'[l] /\ wkSpent'[l] <= AcquireTimeout
                      /\ wkAt[l] \in {"job", "wantQuery", "query"} =>
                           wkAge'[l] <= AcquireTimeout + wkSpent'[l] /\ wkSpent'[l] <= JobTimeout
    BY <1>1 DEF AgeBounded
  <2>1. /\ wkSpent[l] \in Nat /\ wkAge[l] \in Nat /\ wkAge'[l] \in Int
        /\ wkAge'[l] <= wkAge[l] + 1 /\ wkAt[l] \in LoopPlaces
    BY <1>4, LoopNumbers
  <2>2. CASE wkAt[l] = "wantPop"
    <3>1. wkSpent'[l] = wkSpent[l] + 1 /\ wkSpent[l] < AcquireTimeout /\ wkAge[l] <= wkSpent[l]
      BY <1>2, <2>2 DEF AgeBounded, LoopEnded
    <3>. QED
      BY <2>1, <2>2, <3>1, LoopTimes
  <2>3. CASE wkAt[l] \in {"job", "wantQuery", "query"}
    <3>1. /\ wkSpent'[l] = wkSpent[l] + 1 /\ wkSpent[l] < JobTimeout
          /\ wkAge[l] <= AcquireTimeout + wkSpent[l]
      BY <1>2, <2>3 DEF AgeBounded, LoopEnded
    <3>. QED
      BY <2>1, <2>3, <3>1, LoopTimes
  <2>4. CASE wkAt[l] = "tick"
    <3>1. /\ wkSpent'[l] = wkSpent[l] + 1 /\ wkSpent[l] < TickTime
          /\ wkAge[l] <= AcquireTimeout + JobTimeout + wkSpent[l]
      BY <1>2, <2>4 DEF AgeBounded, LoopEnded
    <3>. QED
      BY <2>1, <2>4, <3>1, LoopTimes
  <2>5. CASE wkAt[l] \in LoopEnded \cup {"wedged"}
    BY <2>5 DEF LoopEnded
  <2>. QED
    BY <2>1, <2>2, <2>3, <2>4, <2>5 DEF LoopPlaces, HoldsTx
<1>7. StuckBounded'
  BY <1>1, <1>4 DEF StuckBounded
<1>8. LoopJoinsSound' /\ PoolSized'
  BY <1>1 DEF LoopJoinsSound, PoolSized
<1>. QED
  BY <1>5, <1>6, <1>7, <1>8, LoopsTypeIs

(* LoopsStepKeeps. No step of the worker disturbs the invariant.           *)
LEMMA LoopsStepKeeps ==
  ASSUME LoopsInv, [LoopsNext]_wkVars
  PROVE  LoopsInv'
<1>1. CASE UNCHANGED wkVars
  BY <1>1 DEF LoopsInv, wkVars, LoopsTypeOK, AgeBounded, StuckBounded, LoopJoinsSound, PoolSized
<1>2. ASSUME NEW l \in Loops,
             Listens(l) \/ WorkerStep(l) \/ Wedges(l) \/ Panics(l) \/ JoinLoop(l)
      PROVE  LoopsInv'
  BY <1>2, OthersKeep, NextTickKeeps, LoopStepKeeps, JoinLoopKeeps DEF WorkerStep
<1>. QED
  BY <1>1, <1>2, OthersKeep, WorkerEndsKeeps, LoopsTickKeeps DEF LoopsNext

(* PoolHolds. A pool of the size main asks for has a connection left when  *)
(* every loop holds a listener and a job and none queries.                 *)
LEMMA PoolHolds ==
  ASSUME LoopsInv
  PROVE  PoolNeverLocked
<1>. SUFFICES ASSUME ~(wkOthers > 0), ~\E l \in Loops : wkAt[l] \in {"job", "query", "wedged"}
              PROVE  Free
  BY DEF PoolNeverLocked
<1>. DEFINE n == Cardinality(Loops)
            T == {l \in Loops : wkAt[l] \in HoldsTx}
            Q == {l \in Loops : wkAt[l] = "query"}
<1>1. IsFiniteSet(Loops) /\ n \in Nat
  BY WorkerLoopsAssumption, FS_CardinalityType
<1>2. /\ wkListens \subseteq Loops /\ wkPool \in Nat
      /\ wkOthers \in Nat /\ wkOthers = 0
  BY LoopsTypeIs, LoopTimes DEF LoopsInv, LoopsTyped
<1>3. Cardinality(wkListens) <= n /\ IsFiniteSet(wkListens)
  BY <1>1, <1>2, FS_Subset
<1>4. Cardinality(T) <= n /\ IsFiniteSet(T)
  BY <1>1, FS_Subset
<1>5. Q = {} /\ Cardinality(Q) = 0
  BY FS_EmptySet
<1>6. Cardinality(wkListens) \in Nat /\ Cardinality(T) \in Nat
  BY <1>3, <1>4, FS_CardinalityType
<1>7. wkPool >= n * 3 + 2
  BY DEF LoopsInv, PoolSized, RequiredConns
<1>8. Used = Cardinality(wkListens) + wkOthers + Cardinality(T) + Cardinality(Q)
  BY DEF Used
<1>. HIDE DEF n, T, Q
<1>9. Used < wkPool
  BY <1>1, <1>2, <1>3, <1>4, <1>5, <1>6, <1>7, <1>8
<1>. QED
  BY <1>9 DEF Free

(* LoopsHold. What the invariant of the loops gives.                       *)
LEMMA LoopsHold ==
  ASSUME LoopsInv
  PROVE  /\ LoopsTypeOK /\ PoolNeverLocked /\ WedgedIsSeen /\ SlowIsHealthy
         /\ DeathFailsWorker
<1>. USE DEF LoopsInv
<1>1. WedgedIsSeen
  <2>. SUFFICES ASSUME NEW l \in Loops, wkStuck[l] > Threshold PROVE ~Healthy
    BY DEF WedgedIsSeen
  <2>1. wkStuck[l] <= wkAge[l] /\ wkStuck[l] \in Nat /\ wkAge[l] \in Nat
    BY LoopNumbers DEF StuckBounded
  <2>2. ~(wkAge[l] <= Threshold)
    BY <2>1, LoopTimes
  <2>. QED
    BY <2>2 DEF Healthy
<1>2. SlowIsHealthy
  <2>. SUFFICES ASSUME Threshold >= TurnTime, NEW l \in Loops,
                       wkAt[l] \notin LoopEnded \cup {"wedged"}
                PROVE  wkAge[l] <= Threshold
    BY DEF SlowIsHealthy, Healthy
  <2>1. wkAge[l] \in Nat /\ wkSpent[l] \in Nat /\ wkAt[l] \in LoopPlaces
    BY LoopNumbers
  <2>2. wkAge[l] <= TurnTime
    <3>1. CASE wkAt[l] = "tick"
      BY <2>1, <3>1, LoopTimes DEF AgeBounded
    <3>2. CASE wkAt[l] = "wantPop"
      BY <2>1, <3>2, LoopTimes DEF AgeBounded
    <3>3. CASE wkAt[l] \in {"job", "wantQuery", "query"}
      BY <2>1, <3>3, LoopTimes DEF AgeBounded
    <3>. QED
      BY <2>1, <3>1, <3>2, <3>3 DEF LoopPlaces, HoldsTx
  <2>. QED
    BY <2>1, <2>2, LoopTimes
<1>3. DeathFailsWorker
  <2>. SUFFICES ASSUME NEW l \in Loops, wkAt[l] = "died" PROVE wkWorker # "ok"
    BY DEF DeathFailsWorker
  <2>. QED
    BY DEF LoopJoinsSound
<1>. QED
  BY <1>1, <1>2, <1>3, PoolHolds

(* LoopsSound. However many loops there are and however they interleave,   *)
(* the loops never lock the DB pool, a hung loop is reported, a slow one   *)
(* is not when the threshold is as long as a turn, and a death fails the   *)
(* worker (main, run_loop, health.rs).                                     *)
THEOREM LoopsSound ==
  LoopsSpec => [](LoopsTypeOK /\ PoolNeverLocked /\ WedgedIsSeen /\ SlowIsHealthy
                  /\ DeathFailsWorker)
<1>1. LoopsInv /\ [LoopsNext]_wkVars => LoopsInv'
  BY LoopsStepKeeps
<1>2. LoopsSpec => []LoopsInv
  BY <1>1, InitLoopsInv, PTL DEF LoopsSpec
<1>3. LoopsInv => LoopsTypeOK /\ PoolNeverLocked /\ WedgedIsSeen /\ SlowIsHealthy
                  /\ DeathFailsWorker
  BY LoopsHold
<1>. QED
  BY <1>2, <1>3, PTL

-----------------------------------------------------------------------------
(* One loop's subscription.                                                *)

(* The back-off counts the failures since a subscription held. Until the   *)
(* next subscription the time since the failure and the wait left make up  *)
(* the delay; an attempt starts with no wait left and no listener; only a  *)
(* listener that lost its connection opens another.                        *)
BackOffSound ==
  /\ jsFlaps = jsBack.failures
  /\ jsListener = "none" => jsBack.held = NotHeld
  /\ jsListener = "none" /\ jsFlaps > 0 => jsSince + jsBack.wait >= Delay(jsFlaps)
  /\ jsAt = "resub" => jsListener = "none" /\ jsBack.wait = 0
  /\ jsOpening => jsListener = "lost"

(* An operator who was told of a failure will be told of the recovery.     *)
WarnSound ==
  /\ jsTold = "broken" => jsWarn.announced
  /\ RecoveryTold

SignalInv == /\ SignalTypeOK
             /\ BackOffSound
             /\ WarnSound

(* SignalTimes. The periods and limits, as numbers.                        *)
LEMMA SignalTimes ==
  /\ ReconnectLimit \in Nat \ {0} /\ FailureWindow \in Nat \ {0}
  /\ SubscribeTimeout \in Nat \ {0} /\ BaseDelay \in Nat \ {0} /\ MaxDelay \in Nat \ {0}
  /\ MaxDoublings \in Nat \ {0} /\ StablePeriod \in Nat \ {0} /\ WarnCooldown \in Nat \ {0}
  /\ NetChanges \in Nat
  /\ \A k \in 0 .. MaxDoublings : 2 ^ k \in Nat
BY JobSignalAssumption, Zenon

(* UpToIs. The smaller of a number and its limit.                          *)
LEMMA UpToIs ==
  ASSUME NEW n \in Int, NEW limit \in Int
  PROVE  UpTo(n, limit) = IF n <= limit THEN n ELSE limit
BY SmallerOfTwo DEF UpTo

(* DelayTyped. A delay is within its limit.                                *)
LEMMA DelayTyped ==
  ASSUME NEW n \in 1 .. MaxFlaps
  PROVE  Delay(n) \in 0 .. MaxDelay
<1>1. n \in Nat \ {0} /\ MaxDoublings \in Nat /\ MaxDelay \in Nat /\ BaseDelay \in Nat
  BY SignalTimes DEF MaxFlaps
<1>2. Doublings(n) \in 0 .. MaxDoublings
  BY <1>1, UpToIs DEF Doublings
<1>3. PICK p \in Nat : p = 2 ^ Doublings(n)
  BY <1>2, SignalTimes
<1>4. BaseDelay * p \in Nat
  BY <1>1
<1>5. Delay(n) = UpTo(BaseDelay * p, MaxDelay)
  BY <1>3 DEF Delay
<1>. QED
  BY <1>1, <1>4, <1>5, UpToIs

Runs  == [count : 0 .. ReconnectLimit, age : 0 .. FailureWindow]
Backs == [failures : 0 .. MaxFlaps, wait : 0 .. MaxDelay, held : NotHeld .. StablePeriod]
Warns == [age : 0 .. WarnCooldown, announced : BOOLEAN]

(* SignalParts. The type invariant, by parts.                              *)
LEMMA SignalParts ==
  ASSUME SignalTypeOK
  PROVE  /\ jsNet \in Nets /\ jsChanges \in 0 .. NetChanges
         /\ jsAt \in {"tick", "resub", "pop"}
         /\ jsElapsed \in 0 .. SubscribeTimeout
         /\ jsListener \in {"none", "up", "lost"} /\ jsOpening \in BOOLEAN
         /\ jsRun \in Runs /\ jsBack \in Backs /\ jsWarn \in Warns
         /\ jsTold \in {"fine", "broken"}
         /\ jsFlaps \in 0 .. MaxFlaps /\ jsSince \in 0 .. MaxDelay
BY DEF SignalTypeOK, Runs, Backs, Warns

(* SignalTypedAgain. The type invariant after a step, from its parts.      *)
LEMMA SignalTypedAgain ==
  ASSUME jsNet' \in Nets, jsChanges' \in 0 .. NetChanges, jsAt' \in {"tick", "resub", "pop"},
         jsElapsed' \in 0 .. SubscribeTimeout,
         jsListener' \in {"none", "up", "lost"}, jsOpening' \in BOOLEAN,
         jsRun' \in Runs, jsBack' \in Backs, jsWarn' \in Warns,
         jsTold' \in {"fine", "broken"}, jsFlaps' \in 0 .. MaxFlaps, jsSince' \in 0 .. MaxDelay
  PROVE  SignalTypeOK'
BY DEF SignalTypeOK, Runs, Backs, Warns

(* NoRunTyped. An empty run of failures.                                   *)
LEMMA NoRunTyped == NoRunYet \in Runs
<1>1. 0 \in 0 .. ReconnectLimit /\ FailureWindow \in 0 .. FailureWindow
  BY SignalTimes
<1>. QED
  BY <1>1 DEF NoRunYet, Runs

(* InitSignalInv. The invariant holds whether the first subscription opens *)
(* or not.                                                                 *)
LEMMA InitSignalInv == SignalInit => SignalInv
<1>. SUFFICES ASSUME SignalInit PROVE SignalInv
  OBVIOUS
<1>. USE DEF SignalInit
<1>0. MaxFlaps \in Nat /\ 1 \in 1 .. MaxFlaps /\ 0 \in 0 .. MaxFlaps /\ 1 \in 0 .. MaxFlaps
  BY SignalTimes DEF MaxFlaps
<1>1. Delay(1) \in 0 .. MaxDelay
  BY <1>0, DelayTyped
<1>2. /\ 0 \in 0 .. MaxDelay /\ MaxDelay \in 0 .. MaxDelay /\ 0 \in 0 .. NetChanges
      /\ 0 \in 0 .. SubscribeTimeout /\ 0 \in 0 .. WarnCooldown
      /\ WarnCooldown \in 0 .. WarnCooldown
      /\ 0 \in NotHeld .. StablePeriod /\ NotHeld \in NotHeld .. StablePeriod
  BY SignalTimes DEF NotHeld
<1>3. CASE jsNet = "good"
  <2>0. /\ jsBack = [failures |-> 0, wait |-> 0, held |-> 0]
        /\ jsWarn = [age |-> WarnCooldown, announced |-> FALSE]
    BY <1>3
  <2>1. jsBack \in Backs /\ jsWarn \in Warns
    <3>1. [failures |-> 0, wait |-> 0, held |-> 0] \in Backs
      BY <1>0, <1>2 DEF Backs
    <3>2. [age |-> WarnCooldown, announced |-> FALSE] \in Warns
      BY <1>2 DEF Warns
    <3>. QED
      BY <2>0, <3>1, <3>2, Zenon
  <2>2. SignalTypeOK
    BY <1>0, <1>2, <1>3, <2>1, NoRunTyped DEF SignalTypeOK, Nets, Backs, Warns, Runs
  <2>3. BackOffSound /\ WarnSound
    BY <1>3 DEF BackOffSound, WarnSound, RecoveryTold
  <2>. QED
    BY <2>2, <2>3 DEF SignalInv
<1>4. CASE jsNet # "good"
  <2>0. /\ jsBack = [failures |-> 1, wait |-> Delay(1), held |-> NotHeld]
        /\ jsWarn = [age |-> 0, announced |-> TRUE]
    BY <1>4
  <2>1. jsBack \in Backs /\ jsWarn \in Warns
    <3>1. [failures |-> 1, wait |-> Delay(1), held |-> NotHeld] \in Backs
      BY <1>0, <1>1, <1>2 DEF Backs
    <3>2. [age |-> 0, announced |-> TRUE] \in Warns
      BY <1>2 DEF Warns
    <3>. QED
      BY <2>0, <3>1, <3>2, Zenon
  <2>2. SignalTypeOK
    BY <1>0, <1>2, <1>4, <2>1, NoRunTyped DEF SignalTypeOK, Nets, Backs, Warns, Runs
  <2>3. jsBack.failures = 1 /\ jsBack.wait = Delay(1) /\ jsBack.held = NotHeld /\ jsFlaps = 1
        /\ jsSince = 0 /\ jsListener = "none" /\ jsAt = "tick"
    BY <1>4
  <2>4. jsSince + jsBack.wait >= Delay(jsFlaps)
    BY <1>1, <2>3
  <2>5. BackOffSound
    BY <2>3, <2>4 DEF BackOffSound
  <2>6. WarnSound
    BY <1>4 DEF WarnSound, RecoveryTold
  <2>. QED
    BY <2>2, <2>5, <2>6 DEF SignalInv
<1>. QED
  BY <1>3, <1>4

(* FailureIs. A failure starts the delay its count asks for.               *)
LEMMA FailureIs ==
  ASSUME SignalInv, SignalFails
  PROVE  /\ jsBack' \in Backs /\ jsWarn' \in Warns /\ jsTold' \in {"fine", "broken"}
         /\ jsFlaps' \in 0 .. MaxFlaps /\ jsSince' \in 0 .. MaxDelay
         /\ jsFlaps' = jsBack'.failures /\ jsBack'.held = NotHeld
         /\ jsSince' + jsBack'.wait >= Delay(jsFlaps')
         /\ jsTold' = "broken" => jsWarn'.announced
<1>. DEFINE m == IF WasStable(jsBack) THEN 0 ELSE jsBack.failures
            n == UpTo(m + 1, MaxFlaps)
<1>1. jsBack \in Backs /\ jsWarn \in Warns /\ jsTold \in {"fine", "broken"}
      /\ jsFlaps = jsBack.failures /\ (jsTold = "broken" => jsWarn.announced)
  BY SignalParts DEF SignalInv, BackOffSound, WarnSound
<1>2. MaxFlaps \in Nat /\ MaxFlaps >= 2 /\ jsBack.failures \in 0 .. MaxFlaps
  BY <1>1, SignalTimes DEF MaxFlaps, Backs
<1>3. n \in 1 .. MaxFlaps
  BY <1>2, UpToIs
<1>4. jsBack' = [failures |-> n, wait |-> Delay(n), held |-> NotHeld]
  BY DEF SignalFails, BackOff
<1>5. jsFlaps' = n /\ jsSince' = 0
  BY <1>1 DEF SignalFails
<1>. HIDE DEF n
<1>6. Delay(n) \in 0 .. MaxDelay /\ NotHeld \in NotHeld .. StablePeriod /\ n \in 0 .. MaxFlaps
      /\ 0 \in 0 .. MaxDelay
  BY <1>2, <1>3, DelayTyped, SignalTimes DEF NotHeld
<1>7. jsBack' \in Backs
  BY <1>4, <1>6 DEF Backs
<1>8. jsSince' + jsBack'.wait >= Delay(jsFlaps')
  BY <1>4, <1>5, <1>6
<1>9. /\ jsWarn' \in Warns /\ jsTold' \in {"fine", "broken"}
      /\ jsTold' = "broken" => jsWarn'.announced
  <2>1. /\ jsWarn' = [age |-> IF WarnDue THEN 0 ELSE jsWarn.age,
                      announced |-> jsWarn.announced \/ WarnDue]
        /\ jsTold' = IF WarnDue THEN "broken" ELSE jsTold
    BY DEF SignalFails, WarnFailure
  <2>2. (IF WarnDue THEN 0 ELSE jsWarn.age) \in 0 .. WarnCooldown
    BY <1>1, SignalTimes DEF Warns
  <2>3. (jsWarn.announced \/ WarnDue) \in BOOLEAN
    OBVIOUS
  <2>4. jsWarn' \in Warns /\ jsWarn'.announced = (jsWarn.announced \/ WarnDue)
    BY <2>1, <2>2, <2>3 DEF Warns
  <2>5. jsTold' = "broken" => jsWarn'.announced
    <3>1. CASE WarnDue
      BY <2>4, <3>1, Zenon
    <3>2. CASE ~WarnDue
      <4>1. jsTold' = jsTold
        BY <2>1, <3>2
      <4>. QED
        BY <1>1, <2>4, <4>1, Zenon
    <3>. QED
      BY <3>1, <3>2
  <2>. QED
    BY <1>1, <2>1, <2>4, <2>5
<1>. QED
  BY <1>4, <1>5, <1>6, <1>7, <1>8, <1>9

(* PeriodIs. A period counts the wait down as the time since goes up.      *)
LEMMA PeriodIs ==
  ASSUME SignalInv, PeriodPasses
  PROVE  /\ jsRun' \in Runs /\ jsBack' \in Backs /\ jsWarn' \in Warns
         /\ jsSince' \in 0 .. MaxDelay
         /\ jsBack'.failures = jsBack.failures
         /\ jsBack.held = NotHeld => jsBack'.held = NotHeld
         /\ jsBack.wait = 0 => jsBack'.wait = 0
         /\ jsWarn'.announced = jsWarn.announced
         /\ jsListener = "none" /\ jsFlaps > 0 => jsSince' + jsBack'.wait >= Delay(jsFlaps)
         /\ UNCHANGED <<jsNet, jsAt, jsListener, jsOpening, jsTold, jsFlaps>>
<1>. DEFINE w == Max({jsBack.wait - 1, 0})
            h == IF jsBack.held = NotHeld THEN jsBack.held ELSE UpTo(jsBack.held + 1, StablePeriod)
<1>1. /\ jsRun \in Runs /\ jsBack \in Backs /\ jsWarn \in Warns /\ jsSince \in 0 .. MaxDelay
      /\ jsFlaps \in 0 .. MaxFlaps
  BY SignalParts DEF SignalInv
<1>2. /\ jsRun' = [jsRun EXCEPT !.age = UpTo(jsRun.age + 1, FailureWindow)]
      /\ jsBack' = [jsBack EXCEPT !.wait = w, !.held = h]
      /\ jsWarn' = [jsWarn EXCEPT !.age = UpTo(jsWarn.age + 1, WarnCooldown)]
      /\ jsSince' = UpTo(jsSince + 1, MaxDelay)
      /\ UNCHANGED <<jsNet, jsAt, jsListener, jsOpening, jsTold, jsFlaps>>
  BY <1>1 DEF PeriodPasses, Runs, Backs, Warns
<1>3. /\ jsRun.age \in 0 .. FailureWindow /\ jsWarn.age \in 0 .. WarnCooldown
      /\ jsBack.wait \in 0 .. MaxDelay /\ jsBack.held \in NotHeld .. StablePeriod
  BY <1>1 DEF Runs, Backs, Warns
<1>4. UpTo(jsRun.age + 1, FailureWindow) \in 0 .. FailureWindow
  BY <1>3, SignalTimes, UpToIs
<1>5. UpTo(jsWarn.age + 1, WarnCooldown) \in 0 .. WarnCooldown
  BY <1>3, SignalTimes, UpToIs
<1>6. w \in 0 .. MaxDelay /\ w = IF jsBack.wait = 0 THEN 0 ELSE jsBack.wait - 1
  BY <1>3, SignalTimes, LargerOfTwo
<1>7. h \in NotHeld .. StablePeriod /\ (jsBack.held = NotHeld => h = NotHeld)
  BY <1>3, SignalTimes, UpToIs DEF NotHeld
<1>8. /\ jsSince' \in 0 .. MaxDelay
      /\ jsSince' = IF jsSince + 1 <= MaxDelay THEN jsSince + 1 ELSE MaxDelay
  <2>1. MaxDelay \in Nat /\ jsSince \in Nat /\ jsSince' = UpTo(jsSince + 1, MaxDelay)
    BY <1>1, <1>2, SignalTimes
  <2>2. jsSince' = IF jsSince + 1 <= MaxDelay THEN jsSince + 1 ELSE MaxDelay
    BY <2>1, UpToIs
  <2>. QED
    BY <2>1, <2>2
<1>. HIDE DEF w, h
<1>9. jsRun' \in Runs
  BY <1>1, <1>2, <1>4 DEF Runs
<1>10. /\ jsBack' \in Backs /\ jsBack'.failures = jsBack.failures /\ jsBack'.wait = w
       /\ jsBack'.held = h
  BY <1>1, <1>2, <1>6, <1>7 DEF Backs
<1>11. jsWarn' \in Warns /\ jsWarn'.announced = jsWarn.announced
  BY <1>1, <1>2, <1>5 DEF Warns
<1>12. ASSUME jsListener = "none", jsFlaps > 0
       PROVE  jsSince' + w >= Delay(jsFlaps)
  <2>1. jsSince + jsBack.wait >= Delay(jsFlaps)
    BY <1>12 DEF SignalInv, BackOffSound
  <2>2. jsFlaps \in 1 .. MaxFlaps
    BY <1>1, <1>12, SignalTimes DEF MaxFlaps
  <2>3. Delay(jsFlaps) \in 0 .. MaxDelay
    BY <2>2, DelayTyped
  <2>. QED
    BY <1>1, <1>3, <1>6, <1>8, <2>1, <2>3, SignalTimes
<1>. QED
  BY <1>2, <1>6, <1>7, <1>8, <1>9, <1>10, <1>11, <1>12

(* EndTickIs. A wait ends in an attempt only without a listener and with   *)
(* no wait left.                                                           *)
LEMMA EndTickIs ==
  ASSUME NEW failed \in BOOLEAN, EndTick(failed)
  PROVE  /\ jsElapsed' \in 0 .. SubscribeTimeout /\ jsOpening' = FALSE
         /\ jsAt' \in {"resub", "pop"}
         /\ jsAt' = "resub" => jsListener = "none" /\ jsBack.wait = 0 /\ ~failed
<1>1. 0 \in 0 .. SubscribeTimeout
  BY SignalTimes
<1>. QED
  BY <1>1 DEF EndTick, ShouldResubscribe

(* ConnectionDiesKeeps. A connection that dies leaves the back-off alone.  *)
LEMMA ConnectionDiesKeeps ==
  ASSUME SignalInv, ConnectionDies
  PROVE  SignalInv'
<1>. USE DEF SignalInv, ConnectionDies
<1>1. SignalTypeOK'
  BY SignalParts, SignalTypedAgain
<1>2. BackOffSound' /\ WarnSound'
  BY DEF BackOffSound, WarnSound, RecoveryTold
<1>. QED
  BY <1>1, <1>2

(* ReconnectKeeps. A reconnect is counted, and one too many is a failure.  *)
LEMMA ReconnectKeeps ==
  ASSUME SignalInv, Reconnect
  PROVE  SignalInv'
<1>. USE DEF SignalInv
<1>0. jsAt = "tick" /\ jsListener = "lost" /\ UNCHANGED <<jsNet, jsChanges>>
  BY DEF Reconnect
<1>1. CASE CountedFirst.count >= ReconnectLimit
  <2>1. jsRun' = NoRunYet /\ jsListener' = "none" /\ SignalFails /\ EndTick(TRUE)
    BY <1>1 DEF Reconnect
  <2>2. /\ jsElapsed' \in 0 .. SubscribeTimeout /\ jsOpening' = FALSE /\ jsAt' = "pop"
    BY <1>0, <2>1, EndTickIs
  <2>3. SignalTypeOK'
    BY <1>0, <2>1, <2>2, FailureIs, NoRunTyped, SignalParts, SignalTypedAgain
  <2>4. BackOffSound'
    BY <2>1, <2>2, FailureIs DEF BackOffSound
  <2>5. WarnSound'
    BY <2>1, FailureIs DEF WarnSound, RecoveryTold
  <2>. QED
    BY <2>3, <2>4, <2>5
<1>2. CASE ~(CountedFirst.count >= ReconnectLimit)
  <2>1. /\ jsRun' = CountedFirst /\ jsOpening' = TRUE
        /\ UNCHANGED <<jsAt, jsElapsed, jsListener, jsBack, jsWarn, jsTold, jsFlaps, jsSince>>
    BY <1>2 DEF Reconnect
  <2>2. CountedFirst \in Runs
    <3>1. jsRun \in Runs
      BY SignalParts
    <3>2. jsRun.count \in Nat /\ Recorded \in Nat /\ CountedFirst.count = Recorded
      BY <3>1, SignalTimes DEF Runs, Recorded, CountedFirst
    <3>3. Recorded \in 0 .. ReconnectLimit /\ 0 \in 0 .. FailureWindow
      BY <1>2, <3>2, SignalTimes
    <3>. QED
      BY <3>3 DEF CountedFirst, Runs
  <2>3. SignalTypeOK'
    BY <1>0, <2>1, <2>2, SignalParts, SignalTypedAgain
  <2>4. BackOffSound' /\ WarnSound'
    BY <1>0, <2>1 DEF BackOffSound, WarnSound, RecoveryTold
  <2>. QED
    BY <2>3, <2>4
<1>. QED
  BY <1>1, <1>2

(* ReconnectEndsKeeps. A reconnect ends with a listener still there.       *)
LEMMA ReconnectEndsKeeps ==
  ASSUME SignalInv, ReconnectEnds
  PROVE  SignalInv'
<1>. USE DEF SignalInv
<1>1. /\ jsOpening' = FALSE /\ jsListener' \in {"lost", "up"} /\ jsAt = "tick"
      /\ UNCHANGED <<jsNet, jsChanges, jsAt, jsElapsed, jsRun, jsBack, jsWarn, jsTold, jsFlaps,
                     jsSince>>
  BY DEF ReconnectEnds
<1>0. jsListener = "lost"
  BY DEF ReconnectEnds, BackOffSound
<1>2. SignalTypeOK'
  BY <1>1, SignalParts, SignalTypedAgain
<1>3. BackOffSound' /\ WarnSound'
  BY <1>0, <1>1 DEF BackOffSound, WarnSound, RecoveryTold
<1>. QED
  BY <1>2, <1>3

(* WaitEnds. A wait that ends without a failure.                           *)
LEMMA WaitEnds ==
  ASSUME SignalInv, EndTick(FALSE), jsRun' \in Runs,
         UNCHANGED <<jsNet, jsChanges, jsListener, jsBack, jsWarn, jsTold, jsFlaps, jsSince>>
  PROVE  SignalInv'
<1>. USE DEF SignalInv
<1>1. /\ jsElapsed' \in 0 .. SubscribeTimeout /\ jsOpening' = FALSE
      /\ jsAt' \in {"resub", "pop"}
      /\ jsAt' = "resub" => jsListener = "none" /\ jsBack.wait = 0
  BY EndTickIs
<1>2. SignalTypeOK'
  BY <1>1, SignalParts, SignalTypedAgain
<1>3. BackOffSound' /\ WarnSound'
  BY <1>1 DEF BackOffSound, WarnSound, RecoveryTold
<1>. QED
  BY <1>2, <1>3

(* ReceiveFailsKeeps. A listener that errs is a failed subscription.       *)
LEMMA ReceiveFailsKeeps ==
  ASSUME SignalInv, ReceiveFails
  PROVE  SignalInv'
<1>. USE DEF SignalInv
<1>1. /\ jsAt = "tick" /\ jsListener = "up" /\ UNCHANGED <<jsNet, jsChanges>>
      /\ jsRun' = NoRunYet /\ jsListener' = "none" /\ SignalFails /\ EndTick(TRUE)
  BY DEF ReceiveFails
<1>2. /\ jsElapsed' \in 0 .. SubscribeTimeout /\ jsOpening' = FALSE /\ jsAt' = "pop"
  BY <1>1, EndTickIs
<1>3. SignalTypeOK'
  BY <1>1, <1>2, FailureIs, NoRunTyped, SignalParts, SignalTypedAgain
<1>4. BackOffSound'
  BY <1>1, <1>2, FailureIs DEF BackOffSound
<1>5. WarnSound'
  BY <1>1, FailureIs DEF WarnSound, RecoveryTold
<1>. QED
  BY <1>3, <1>4, <1>5

(* NotifiedKeeps. A notification ends the wait.                            *)
LEMMA NotifiedKeeps ==
  ASSUME SignalInv, Notified
  PROVE  SignalInv'
<1>1. jsRun' \in Runs
  BY NoRunTyped DEF Notified
<1>. QED
  BY <1>1, WaitEnds DEF Notified

(* PollTimerKeeps. The poll timer ends the wait.                           *)
LEMMA PollTimerKeeps ==
  ASSUME SignalInv, PollTimer
  PROVE  SignalInv'
<1>1. jsRun' \in Runs
  BY SignalParts DEF PollTimer, SignalInv
<1>. QED
  BY <1>1, WaitEnds DEF PollTimer

(* ResubscribeKeeps. An attempt clears the wait or starts the next one.    *)
LEMMA ResubscribeKeeps ==
  ASSUME SignalInv, NEW ok \in BOOLEAN, Resubscribe(ok)
  PROVE  SignalInv'
<1>. USE DEF SignalInv
<1>0. /\ jsAt = "resub" /\ jsAt' = "pop" /\ jsElapsed' \in 0 .. SubscribeTimeout
      /\ UNCHANGED <<jsNet, jsChanges, jsOpening>>
  <2>1. 0 \in 0 .. SubscribeTimeout
    BY SignalTimes
  <2>. QED
    BY <2>1 DEF Resubscribe
<1>1. jsListener = "none" /\ ~jsOpening
  BY <1>0 DEF BackOffSound
<1>2. CASE ok
  <2>1. /\ jsListener' = "up" /\ jsRun' = NoRunYet /\ jsBack' = Subscribed(jsBack)
        /\ TakeAnnounced /\ UNCHANGED <<jsFlaps, jsSince>>
    BY <1>2 DEF Resubscribe
  <2>2. jsBack \in Backs /\ jsWarn \in Warns /\ jsTold \in {"fine", "broken"}
    BY SignalParts
  <2>3. jsBack' \in Backs /\ jsBack'.failures = jsBack.failures
    <3>1. 0 \in 0 .. MaxDelay /\ 0 \in NotHeld .. StablePeriod
      BY SignalTimes DEF NotHeld
    <3>. QED
      BY <2>1, <2>2, <3>1 DEF Backs, Subscribed
  <2>4. jsWarn' \in Warns
    BY <2>1, <2>2 DEF TakeAnnounced, Warns
  <2>5. jsTold' = "fine"
    BY <2>1, <2>2 DEF TakeAnnounced, WarnSound
  <2>6. SignalTypeOK'
    BY <1>0, <2>1, <2>3, <2>4, <2>5, NoRunTyped, SignalParts, SignalTypedAgain
  <2>7. BackOffSound'
    BY <1>0, <1>1, <2>1, <2>3 DEF BackOffSound
  <2>8. WarnSound'
    BY <2>5 DEF WarnSound, RecoveryTold
  <2>. QED
    BY <2>6, <2>7, <2>8
<1>3. CASE ~ok
  <2>1. SignalFails /\ UNCHANGED <<jsListener, jsRun>>
    BY <1>3 DEF Resubscribe
  <2>2. SignalTypeOK'
    BY <1>0, <2>1, FailureIs, SignalParts, SignalTypedAgain
  <2>3. BackOffSound'
    BY <1>0, <1>1, <2>1, FailureIs DEF BackOffSound
  <2>4. WarnSound'
    BY <1>1, <2>1, FailureIs DEF WarnSound, RecoveryTold
  <2>. QED
    BY <2>2, <2>3, <2>4
<1>. QED
  BY <1>2, <1>3

(* PollQueueKeeps. Polling the queue touches no subscription.              *)
LEMMA PollQueueKeeps ==
  ASSUME SignalInv, PollQueue
  PROVE  SignalInv'
<1>. USE DEF SignalInv, PollQueue
<1>1. SignalTypeOK'
  BY SignalParts, SignalTypedAgain
<1>2. BackOffSound' /\ WarnSound'
  BY DEF BackOffSound, WarnSound, RecoveryTold
<1>. QED
  BY <1>1, <1>2

(* NetChangedKeeps. A change of the network is no step of the loop.        *)
LEMMA NetChangedKeeps ==
  ASSUME SignalInv, NetChanged
  PROVE  SignalInv'
<1>. USE DEF SignalInv
<1>1. jsChanges' \in 0 .. NetChanges
  BY SignalParts, SignalTimes DEF NetChanged
<1>2. SignalTypeOK'
  BY <1>1, SignalParts, SignalTypedAgain DEF NetChanged
<1>3. BackOffSound' /\ WarnSound'
  BY DEF NetChanged, BackOffSound, WarnSound, RecoveryTold
<1>. QED
  BY <1>2, <1>3

(* PeriodKeeps. A period, whatever the loop is doing.                      *)
LEMMA PeriodKeeps ==
  ASSUME SignalInv, PeriodPasses, jsChanges' \in 0 .. NetChanges,
         jsElapsed' \in 0 .. SubscribeTimeout
  PROVE  SignalInv'
<1>. USE DEF SignalInv
<1>1. SignalTypeOK'
  BY PeriodIs, SignalParts, SignalTypedAgain
<1>2. BackOffSound'
  BY PeriodIs DEF BackOffSound
<1>3. WarnSound'
  BY PeriodIs, Zenon DEF WarnSound, RecoveryTold
<1>. QED
  BY <1>1, <1>2, <1>3

(* SignalTickKeeps. Waiting, within the timeout of an attempt.             *)
LEMMA SignalTickKeeps ==
  ASSUME SignalInv, SignalTick
  PROVE  SignalInv'
<1>1. jsChanges' \in 0 .. NetChanges
  BY SignalParts DEF SignalTick, SignalInv
<1>2. jsElapsed \in 0 .. SubscribeTimeout /\ jsElapsed < SubscribeTimeout
  BY SignalParts, SignalTimes DEF SignalTick, SignalInv
<1>3. jsElapsed' \in 0 .. SubscribeTimeout
  BY <1>2, SignalTimes DEF SignalTick
<1>. QED
  BY <1>1, <1>3, PeriodKeeps DEF SignalTick

(* JobRunsKeeps. A job that takes a while.                                 *)
LEMMA JobRunsKeeps ==
  ASSUME SignalInv, JobRuns
  PROVE  SignalInv'
<1>1. jsChanges' \in 0 .. NetChanges
  BY SignalParts, SignalTimes DEF JobRuns, SignalInv
<1>2. jsElapsed' \in 0 .. SubscribeTimeout
  BY SignalParts DEF JobRuns, SignalInv
<1>. QED
  BY <1>1, <1>2, PeriodKeeps DEF JobRuns

(* SignalStepKeeps. No step of a loop's subscription disturbs the          *)
(* invariant.                                                              *)
LEMMA SignalStepKeeps == SignalInv /\ [SignalNext]_jsVars => SignalInv'
<1>. SUFFICES ASSUME SignalInv, [SignalNext]_jsVars PROVE SignalInv'
  OBVIOUS
<1>1. CASE UNCHANGED jsVars
  <2>. USE <1>1 DEF SignalInv, jsVars
  <2>1. SignalTypeOK'
    BY SignalParts, SignalTypedAgain
  <2>2. BackOffSound' /\ WarnSound'
    BY DEF BackOffSound, WarnSound, RecoveryTold
  <2>. QED
    BY <2>1, <2>2
<1>2. CASE LoopStep
  <2>1. ASSUME NEW ok \in BOOLEAN, Resubscribe(ok) PROVE SignalInv'
    BY <2>1, ResubscribeKeeps
  <2>. QED
    BY <1>2, <2>1, ReconnectKeeps, ReconnectEndsKeeps, PollTimerKeeps, PollQueueKeeps,
       SignalTickKeeps DEF LoopStep
<1>. QED
  BY <1>1, <1>2, ConnectionDiesKeeps, NotifiedKeeps, ReceiveFailsKeeps, NetChangedKeeps, JobRunsKeeps
  DEF SignalNext

(* SignalHold. The invariant is enough for what the subscription promises. *)
LEMMA SignalHold == SignalInv => SignalTypeOK /\ FlapsBackOff /\ RecoveryTold
<1>. SUFFICES ASSUME SignalInv PROVE SignalTypeOK /\ FlapsBackOff /\ RecoveryTold
  OBVIOUS
<1>1. ASSUME jsAt = "resub", jsFlaps > 0 PROVE jsSince >= Delay(jsFlaps)
  <2>1. jsSince + jsBack.wait >= Delay(jsFlaps) /\ jsBack.wait = 0
    BY <1>1 DEF SignalInv, BackOffSound
  <2>2. jsSince \in Nat
    BY SignalParts, SignalTimes DEF SignalInv
  <2>. QED
    BY <2>1, <2>2
<1>. QED
  BY <1>1 DEF SignalInv, WarnSound, FlapsBackOff

(* SignalSound. A loop subscribes again no sooner than the failures since  *)
(* its subscription last held call for, and an operator told that it broke *)
(* is told when it is open again.                                          *)
THEOREM SignalSound == SignalSpec => [](SignalTypeOK /\ FlapsBackOff /\ RecoveryTold)
<1>1. SignalInv => SignalTypeOK /\ FlapsBackOff /\ RecoveryTold
  BY SignalHold
<1>. QED
  BY <1>1, InitSignalInv, SignalStepKeeps, PTL DEF SignalSpec

-----------------------------------------------------------------------------
(* Queues.                                                                 *)

(* QueueElements. The places of a queue and what is in them.               *)
LEMMA QueueElements ==
  ASSUME NEW S, NEW s \in Seq(S)
  PROVE  /\ Len(s) \in Nat /\ DOMAIN s = 1 .. Len(s)
         /\ \A k \in DOMAIN s : s[k] \in S
         /\ s = <<>> <=> Len(s) = 0
OBVIOUS

(* QueueFirst. A queue without its first element.                          *)
LEMMA QueueFirst ==
  ASSUME NEW S, NEW s \in Seq(S), s # <<>>
  PROVE  /\ Head(s) = s[1] /\ Head(s) \in S
         /\ Tail(s) \in Seq(S) /\ Len(Tail(s)) = Len(s) - 1
         /\ DOMAIN Tail(s) = 1 .. Len(s) - 1
         /\ \A k \in 1 .. Len(s) - 1 : Tail(s)[k] = s[k + 1]
OBVIOUS

(* QueueLast. A queue with an element more.                                *)
LEMMA QueueLast ==
  ASSUME NEW S, NEW s \in Seq(S), NEW x \in S
  PROVE  /\ Append(s, x) \in Seq(S) /\ Len(Append(s, x)) = Len(s) + 1
         /\ DOMAIN Append(s, x) = 1 .. Len(s) + 1
         /\ \A k \in 1 .. Len(s) : Append(s, x)[k] = s[k]
         /\ Append(s, x)[Len(s) + 1] = x
OBVIOUS

-----------------------------------------------------------------------------
(* The alerts. A message about an event is built only outside of its       *)
(* window, and a window is never older than the last message.              *)

(* What a list of messages says of an event.                               *)
CountIn(texts, e) ==
  IF {k \in DOMAIN texts : texts[k].event = e} = {} THEN 0
  ELSE texts[CHOOSE k \in {n \in DOMAIN texts : texts[n].event = e} : TRUE].counts

Distinct(texts) == \A j, k \in DOMAIN texts : texts[j].event = texts[k].event => j = k

Message == [event : Events, counts : Nat \ {0}]
Texts   == Seq(Message)

Windowed == {NoWindow} \cup [age : Ages, held : Nat]

(* A window that is not there, or ended, is of an event long quiet.        *)
QuietSince ==
  \A e \in Events : IF alWindow[e] = NoWindow THEN alQuiet[e] = AlertWindow
                                              ELSE alWindow[e].age <= alQuiet[e]

PosterBusy == alPoster = "post" <=> alTexts # <<>>

(* MessageIs. What a message has.                                          *)
LEMMA MessageIs == \A t \in Message : t.event \in Events /\ t.counts \in Nat \ {0}
BY DEF Message

(* The types, with the records folded.                                     *)
AlertTyped ==
  /\ alQueue \in Seq(Events) /\ Len(alQueue) <= AlertQueue
  /\ alDropped \in [Events -> Nat]
  /\ alWindow \in [Events -> Windowed]
  /\ alPoster \in {"wait", "post", "gone"}
  /\ alTexts \in Texts
  /\ alChecks \in 0 .. MaxMissed
  /\ alRaised \in [Events -> 0 .. MaxRaised]
  /\ alTold \in [Events -> Nat] /\ alLost \in [Events -> Nat]
  /\ alQuiet \in [Events -> Ages]

AlertsInv == AlertTyped /\ PosterBusy /\ QuietSince /\ AlertsAccounted

(* AlertTypeIs. They are the same types.                                   *)
LEMMA AlertTypeIs == (AlertsTypeOK <=> AlertTyped) /\ (AlertsTypeOK' <=> AlertTyped')
BY DEF AlertsTypeOK, AlertTyped, Windowed, Texts, Message

(* WindowIs. What a window has.                                            *)
LEMMA WindowIs == \A w \in Windowed : w.held \in Nat /\ w.age \in {-1} \cup Ages
BY DEF Windowed, NoWindow

(* CountOfText. A message in a list of messages on different events.       *)
LEMMA CountOfText ==
  ASSUME NEW texts \in Texts, Distinct(texts), NEW e
  PROVE  /\ \A k \in DOMAIN texts : texts[k].event = e => CountIn(texts, e) = texts[k].counts
         /\ (\A k \in DOMAIN texts : texts[k].event # e) => CountIn(texts, e) = 0
         /\ CountIn(texts, e) \in Nat
<1> DEFINE S == {k \in DOMAIN texts : texts[k].event = e}
<1>1. CountIn(texts, e) = IF S = {} THEN 0 ELSE texts[CHOOSE k \in S : TRUE].counts
  BY DEF CountIn
<1>2. ASSUME NEW k \in S  PROVE CountIn(texts, e) = texts[k].counts
  <2>1. (CHOOSE n \in S : TRUE) \in S
    BY <1>2
  <2>2. (CHOOSE n \in S : TRUE) = k
    BY <2>1, <1>2 DEF Distinct
  <2>. QED
    BY <1>1, <1>2, <2>2
<1>3. \A k \in DOMAIN texts : texts[k].counts \in Nat
  BY MessageIs, QueueElements DEF Texts
<1>4. CASE S = {}
  BY <1>1, <1>4
<1>5. CASE S # {}
  <2>1. PICK k \in S : TRUE
    BY <1>5
  <2>. QED
    BY <1>2, <1>3, <2>1
<1>. QED
  BY <1>4, <1>5

(* FirstTextGone. Without the first message, only its event is not told.   *)
LEMMA FirstTextGone ==
  ASSUME NEW texts \in Texts, Distinct(texts), texts # <<>>
  PROVE  /\ Tail(texts) \in Texts /\ Distinct(Tail(texts))
         /\ Head(texts) \in Message
         /\ \A e : CountIn(texts, e) = (IF Head(texts).event = e THEN Head(texts).counts ELSE 0)
                                         + CountIn(Tail(texts), e)
<1>1. /\ Tail(texts) \in Texts /\ Head(texts) \in Message
      /\ Len(texts) \in Nat \ {0} /\ DOMAIN texts = 1 .. Len(texts)
      /\ DOMAIN Tail(texts) = 1 .. Len(texts) - 1
      /\ \A k \in 1 .. Len(texts) - 1 : Tail(texts)[k] = texts[k + 1]
      /\ Head(texts) = texts[1]
  BY QueueElements, QueueFirst DEF Texts
<1>2. Distinct(Tail(texts))
  BY <1>1 DEF Distinct
<1>3. ASSUME NEW e
      PROVE  CountIn(texts, e) = (IF Head(texts).event = e THEN Head(texts).counts ELSE 0)
                                   + CountIn(Tail(texts), e)
  <2>1. CASE texts[1].event = e
    <3>1. CountIn(texts, e) = texts[1].counts
      BY <1>1, <2>1, CountOfText
    <3>2. \A k \in DOMAIN Tail(texts) : Tail(texts)[k].event # e
      BY <1>1, <2>1 DEF Distinct
    <3>3. CountIn(Tail(texts), e) = 0
      BY <1>1, <1>2, <3>2, CountOfText
    <3>4. texts[1].counts \in Nat
      BY <1>1, MessageIs
    <3>. QED
      BY <1>1, <2>1, <3>1, <3>3, <3>4
  <2>2. CASE texts[1].event # e /\ \E k \in DOMAIN texts : texts[k].event = e
    <3>1. PICK k \in DOMAIN texts : texts[k].event = e
      BY <2>2
    <3>2. k - 1 \in DOMAIN Tail(texts) /\ Tail(texts)[k - 1] = texts[k]
      BY <1>1, <2>2, <3>1
    <3>3. CountIn(texts, e) = texts[k].counts
      BY <3>1, CountOfText
    <3>4. CountIn(Tail(texts), e) = texts[k].counts
      BY <1>1, <1>2, <3>1, <3>2, CountOfText
    <3>5. texts[k].counts \in Nat
      BY <3>1, MessageIs, QueueElements DEF Texts
    <3>. QED
      BY <1>1, <2>2, <3>3, <3>4, <3>5
  <2>3. CASE \A k \in DOMAIN texts : texts[k].event # e
    <3>1. \A k \in DOMAIN Tail(texts) : Tail(texts)[k].event # e
      BY <1>1, <2>3
    <3>2. CountIn(texts, e) = 0 /\ CountIn(Tail(texts), e) = 0
      BY <1>1, <1>2, <2>3, <3>1, CountOfText
    <3>. QED
      BY <1>1, <2>3, <3>2
  <2>. QED
    BY <1>1, <2>1, <2>2, <2>3
<1>. QED
  BY <1>1, <1>2, <1>3

(* Places of an event in a queue of events.                                *)
PlacesOf(queue, e) == {k \in DOMAIN queue : queue[k] = e}

(* PlacesFinite. They can be counted.                                      *)
LEMMA PlacesFinite ==
  ASSUME NEW queue \in Seq(Events), NEW e
  PROVE  IsFiniteSet(PlacesOf(queue, e)) /\ Cardinality(PlacesOf(queue, e)) \in Nat
<1>1. DOMAIN queue = 1 .. Len(queue) /\ Len(queue) \in Nat
  OBVIOUS
<1>2. IsFiniteSet(1 .. Len(queue))
  BY <1>1, FS_Interval
<1>3. PlacesOf(queue, e) \in SUBSET (1 .. Len(queue))
  BY <1>1 DEF PlacesOf
<1>. QED
  BY <1>2, <1>3, FS_Subset, FS_CardinalityType

(* OneMoreWaiting. A line that is queued waits once.                       *)
LEMMA OneMoreWaiting ==
  ASSUME NEW queue \in Seq(Events), NEW x \in Events, NEW e
  PROVE  Cardinality(PlacesOf(Append(queue, x), e))
           = Cardinality(PlacesOf(queue, e)) + (IF x = e THEN 1 ELSE 0)
<1>1. /\ DOMAIN queue = 1 .. Len(queue) /\ Len(queue) \in Nat
      /\ DOMAIN Append(queue, x) = 1 .. Len(queue) + 1
      /\ \A k \in 1 .. Len(queue) : Append(queue, x)[k] = queue[k]
      /\ Append(queue, x)[Len(queue) + 1] = x
  OBVIOUS
<1>2. IsFiniteSet(PlacesOf(queue, e)) /\ Cardinality(PlacesOf(queue, e)) \in Nat
  BY PlacesFinite
<1>3. CASE x = e
  <2>1. PlacesOf(Append(queue, x), e) = PlacesOf(queue, e) \cup {Len(queue) + 1}
    BY <1>1, <1>3 DEF PlacesOf
  <2>2. Len(queue) + 1 \notin PlacesOf(queue, e)
    BY <1>1 DEF PlacesOf
  <2>. QED
    BY <1>2, <1>3, <2>1, <2>2, FS_AddElement
<1>4. CASE x # e
  <2>1. PlacesOf(Append(queue, x), e) = PlacesOf(queue, e)
    BY <1>1, <1>4 DEF PlacesOf
  <2>. QED
    BY <1>2, <1>4, <2>1
<1>. QED
  BY <1>3, <1>4

(* OneLessWaiting. A line that is taken out no longer waits.               *)
LEMMA OneLessWaiting ==
  ASSUME NEW queue \in Seq(Events), queue # <<>>, NEW e
  PROVE  /\ Head(queue) \in Events /\ Tail(queue) \in Seq(Events)
         /\ Len(Tail(queue)) = Len(queue) - 1
         /\ Cardinality(PlacesOf(queue, e))
              = Cardinality(PlacesOf(Tail(queue), e)) + (IF Head(queue) = e THEN 1 ELSE 0)
<1>1. /\ Head(queue) = queue[1] /\ Head(queue) \in Events
      /\ Tail(queue) \in Seq(Events) /\ Len(Tail(queue)) = Len(queue) - 1
      /\ DOMAIN queue = 1 .. Len(queue) /\ Len(queue) \in Nat \ {0}
      /\ DOMAIN Tail(queue) = 1 .. Len(queue) - 1
      /\ \A k \in 1 .. Len(queue) - 1 : Tail(queue)[k] = queue[k + 1]
  OBVIOUS
<1> DEFINE T == PlacesOf(Tail(queue), e)
           S == PlacesOf(queue, e) \ {1}
<1>2. /\ IsFiniteSet(PlacesOf(queue, e)) /\ Cardinality(PlacesOf(queue, e)) \in Nat
      /\ IsFiniteSet(T) /\ Cardinality(T) \in Nat
  BY <1>1, PlacesFinite
<1>3. [k \in T |-> k + 1] \in Bijection(T, S)
  <2>1. \A k \in T : k \in Int /\ k + 1 \in S
    BY <1>1 DEF PlacesOf
  <2>2. \A n \in S : n - 1 \in T /\ n \in Int
    BY <1>1 DEF PlacesOf
  <2>. QED
    BY <2>1, <2>2 DEF Bijection, Injection, Surjection, IsInjective
<1>4. Cardinality(S) = Cardinality(T)
  BY <1>2, <1>3, FS_Bijection DEF ExistsBijection
<1>5. 1 \in PlacesOf(queue, e) <=> Head(queue) = e
  BY <1>1 DEF PlacesOf
<1>6. Cardinality(S) = IF 1 \in PlacesOf(queue, e) THEN Cardinality(PlacesOf(queue, e)) - 1
                       ELSE Cardinality(PlacesOf(queue, e))
  BY <1>2, FS_RemoveElement
<1>. QED
  BY <1>1, <1>2, <1>4, <1>5, <1>6

(* AlertNumbers. What the constants are.                                   *)
LEMMA AlertNumbers ==
  /\ {AlertQueue, AlertWindow, MaxRaised, MaxMissed} \subseteq Nat \ {0}
  /\ Ages = 0 .. AlertWindow
  /\ \A e \in Events : Waiting(e) = Cardinality(PlacesOf(alQueue, e))
  /\ \A e \in Events : Waiting(e)' = Cardinality(PlacesOf(alQueue', e))
  /\ \A e \in Events : InTexts(e) = CountIn(alTexts, e)
  /\ \A e \in Events : InTexts(e)' = CountIn(alTexts', e)
BY AlertsAssumption DEF Ages, Waiting, PlacesOf, InTexts, TextsOf, CountIn

(* TextsNow. The messages of this turn.                                    *)
LEMMA TextsNow ==
  ASSUME AlertsInv
  PROVE  alTexts \in Texts /\ Distinct(alTexts) /\ \A e \in Events : InTexts(e) \in Nat
<1>1. alTexts \in Texts /\ Distinct(alTexts)
  BY DEF AlertsInv, AlertTyped, Distinct, AlertsAccounted
<1>. QED
  BY <1>1, CountOfText, AlertNumbers

(* InitAlertsInv. Nothing was raised yet.                                  *)
LEMMA InitAlertsInv == AlertsInit => AlertsInv
<1> SUFFICES ASSUME AlertsInit PROVE AlertsInv
  OBVIOUS
<1>1. {AlertQueue, AlertWindow, MaxRaised, MaxMissed} \subseteq Nat \ {0}
  BY AlertsAssumption
<1>2. <<>> \in Texts /\ Distinct(<<>>) /\ <<>> \in Seq(Events)
  BY DEF Texts, Distinct
<1>3. \A e \in Events : InTexts(e) = 0 /\ Waiting(e) = 0
  <2>1. TAKE e \in Events
  <2>2. CountIn(<<>>, e) = 0
    BY <1>2, CountOfText
  <2>3. PlacesOf(<<>>, e) = {}
    BY DEF PlacesOf
  <2>. QED
    BY <2>2, <2>3, FS_EmptySet, AlertNumbers DEF AlertsInit
<1>4. NoWindow.held = 0
  BY DEF NoWindow
<1>5. AlertTyped
  BY <1>1, <1>2 DEF AlertsInit, AlertTyped, Windowed, Ages
<1>6. PosterBusy /\ QuietSince
  BY DEF AlertsInit, PosterBusy, QuietSince
<1>7. AlertsAccounted
  BY <1>3, <1>4 DEF AlertsInit, AlertsAccounted, Tried
<1>. QED
  BY <1>5, <1>6, <1>7 DEF AlertsInv

(* OnEventKeeps. A line is queued or counted as dropped.                   *)
LEMMA OnEventKeeps ==
  ASSUME AlertsInv, NEW x \in Events, OnEvent(x)
  PROVE  AlertsInv'
<1>1. {AlertQueue, AlertWindow, MaxRaised, MaxMissed} \subseteq Nat \ {0}
  BY AlertsAssumption
<1>. USE DEF AlertsInv
<1>2. AlertTyped'
  <2>1. alQueue' \in Seq(Events) /\ Len(alQueue') <= AlertQueue
    <3>1. /\ alQueue \in Seq(Events) /\ Len(alQueue) \in Nat
          /\ Append(alQueue, x) \in Seq(Events) /\ Len(Append(alQueue, x)) = Len(alQueue) + 1
      BY DEF AlertTyped
    <3>2. \/ alQueue' = Append(alQueue, x) /\ Len(alQueue) < AlertQueue
          \/ alQueue' = alQueue
      BY DEF OnEvent
    <3>3. Len(alQueue) <= AlertQueue /\ AlertQueue \in Nat
      BY <1>1 DEF AlertTyped
    <3>. QED
      BY <3>1, <3>2, <3>3
  <2>2. alDropped' \in [Events -> Nat] /\ alRaised' \in [Events -> 0 .. MaxRaised]
    <3>1. alDropped \in [Events -> Nat] /\ alRaised \in [Events -> 0 .. MaxRaised]
      BY DEF AlertTyped
    <3>2. alDropped' = alDropped \/ alDropped' = [alDropped EXCEPT ![x] = @ + 1]
      BY DEF OnEvent
    <3>3. alRaised' = [alRaised EXCEPT ![x] = @ + 1] /\ alRaised[x] < MaxRaised
      BY DEF OnEvent
    <3>4. alRaised[x] + 1 \in 0 .. MaxRaised
      BY <1>1, <3>1, <3>3
    <3>. QED
      BY <3>1, <3>2, <3>3, <3>4
  <2>. QED
    BY <2>1, <2>2 DEF AlertTyped, OnEvent
<1>3. PosterBusy' /\ QuietSince'
  BY DEF OnEvent, PosterBusy, QuietSince
<1>4. \A e \in Events : InTexts(e)' = InTexts(e)
  BY AlertNumbers DEF OnEvent
<1>5. ASSUME NEW e \in Events
      PROVE  alRaised'[e] = Tried(e)' + InTexts(e)' + Waiting(e)' + alDropped'[e]
                              + alWindow'[e].held
  <2>1. /\ alRaised[e] = Tried(e) + InTexts(e) + Waiting(e) + alDropped[e] + alWindow[e].held
        /\ alRaised'[e] = alRaised[e] + (IF x = e THEN 1 ELSE 0)
        /\ alRaised[e] \in Nat /\ Tried(e) \in Nat /\ alDropped[e] \in Nat
        /\ Tried(e)' = Tried(e) /\ alWindow' = alWindow
    BY <1>1 DEF AlertsAccounted, OnEvent, AlertTyped, Tried
  <2>2. Waiting(e) \in Nat
    BY PlacesFinite, AlertNumbers DEF AlertTyped
  <2>3. alWindow[e].held \in Nat /\ InTexts(e) \in Nat
    BY TextsNow, WindowIs DEF AlertTyped
  <2>4. CASE Len(alQueue) < AlertQueue /\ alPoster # "gone"
    <3>1. alQueue' = Append(alQueue, x) /\ alDropped' = alDropped
      BY <2>4 DEF OnEvent
    <3>2. Waiting(e)' = Waiting(e) + (IF x = e THEN 1 ELSE 0)
      BY <3>1, OneMoreWaiting, AlertNumbers DEF AlertTyped
    <3>3. /\ InTexts(e)' = InTexts(e) /\ Tried(e)' = Tried(e)
          /\ alDropped'[e] = alDropped[e] /\ alWindow'[e].held = alWindow[e].held
      BY <1>4, <2>1, <3>1
    <3>. QED
      BY <2>1, <2>2, <2>3, <3>2, <3>3
  <2>5. CASE ~(Len(alQueue) < AlertQueue /\ alPoster # "gone")
    <3>1. alQueue' = alQueue /\ alDropped'[e] = alDropped[e] + (IF x = e THEN 1 ELSE 0)
      BY <2>5 DEF OnEvent, AlertTyped
    <3>2. Waiting(e)' = Waiting(e)
      BY <3>1, AlertNumbers
    <3>. QED
      BY <1>4, <2>1, <2>2, <2>3, <3>1, <3>2
  <2>. QED
    BY <2>4, <2>5
<1>6. AlertsAccounted'
  BY <1>5 DEF AlertsAccounted, OnEvent
<1>. QED
  BY <1>2, <1>3, <1>6

(* AdmittedIs. A window after an alert.                                    *)
LEMMA AdmittedIs ==
  ASSUME NEW w \in Windowed
  PROVE  /\ Admitted(w) \in Windowed \ {NoWindow}
         /\ InWindow(w) => /\ w # NoWindow /\ Admitted(w).age = w.age
                          /\ Admitted(w).held = w.held + 1
         /\ ~InWindow(w) => /\ w = NoWindow \/ w.age = AlertWindow
                           /\ Admitted(w).age = 0 /\ Admitted(w).held = 0
<1>1. AlertWindow \in Nat \ {0}
  BY AlertsAssumption
<1>2. CASE w = NoWindow
  BY <1>1, <1>2 DEF Admitted, InWindow, Windowed, NoWindow, Ages
<1>3. CASE w \in [age : Ages, held : Nat]
  BY <1>1, <1>3 DEF Admitted, InWindow, Windowed, NoWindow, Ages
<1>. QED
  BY <1>2, <1>3 DEF Windowed

(* HeldBackIs. A window after dropped alerts joined it.                    *)
LEMMA HeldBackIs ==
  ASSUME NEW w \in Windowed, NEW count \in Nat, NEW datesBack \in BOOLEAN
  PROVE  /\ HeldBack(w, count, datesBack) \in Windowed
         /\ HeldBack(w, count, datesBack).held = w.held + count
         /\ HeldBack(w, count, datesBack) = NoWindow => w = NoWindow
         /\ w # NoWindow => HeldBack(w, count, datesBack).age = w.age
<1>1. AlertWindow \in Nat \ {0}
  BY AlertsAssumption
<1>2. CASE w = NoWindow
  BY <1>1, <1>2 DEF HeldBack, Windowed, NoWindow, Ages
<1>3. CASE w # NoWindow
  <2>1. w \in [age : Ages, held : Nat]
    BY <1>3 DEF Windowed
  <2>2. HeldBack(w, count, datesBack) = [w EXCEPT !.held = @ + count]
    BY <1>3 DEF HeldBack
  <2>3. /\ HeldBack(w, count, datesBack) \in [age : Ages, held : Nat]
        /\ HeldBack(w, count, datesBack).held = w.held + count
        /\ HeldBack(w, count, datesBack).age = w.age
    BY <2>1, <2>2
  <2>4. NoWindow \notin [age : Ages, held : Nat]
    BY <1>1 DEF NoWindow, Ages
  <2>. QED
    BY <1>3, <2>3, <2>4 DEF Windowed
<1>. QED
  BY <1>2, <1>3

(* TurnKeeps. A turn of the poster: what it takes from the queue and the   *)
(* windows is in the messages, a message starts a window, and the dropped  *)
(* ones join the windows.                                                  *)
LEMMA TurnKeeps ==
  ASSUME AlertsInv, alPoster = "wait",
         NEW W \in [Events -> Windowed], NEW texts \in Texts, Distinct(texts),
         NEW datesBack \in BOOLEAN, TakeDropped(W, datesBack), BuildAlert(texts),
         alQueue' \in Seq(Events), Len(alQueue') <= AlertQueue,
         alChecks' \in 0 .. MaxMissed, UNCHANGED <<alRaised, alTold, alLost>>,
         \A k \in DOMAIN texts :
            W[texts[k].event] # NoWindow /\ W[texts[k].event].age = 0,
         \A e \in Events : (\A k \in DOMAIN texts : texts[k].event # e) =>
            IF W[e] = NoWindow THEN alWindow[e] = NoWindow
            ELSE alWindow[e] # NoWindow /\ W[e].age = alWindow[e].age,
         \A e \in Events : CountIn(texts, e) + W[e].held + Cardinality(PlacesOf(alQueue', e))
                             = alWindow[e].held + Waiting(e)
  PROVE  AlertsInv'
<1>1. {AlertQueue, AlertWindow, MaxRaised, MaxMissed} \subseteq Nat \ {0} /\ Ages = 0 .. AlertWindow
  BY AlertsAssumption DEF Ages
<1>2. AlertTyped /\ PosterBusy /\ QuietSince /\ AlertsAccounted
  BY DEF AlertsInv
<1>3. /\ alWindow' = [e \in Events |-> HeldBack(W[e], alDropped[e], datesBack)]
      /\ alDropped' = [e \in Events |-> 0]
  BY DEF TakeDropped
<1>4. /\ alTexts' = texts
      /\ alQuiet' = [e \in Events |-> IF \E k \in DOMAIN texts : texts[k].event = e
                                        THEN 0 ELSE alQuiet[e]]
      /\ alPoster' = IF texts = <<>> THEN "wait" ELSE "post"
  BY DEF BuildAlert
<1>5. \A e \in Events : alDropped[e] \in Nat /\ W[e] \in Windowed /\ alQuiet[e] \in Ages
  BY <1>2 DEF AlertTyped
<1>6. ASSUME NEW e \in Events
      PROVE  /\ alWindow'[e] \in Windowed
             /\ alWindow'[e].held = W[e].held + alDropped[e]
             /\ alWindow'[e] = NoWindow => W[e] = NoWindow
             /\ W[e] # NoWindow => alWindow'[e].age = W[e].age
  <2>1. alWindow'[e] = HeldBack(W[e], alDropped[e], datesBack)
    BY <1>3
  <2>. QED
    BY <1>5, <2>1, HeldBackIs
<1>7. AlertTyped'
  <2>1. alWindow' \in [Events -> Windowed]
    BY <1>3, <1>6
  <2>2. alQuiet' \in [Events -> Ages]
    BY <1>1, <1>4, <1>5
  <2>3. alDropped' \in [Events -> Nat]
    BY <1>3
  <2>. QED
    BY <1>2, <1>4, <2>1, <2>2, <2>3 DEF AlertTyped
<1>8. PosterBusy'
  BY <1>4 DEF PosterBusy
<1>9. QuietSince'
  <2>1. SUFFICES ASSUME NEW e \in Events
                 PROVE  IF alWindow'[e] = NoWindow THEN alQuiet'[e] = AlertWindow
                        ELSE alWindow'[e].age <= alQuiet'[e]
    BY DEF QuietSince
  <2>2. CASE \E k \in DOMAIN texts : texts[k].event = e
    <3>1. W[e] # NoWindow /\ W[e].age = 0
      BY <2>2
    <3>2. alQuiet'[e] = 0
      BY <1>4, <2>2
    <3>. QED
      BY <1>6, <3>1, <3>2
  <2>3. CASE \A k \in DOMAIN texts : texts[k].event # e
    <3>1. alQuiet'[e] = alQuiet[e] /\ alQuiet[e] \in Ages
      BY <1>4, <1>5, <2>3
    <3>2. CASE W[e] = NoWindow
      <4>1. alWindow[e] = NoWindow
        BY <2>3, <3>2
      <4>2. alQuiet[e] = AlertWindow
        BY <1>2, <4>1 DEF QuietSince
      <4>3. alWindow'[e].age \in {-1} \cup Ages
        BY <1>6, WindowIs
      <4>. QED
        BY <1>1, <3>1, <4>2, <4>3
    <3>3. CASE W[e] # NoWindow
      <4>1. alWindow[e] # NoWindow /\ W[e].age = alWindow[e].age
        BY <2>3, <3>3
      <4>2. alWindow[e].age <= alQuiet[e]
        BY <1>2, <4>1 DEF QuietSince
      <4>. QED
        BY <1>6, <3>1, <3>3, <4>1, <4>2
    <3>. QED
      BY <3>2, <3>3
  <2>. QED
    BY <2>2, <2>3
<1>10. AlertsAccounted'
  <2>1. ASSUME NEW e \in Events
        PROVE  alRaised'[e] = Tried(e)' + InTexts(e)' + Waiting(e)' + alDropped'[e]
                                + alWindow'[e].held
    <3>1. alRaised[e] = Tried(e) + InTexts(e) + Waiting(e) + alDropped[e] + alWindow[e].held
      BY <1>2 DEF AlertsAccounted
    <3>2. InTexts(e) = 0
      <4>1. alTexts = <<>>
        BY <1>2 DEF PosterBusy
      <4>2. \A k \in DOMAIN alTexts : alTexts[k].event # e
        BY <4>1
      <4>. QED
        BY <4>2, CountOfText, TextsNow, AlertNumbers
    <3>3. InTexts(e)' = CountIn(texts, e) /\ Waiting(e)' = Cardinality(PlacesOf(alQueue', e))
      BY <1>4, AlertNumbers
    <3>4. alRaised'[e] = alRaised[e] /\ Tried(e)' = Tried(e) /\ alDropped'[e] = 0
      BY <1>3 DEF Tried
    <3>5. /\ Tried(e) \in Nat /\ alDropped[e] \in Nat
          /\ alWindow[e].held \in Nat /\ W[e].held \in Nat
      BY <1>2, <1>5, WindowIs DEF AlertTyped, Tried
    <3>6. Waiting(e) \in Nat /\ Cardinality(PlacesOf(alQueue', e)) \in Nat
      BY <1>2, PlacesFinite, AlertNumbers DEF AlertTyped
    <3>7. CountIn(texts, e) \in Nat
      BY CountOfText
    <3>8. alWindow'[e].held = W[e].held + alDropped[e]
      BY <1>6
    <3>9. CountIn(texts, e) + W[e].held + Cardinality(PlacesOf(alQueue', e))
            = alWindow[e].held + Waiting(e)
      OBVIOUS
    <3>10. alRaised[e] = Tried(e) + CountIn(texts, e) + Cardinality(PlacesOf(alQueue', e)) + 0
                          + (W[e].held + alDropped[e])
      <4> DEFINE told == Tried(e)   waiting == Waiting(e)   dropped == alDropped[e]
                 kept == alWindow[e].held   text == CountIn(texts, e)   keeps == W[e].held
                 waits == Cardinality(PlacesOf(alQueue', e))
      <4>1. /\ told \in Nat /\ waiting \in Nat /\ dropped \in Nat /\ kept \in Nat
            /\ text \in Nat /\ keeps \in Nat /\ waits \in Nat
            /\ text + keeps + waits = kept + waiting
        BY <3>5, <3>6, <3>7, <3>9
      <4>2. alRaised[e] = told + 0 + waiting + dropped + kept
        BY <3>1, <3>2
      <4>. HIDE DEF told, waiting, dropped, kept, text, keeps, waits
      <4>3. told + 0 + waiting + dropped + kept = told + text + waits + 0 + (keeps + dropped)
        BY <4>1
      <4>4. alRaised[e] = told + text + waits + 0 + (keeps + dropped)
        BY <4>2, <4>3
      <4>. QED
        BY <4>4 DEF told, waiting, dropped, kept, text, keeps, waits
    <3>. QED
      BY <3>3, <3>4, <3>8, <3>10
  <2>. QED
    BY <1>4, <2>1 DEF AlertsAccounted, Distinct
<1>. QED
  BY <1>7, <1>8, <1>9, <1>10 DEF AlertsInv

(* TakeAlertKeeps. An alert is posted with what was held back, or joins    *)
(* it.                                                                     *)
LEMMA TakeAlertKeeps ==
  ASSUME AlertsInv, TakeAlert
  PROVE  AlertsInv' /\ OneMessagePerWindow
<1> DEFINE e == Head(alQueue)
           w == alWindow[e]
           W == [alWindow EXCEPT ![e] = Admitted(w)]
           texts == IF InWindow(w) THEN <<>> ELSE <<[event |-> e, counts |-> 1 + w.held]>>
<1>1. {AlertQueue, AlertWindow, MaxRaised, MaxMissed} \subseteq Nat \ {0}
  BY AlertsAssumption
<1>2. /\ alQueue \in Seq(Events) /\ alQueue # <<>> /\ alWindow \in [Events -> Windowed]
      /\ Len(alQueue) <= AlertQueue /\ alChecks \in 0 .. MaxMissed
      /\ QuietSince /\ alPoster = "wait"
  BY DEF AlertsInv, AlertTyped, TakeAlert
<1>3. /\ e \in Events /\ alQueue' = Tail(alQueue)
      /\ Tail(alQueue) \in Seq(Events) /\ Len(Tail(alQueue)) <= AlertQueue
      /\ \A x \in Events : Cardinality(PlacesOf(alQueue, x))
                             = Cardinality(PlacesOf(Tail(alQueue), x)) + (IF e = x THEN 1 ELSE 0)
  <2>1. \A x : /\ Head(alQueue) \in Events /\ Tail(alQueue) \in Seq(Events)
               /\ Len(Tail(alQueue)) = Len(alQueue) - 1
               /\ Cardinality(PlacesOf(alQueue, x)) = Cardinality(PlacesOf(Tail(alQueue), x))
                                                        + (IF Head(alQueue) = x THEN 1 ELSE 0)
    BY <1>2, OneLessWaiting
  <2>2. Len(alQueue) \in Nat /\ alQueue' = Tail(alQueue)
    BY <1>2 DEF TakeAlert
  <2>. QED
    BY <1>1, <1>2, <2>1, <2>2
<1>4. w \in Windowed /\ W \in [Events -> Windowed] /\ w.held \in Nat
  BY <1>2, <1>3, AdmittedIs, WindowIs
<1>5. texts \in Texts /\ Distinct(texts)
  <2>1. [event |-> e, counts |-> 1 + w.held] \in Message
    BY <1>3, <1>4 DEF Message
  <2>2. texts \in Seq(Message)
    BY <2>1
  <2>3. \A j, k \in DOMAIN texts : j = k
    OBVIOUS
  <2>. QED
    BY <2>2, <2>3 DEF Texts, Distinct
<1>6. PICK datesBack \in BOOLEAN : TakeDropped(W, datesBack)
  BY DEF TakeAlert
<1>7. BuildAlert(texts)
  BY DEF TakeAlert, HeldBefore
<1>8. alChecks' \in 0 .. MaxMissed /\ UNCHANGED <<alRaised, alTold, alLost>>
  BY <1>2 DEF TakeAlert
<1>9. CASE InWindow(w)
  <2>1. texts = <<>> /\ DOMAIN texts = {}
    BY <1>9
  <2>2. W[e] # NoWindow /\ w # NoWindow /\ W[e].age = w.age /\ W[e].held = w.held + 1
    BY <1>2, <1>3, <1>4, <1>9, AdmittedIs
  <2>3. \A x \in Events \ {e} : W[x] = alWindow[x]
    BY <1>2
  <2>4. \A x \in Events : IF W[x] = NoWindow THEN alWindow[x] = NoWindow
                          ELSE alWindow[x] # NoWindow /\ W[x].age = alWindow[x].age
    BY <2>2, <2>3
  <2>5. ASSUME NEW x \in Events
        PROVE  CountIn(texts, x) + W[x].held + Cardinality(PlacesOf(alQueue', x))
                 = alWindow[x].held + Waiting(x)
    <3>1. CountIn(texts, x) = 0
      BY <1>5, <2>1, CountOfText
    <3>2. Waiting(x) = Cardinality(PlacesOf(alQueue', x)) + (IF e = x THEN 1 ELSE 0)
      BY <1>3, AlertNumbers
    <3>3. Cardinality(PlacesOf(alQueue', x)) \in Nat /\ alWindow[x].held \in Nat
      BY <1>2, <1>3, PlacesFinite, WindowIs
    <3>4. W[x].held = alWindow[x].held + (IF e = x THEN 1 ELSE 0)
      BY <2>2, <2>3, <3>3
    <3>. HIDE DEF texts, W
    <3>. QED
      BY <3>1, <3>2, <3>3, <3>4
  <2>. HIDE DEF texts, W, w
  <2>6. AlertsInv'
    BY <1>2, <1>3, <1>4, <1>5, <1>6, <1>7, <1>8, <2>1, <2>4, <2>5, TurnKeeps
  <2>7. OneMessagePerWindow
    BY <1>7, <2>1 DEF OneMessagePerWindow, BuildAlert
  <2>. QED
    BY <2>6, <2>7
<1>10. CASE ~InWindow(w)
  <2>1. /\ texts = <<[event |-> e, counts |-> 1 + w.held]>>
        /\ DOMAIN texts = {1} /\ texts[1].event = e /\ texts[1].counts = 1 + w.held
    BY <1>10
  <2>2. W[e] # NoWindow /\ W[e].age = 0 /\ W[e].held = 0
    BY <1>2, <1>3, <1>4, <1>10, AdmittedIs
  <2>3. \A x \in Events \ {e} : W[x] = alWindow[x]
    BY <1>2
  <2>4. \A k \in DOMAIN texts : W[texts[k].event] # NoWindow /\ W[texts[k].event].age = 0
    BY <2>1, <2>2
  <2>5. \A x \in Events : (\A k \in DOMAIN texts : texts[k].event # x) =>
            IF W[x] = NoWindow THEN alWindow[x] = NoWindow
            ELSE alWindow[x] # NoWindow /\ W[x].age = alWindow[x].age
    BY <2>1, <2>3
  <2>6. ASSUME NEW x \in Events
        PROVE  CountIn(texts, x) + W[x].held + Cardinality(PlacesOf(alQueue', x))
                 = alWindow[x].held + Waiting(x)
    <3>1. CountIn(texts, x) = IF e = x THEN 1 + w.held ELSE 0
      BY <1>5, <2>1, CountOfText
    <3>2. Waiting(x) = Cardinality(PlacesOf(alQueue', x)) + (IF e = x THEN 1 ELSE 0)
      BY <1>3, AlertNumbers
    <3>3. Cardinality(PlacesOf(alQueue', x)) \in Nat /\ alWindow[x].held \in Nat
      BY <1>2, <1>3, PlacesFinite, WindowIs
    <3>4. W[x].held = (IF e = x THEN 0 ELSE alWindow[x].held) /\ w = alWindow[e]
      BY <2>2, <2>3
    <3>. HIDE DEF texts, W, w
    <3>. QED
      BY <3>1, <3>2, <3>3, <3>4
  <2>7. alQuiet[e] = AlertWindow
    <3>1. w = NoWindow \/ (w # NoWindow /\ w.age = AlertWindow)
      BY <1>4, <1>10, AdmittedIs
    <3>2. alQuiet[e] \in 0 .. AlertWindow
      BY <1>3 DEF AlertsInv, AlertTyped, Ages
    <3>. QED
      BY <1>1, <1>2, <1>3, <3>1, <3>2 DEF QuietSince
  <2>. HIDE DEF texts, W, w
  <2>8. AlertsInv'
    BY <1>2, <1>3, <1>4, <1>5, <1>6, <1>7, <1>8, <2>4, <2>5, <2>6, TurnKeeps
  <2>9. OneMessagePerWindow
    BY <1>7, <2>1, <2>7 DEF OneMessagePerWindow, BuildAlert
  <2>. QED
    BY <2>8, <2>9
<1>. QED
  BY <1>9, <1>10

(* AllInOrder. An order of a finite set has each of its elements.          *)
LEMMA AllInOrder ==
  ASSUME NEW S, IsFiniteSet(S), NEW order \in SetToSeqs(S)
  PROVE  /\ order \in Seq(S)
         /\ \A j, k \in DOMAIN order : order[j] = order[k] => j = k
         /\ \A x \in S : \E k \in DOMAIN order : order[k] = x
<1> DEFINE D == 1 .. Cardinality(S)
<1>1. Cardinality(S) \in Nat
  BY FS_CardinalityType
<1>2. order \in [D -> S] /\ \A j, k \in D : j # k => order[j] # order[k]
  BY DEF SetToSeqs
<1>3. order \in Injection(D, S)
  BY <1>2 DEF Injection, IsInjective
<1>4. IsFiniteSet(D) /\ Cardinality(D) = Cardinality(S)
  BY <1>1, FS_Interval
<1>5. order \in Surjection(D, S)
  BY <1>3, <1>4, FS_Injection
<1>6. \A x \in S : \E k \in D : order[k] = x
  BY <1>5 DEF Surjection
<1>. QED
  BY <1>1, <1>2, <1>6

(* CheckKeeps. A check reports what was held back in windows that ended.   *)
LEMMA CheckKeeps ==
  ASSUME AlertsInv, Check
  PROVE  AlertsInv' /\ OneMessagePerWindow
<1> DEFINE due == {e \in Events : IsDue(alWindow[e])}
           W == [e \in Events |-> IF e \in due THEN Reported(alWindow[e]) ELSE alWindow[e]]
<1>1. /\ {AlertQueue, AlertWindow, MaxRaised, MaxMissed} \subseteq Nat \ {0}
      /\ IsFiniteSet(Events)
  BY AlertsAssumption
<1>2. /\ alQueue \in Seq(Events) /\ alWindow \in [Events -> Windowed]
      /\ Len(alQueue) <= AlertQueue /\ alChecks \in 0 .. MaxMissed
      /\ QuietSince /\ alPoster = "wait" /\ alQuiet \in [Events -> Ages]
  BY DEF AlertsInv, AlertTyped, Check
<1>3. PICK order \in SetToSeqs(due) :
        BuildAlert([k \in DOMAIN order |->
                     [event |-> order[k], counts |-> alWindow[order[k]].held]])
  BY DEF Check
<1> DEFINE texts == [k \in DOMAIN order |->
                       [event |-> order[k], counts |-> alWindow[order[k]].held]]
<1>4. /\ order \in Seq(due)
      /\ \A j, k \in DOMAIN order : order[j] = order[k] => j = k
      /\ \A x \in due : \E k \in DOMAIN order : order[k] = x
  <2>1. IsFiniteSet(due)
    BY <1>1, FS_Subset
  <2>. HIDE DEF due
  <2>. QED
    BY <1>3, <2>1, AllInOrder
<1>5. \A x \in due : /\ x \in Events /\ alWindow[x] # NoWindow /\ alWindow[x].held \in Nat \ {0}
                     /\ alWindow[x].age = AlertWindow
  <2>1. ASSUME NEW x \in due
        PROVE  /\ x \in Events /\ alWindow[x] # NoWindow /\ alWindow[x].held \in Nat \ {0}
               /\ alWindow[x].age = AlertWindow
    <3>1. alWindow[x] \in Windowed /\ alWindow[x].held > 0 /\ alWindow[x].age = AlertWindow
      BY <1>2, <2>1 DEF IsDue
    <3>2. NoWindow.age = -1
      BY DEF NoWindow
    <3>. QED
      BY <1>1, <3>1, <3>2, WindowIs
  <2>. QED
    BY <2>1
<1>6. /\ DOMAIN texts = DOMAIN order
      /\ \A k \in DOMAIN order : /\ order[k] \in due /\ texts[k].event = order[k]
                                 /\ texts[k].counts = alWindow[order[k]].held
  BY <1>4
<1>7. texts \in Texts /\ Distinct(texts)
  <2>1. \A k \in DOMAIN order : texts[k] \in Message
    BY <1>4, <1>5 DEF Message
  <2>2. texts \in Seq(Message)
    BY <1>4, <2>1
  <2>. QED
    BY <1>4, <1>6, <2>2 DEF Texts, Distinct
<1>8. PICK datesBack \in BOOLEAN : TakeDropped(W, datesBack)
  BY DEF Check
<1>9. alChecks' \in 0 .. MaxMissed /\ UNCHANGED <<alQueue, alRaised, alTold, alLost>>
  BY <1>1, <1>2 DEF Check
<1>10. W \in [Events -> Windowed]
  BY <1>1, <1>2 DEF Reported, Windowed, Ages
<1>11. \A x \in due : W[x] # NoWindow /\ W[x].age = 0 /\ W[x].held = 0
  BY DEF Reported, NoWindow
<1>12. \A x \in Events \ due : W[x] = alWindow[x]
  OBVIOUS
<1>. HIDE DEF texts, W, due
<1>13. \A k \in DOMAIN texts : W[texts[k].event] # NoWindow /\ W[texts[k].event].age = 0
  BY <1>6, <1>11
<1>14. \A x \in Events : (\A k \in DOMAIN texts : texts[k].event # x) =>
            IF W[x] = NoWindow THEN alWindow[x] = NoWindow
            ELSE alWindow[x] # NoWindow /\ W[x].age = alWindow[x].age
  BY <1>4, <1>6, <1>12
<1>15. ASSUME NEW x \in Events
       PROVE  CountIn(texts, x) + W[x].held + Cardinality(PlacesOf(alQueue', x))
                = alWindow[x].held + Waiting(x)
  <2>1. Waiting(x) = Cardinality(PlacesOf(alQueue', x))
    BY <1>9, AlertNumbers
  <2>2. Cardinality(PlacesOf(alQueue', x)) \in Nat /\ alWindow[x].held \in Nat
    BY <1>2, <1>9, PlacesFinite, WindowIs
  <2>3. CountIn(texts, x) + W[x].held = alWindow[x].held
    <3>1. CASE x \in due
      <4>1. PICK k \in DOMAIN order : order[k] = x
        BY <1>4, <3>1
      <4>2. CountIn(texts, x) = alWindow[x].held
        BY <1>6, <1>7, <4>1, CountOfText
      <4>. QED
        BY <1>11, <2>2, <3>1, <4>2
    <3>2. CASE x \notin due
      <4>1. \A k \in DOMAIN texts : texts[k].event # x
        BY <1>6, <3>2
      <4>2. CountIn(texts, x) = 0
        BY <1>7, <4>1, CountOfText
      <4>. QED
        BY <1>12, <2>2, <3>2, <4>2
    <3>. QED
      BY <3>1, <3>2
  <2>. QED
    BY <2>1, <2>2, <2>3
<1>16. AlertsInv'
  <2>1. BuildAlert(texts)
    BY <1>3 DEF texts
  <2>2. alQueue' \in Seq(Events) /\ Len(alQueue') <= AlertQueue
    BY <1>2, <1>9
  <2>. QED
    BY <1>2, <1>7, <1>8, <1>9, <1>10, <1>13, <1>14, <1>15, <2>1, <2>2, TurnKeeps
<1>17. OneMessagePerWindow
  <2>1. alTexts' = texts
    BY <1>3 DEF BuildAlert, texts
  <2>2. \A x \in due : alQuiet[x] = AlertWindow
    BY <1>1, <1>2, <1>5 DEF QuietSince, Ages
  <2>. QED
    BY <1>6, <2>1, <2>2 DEF OneMessagePerWindow
<1>. QED
  BY <1>16, <1>17

(* PostKeeps. A message that was posted has told what it counts, and one   *)
(* that was not has lost it.                                               *)
LEMMA PostKeeps ==
  ASSUME AlertsInv, Post
  PROVE  AlertsInv' /\ OneMessagePerWindow
<1> DEFINE t == Head(alTexts)
<1>1. /\ AlertTyped /\ PosterBusy /\ QuietSince /\ AlertsAccounted
      /\ alPoster = "post" /\ alTexts # <<>>
  BY DEF AlertsInv, Post, PosterBusy
<1>2. /\ alTexts' = Tail(alTexts)
      /\ \/ alTold' = [alTold EXCEPT ![t.event] = @ + t.counts] /\ alLost' = alLost
         \/ alLost' = [alLost EXCEPT ![t.event] = @ + t.counts] /\ alTold' = alTold
      /\ alPoster' = IF Len(alTexts) = 1 THEN "wait" ELSE "post"
      /\ UNCHANGED <<alQueue, alDropped, alWindow, alChecks, alRaised, alQuiet>>
  BY DEF Post
<1>3. alTexts \in Texts /\ Distinct(alTexts)
  BY TextsNow
<1>4. /\ Tail(alTexts) \in Texts /\ Distinct(Tail(alTexts)) /\ t \in Message
      /\ \A e : CountIn(alTexts, e) = (IF t.event = e THEN t.counts ELSE 0)
                                        + CountIn(Tail(alTexts), e)
  BY <1>1, <1>3, FirstTextGone
<1>5. t.event \in Events /\ t.counts \in Nat
  BY <1>4, MessageIs
<1>6. Len(alTexts) = 1 <=> Tail(alTexts) = <<>>
  <2>1. Len(alTexts) \in Nat /\ Len(Tail(alTexts)) = Len(alTexts) - 1
    BY <1>1, <1>3, QueueElements, QueueFirst DEF Texts
  <2>2. Tail(alTexts) = <<>> <=> Len(Tail(alTexts)) = 0
    BY <1>4, QueueElements DEF Texts
  <2>. QED
    BY <2>1, <2>2
<1>. HIDE DEF t
<1>7. AlertTyped'
  <2>1. alTold' \in [Events -> Nat] /\ alLost' \in [Events -> Nat]
    <3>1. alTold \in [Events -> Nat] /\ alLost \in [Events -> Nat]
      BY <1>1 DEF AlertTyped
    <3>2. CASE alTold' = [alTold EXCEPT ![t.event] = @ + t.counts] /\ alLost' = alLost
      BY <1>5, <3>1, <3>2
    <3>3. CASE alLost' = [alLost EXCEPT ![t.event] = @ + t.counts] /\ alTold' = alTold
      BY <1>5, <3>1, <3>3
    <3>. QED
      BY <1>2, <3>2, <3>3
  <2>. QED
    BY <1>1, <1>2, <1>4, <2>1 DEF AlertTyped
<1>8. PosterBusy' /\ QuietSince'
  BY <1>1, <1>2, <1>6 DEF PosterBusy, QuietSince
<1>9. ASSUME NEW e \in Events
      PROVE  alRaised'[e] = Tried(e)' + InTexts(e)' + Waiting(e)' + alDropped'[e]
                              + alWindow'[e].held
  <2>1. alRaised[e] = Tried(e) + InTexts(e) + Waiting(e) + alDropped[e] + alWindow[e].held
    BY <1>1 DEF AlertsAccounted
  <2>2. InTexts(e) = (IF t.event = e THEN t.counts ELSE 0) + InTexts(e)'
    BY <1>2, <1>4, AlertNumbers
  <2>3. Tried(e)' = Tried(e) + (IF t.event = e THEN t.counts ELSE 0)
    <3>1. /\ alTold \in [Events -> Nat] /\ alLost \in [Events -> Nat]
          /\ alTold[e] \in Nat /\ alLost[e] \in Nat
      BY <1>1 DEF AlertTyped
    <3>2. CASE alTold' = [alTold EXCEPT ![t.event] = @ + t.counts] /\ alLost' = alLost
      <4>1. alTold'[e] = alTold[e] + (IF t.event = e THEN t.counts ELSE 0) /\ alLost'[e] = alLost[e]
        BY <1>5, <3>1, <3>2
      <4>. QED
        BY <1>5, <3>1, <4>1 DEF Tried
    <3>3. CASE alLost' = [alLost EXCEPT ![t.event] = @ + t.counts] /\ alTold' = alTold
      <4>1. alLost'[e] = alLost[e] + (IF t.event = e THEN t.counts ELSE 0) /\ alTold'[e] = alTold[e]
        BY <1>5, <3>1, <3>3
      <4>. QED
        BY <1>5, <3>1, <4>1 DEF Tried
    <3>. QED
      BY <1>2, <3>2, <3>3
  <2>4. InTexts(e)' \in Nat
    BY <1>2, <1>4, CountOfText, AlertNumbers
  <2>5. Waiting(e)' = Waiting(e)
    BY <1>2, AlertNumbers
  <2>6. Tried(e) \in Nat
    BY <1>1 DEF AlertTyped, Tried
  <2> DEFINE n == IF t.event = e THEN t.counts ELSE 0
             left == InTexts(e)'
  <2>7. Tried(e) + InTexts(e) = Tried(e)' + InTexts(e)'
    <3>1. n \in Nat /\ InTexts(e) = n + left /\ Tried(e)' = Tried(e) + n /\ left \in Nat
      BY <1>5, <2>2, <2>3, <2>4
    <3>. HIDE DEF n, left
    <3>2. Tried(e) + InTexts(e) = Tried(e)' + left
      BY <2>6, <3>1
    <3>. QED
      BY <3>2 DEF left
  <2>. QED
    BY <1>2, <2>1, <2>5, <2>7
<1>10. AlertsAccounted'
  BY <1>2, <1>4, <1>9 DEF AlertsAccounted, Distinct
<1>11. OneMessagePerWindow
  BY <1>1 DEF OneMessagePerWindow
<1>. QED
  BY <1>7, <1>8, <1>10, <1>11 DEF AlertsInv

(* AlertTickKeeps. A window and the last message grow old together.        *)
LEMMA AlertTickKeeps ==
  ASSUME AlertsInv, AlertTick
  PROVE  AlertsInv'
<1>1. AlertTyped /\ PosterBusy /\ QuietSince /\ AlertsAccounted
  BY DEF AlertsInv
<1>2. {AlertQueue, AlertWindow, MaxRaised, MaxMissed} \subseteq Nat \ {0} /\ Ages = 0 .. AlertWindow
  BY AlertsAssumption DEF Ages
<1>3. \A a \in 0 .. AlertWindow : OlderAlert(a) = IF a < AlertWindow THEN a + 1 ELSE a
  BY <1>2, SmallerOfTwo DEF OlderAlert
<1>4. ASSUME NEW e \in Events
      PROVE  /\ alWindow'[e] \in Windowed /\ alWindow'[e].held = alWindow[e].held
             /\ alWindow'[e] = NoWindow <=> alWindow[e] = NoWindow
             /\ alWindow[e] # NoWindow => /\ alWindow[e].age \in 0 .. AlertWindow
                                          /\ alWindow'[e].age = OlderAlert(alWindow[e].age)
  <2>1. alWindow[e] \in Windowed
    BY <1>1 DEF AlertTyped
  <2>2. CASE alWindow[e] = NoWindow
    BY <2>1, <2>2 DEF AlertTick
  <2>3. CASE alWindow[e] # NoWindow
    <3>1. alWindow[e] \in [age : Ages, held : Nat]
      BY <2>1, <2>3 DEF Windowed
    <3>2. alWindow'[e] = [alWindow[e] EXCEPT !.age = OlderAlert(@)]
      BY <2>3 DEF AlertTick
    <3>3. OlderAlert(alWindow[e].age) \in Ages
      BY <1>2, <1>3, <3>1
    <3>4. alWindow'[e] \in [age : Ages, held : Nat] /\ alWindow'[e].held = alWindow[e].held
          /\ alWindow'[e].age = OlderAlert(alWindow[e].age)
      BY <3>1, <3>2, <3>3
    <3>5. NoWindow \notin [age : Ages, held : Nat]
      BY <1>2 DEF NoWindow
    <3>. QED
      BY <1>2, <2>3, <3>1, <3>4, <3>5 DEF Windowed
  <2>. QED
    BY <2>2, <2>3
<1>5. \A e \in Events : alQuiet[e] \in 0 .. AlertWindow /\ alQuiet'[e] = OlderAlert(alQuiet[e])
  BY <1>1, <1>2 DEF AlertTyped, AlertTick
<1>6. AlertTyped'
  <2>1. alWindow' \in [Events -> Windowed]
    BY <1>4 DEF AlertTick
  <2>2. alQuiet' \in [Events -> Ages]
    BY <1>2, <1>3, <1>5 DEF AlertTick
  <2>3. alChecks' \in 0 .. MaxMissed
    BY <1>1, <1>2 DEF AlertTyped, AlertTick
  <2>. QED
    BY <1>1, <2>1, <2>2, <2>3 DEF AlertTyped, AlertTick
<1>7. PosterBusy'
  BY <1>1 DEF PosterBusy, AlertTick
<1>8. QuietSince'
  <2>1. SUFFICES ASSUME NEW e \in Events
                 PROVE  IF alWindow'[e] = NoWindow THEN alQuiet'[e] = AlertWindow
                        ELSE alWindow'[e].age <= alQuiet'[e]
    BY DEF QuietSince
  <2>2. IF alWindow[e] = NoWindow THEN alQuiet[e] = AlertWindow
        ELSE alWindow[e].age <= alQuiet[e]
    BY <1>1 DEF QuietSince
  <2>. QED
    BY <1>2, <1>3, <1>4, <1>5, <2>2
<1>9. AlertsAccounted'
  <2>1. \A e \in Events : InTexts(e)' = InTexts(e) /\ Waiting(e)' = Waiting(e)
    BY AlertNumbers DEF AlertTick
  <2>. QED
    BY <1>1, <1>4, <2>1 DEF AlertsAccounted, AlertTick, Tried
<1>. QED
  BY <1>6, <1>7, <1>8, <1>9 DEF AlertsInv

(* AlertsStepKeeps. Every step keeps the invariant and the windows.        *)
LEMMA AlertsStepKeeps ==
  AlertsInv /\ [AlertsNext]_alVars => AlertsInv' /\ OneMessagePerWindow
<1> SUFFICES ASSUME AlertsInv, [AlertsNext]_alVars
             PROVE  AlertsInv' /\ OneMessagePerWindow
  OBVIOUS
<1>1. alTexts' = alTexts => OneMessagePerWindow
  BY DEF OneMessagePerWindow, AlertsInv, PosterBusy
<1>2. ASSUME NEW e \in Events, OnEvent(e)  PROVE AlertsInv' /\ OneMessagePerWindow
  BY <1>1, <1>2, OnEventKeeps DEF OnEvent
<1>3. CASE TakeAlert
  BY <1>3, TakeAlertKeeps
<1>4. CASE Check
  BY <1>4, CheckKeeps
<1>5. CASE Post
  BY <1>5, PostKeeps
<1>6. CASE AlertTick
  BY <1>1, <1>6, AlertTickKeeps DEF AlertTick
<1>7. CASE UNCHANGED alVars
  <2>1. \A e \in Events : InTexts(e)' = InTexts(e) /\ Waiting(e)' = Waiting(e)
    BY <1>7, AlertNumbers DEF alVars
  <2>. QED
    BY <1>1, <1>7, <2>1
      DEF alVars, AlertsInv, AlertTyped, PosterBusy, QuietSince, AlertsAccounted, Tried
<1>. QED
  BY <1>2, <1>3, <1>4, <1>5, <1>6, <1>7 DEF AlertsNext

(* AlertsSound. Every tagged line is accounted for once, and the messages  *)
(* about an event are a window apart, for any number of events, any queue  *)
(* and any window (alerts.rs).                                             *)
THEOREM AlertsSound ==
  AlertsSpec => [](AlertsTypeOK /\ AlertsAccounted) /\ [][OneMessagePerWindow]_alVars
<1>1. AlertsSpec => []AlertsInv
  BY InitAlertsInv, AlertsStepKeeps, PTL DEF AlertsSpec
<1>2. AlertsInv => AlertsTypeOK /\ AlertsAccounted
  BY AlertTypeIs DEF AlertsInv
<1>3. AlertsInv /\ [AlertsNext]_alVars => [OneMessagePerWindow]_alVars
  BY AlertsStepKeeps
<1>. QED
  BY <1>1, <1>2, <1>3, PTL DEF AlertsSpec

-----------------------------------------------------------------------------
(* The events. The ids of the diagnostic events tell in which order they   *)
(* were produced: what was sent or failed comes before what the drain task *)
(* holds, and that before what is in the queue.                            *)

Drains == [at : {"select", "final", "closing", "done"}, event : {NoEvent}]
            \cup [at : {"wait", "send", "last"}, event : DiagnosticEvents]
Records == DiagnosticEvents \cup [id : Markers, key : EventKeys]
Partitions == 0 .. TopicPartitions - 1

(* The types, with the records folded.                                     *)
EmitterTyped ==
  /\ emConf \in KafkaConfs
  /\ emHandle \in BOOLEAN /\ emPermit \in BOOLEAN
  /\ emQueue \in Seq(DiagnosticEvents) /\ Len(emQueue) <= EventQueue
  /\ emDrain \in Drains
  /\ emDropped \in Nat
  /\ emFailed \subseteq 1 .. MaxEvents
  /\ emNext \in 1 .. MaxEvents + 1
  /\ emTopic \in [Partitions -> Seq(Records)]
  /\ emMarker \in [Markers -> {"unset", "sending", "set"}]
  /\ emSource \in {"run", "left", "stopped"}
  /\ emFlush \in {"no", "waits", "ended"}

(* Where the drain task is, and what that says of the broker, the queue    *)
(* and who still produces.                                                 *)
DrainIsWhere ==
  /\ ~Streaming => emDrain.at = "done" /\ emDropped = 0 /\ ~emHandle
  /\ emHandle => Connects(emConf)
  /\ emDrain.at \in {"send", "last"} => emHandle
  /\ emSource = "run" => /\ ~emPermit /\ emDrain.at \notin {"final", "last", "closing"}
                         /\ Streaming => emDrain.at # "done"
  /\ emDrain.at = "done" => emQueue = <<>>
  /\ emDrain.at = "closing" /\ emSource # "left" => emQueue = <<>>

(* Sent, or logged as failed.                                              *)
Handled == StoredIds \cup emFailed

(* The order of the ids.                                                   *)
IdsInOrder ==
  /\ \A i, j \in DOMAIN emQueue : i < j => emQueue[i].id < emQueue[j].id
  /\ \A i \in DOMAIN emQueue : emQueue[i].id < emNext /\ emDrain.event.id < emQueue[i].id
  /\ emDrain.event.id < emNext
  /\ \A n \in Handled : /\ n < emNext
                        /\ \A i \in DOMAIN emQueue : n < emQueue[i].id
                        /\ emDrain.event # NoEvent => n < emDrain.event.id

(* Records are where their key says, diagnostic ones in order.             *)
TopicInOrder ==
  \A p \in Partitions :
    /\ \A i \in DOMAIN emTopic[p] : emHandle /\ p = PartitionForKey(emTopic[p][i].key)
    /\ \A i, j \in DOMAIN emTopic[p] :
         i < j /\ {emTopic[p][i].id, emTopic[p][j].id} \cap Markers = {}
           => emTopic[p][i].id < emTopic[p][j].id

(* Diagnostic events that are nowhere.                                     *)
Lost ==
  {n \in 1 .. emNext - 1 :
     n \notin Handled /\ n # emDrain.event.id /\ \A i \in DOMAIN emQueue : n # emQueue[i].id}

LostAreCounted ==
  Streaming => /\ emDropped <= Cardinality(Lost)
               /\ emSource # "left" => emDropped = Cardinality(Lost)

EmitterInv ==
  /\ EmitterTyped /\ DrainIsWhere /\ IdsInOrder /\ TopicInOrder
  /\ LostAreCounted /\ MarkedWasStored

(* EmitterNumbers. What the constants are.                                 *)
LEMMA EmitterNumbers ==
  /\ TopicPartitions \in Nat \ {0} /\ EventQueue \in Nat \ {0} /\ MaxEvents \in Nat \ {0}
  /\ KeyHash \in [EventKeys -> Nat] /\ MarkerKey \in [Markers -> EventKeys]
  /\ \A d \in Markers : d \notin Nat
BY EventEmitterAssumption

(* DrainIs. What the drain task holds.                                     *)
LEMMA DrainIs ==
  ASSUME NEW d \in Drains
  PROVE  /\ d.at \in {"select", "final", "closing", "done"} => d.event = NoEvent
         /\ d.at \in {"wait", "send", "last"} => d.event \in DiagnosticEvents
         /\ d.at \in {"select", "final", "closing", "done", "wait", "send", "last"}
BY DEF Drains

(* EventIs. What an event has.                                             *)
LEMMA EventIs ==
  /\ \A x \in DiagnosticEvents :
       /\ x.id \in 1 .. MaxEvents /\ x.key \in EventKeys
       /\ x = [id |-> x.id, key |-> x.key]
       /\ x \in Records /\ x.id \notin Markers /\ x # NoEvent
  /\ NoEvent.id = 0
  /\ \A x \in Records : x.key \in EventKeys /\ (x.id \notin Markers => x \in DiagnosticEvents)
  /\ \A d \in Markers : \A k \in EventKeys : [id |-> d, key |-> k] \in Records
<1>1. ASSUME NEW x \in DiagnosticEvents
      PROVE  /\ x.id \in 1 .. MaxEvents /\ x.key \in EventKeys
             /\ x = [id |-> x.id, key |-> x.key]
             /\ x \in Records /\ x.id \notin Markers /\ x # NoEvent
  <2>1. x.id \in 1 .. MaxEvents /\ x.key \in EventKeys /\ x = [id |-> x.id, key |-> x.key]
    BY DEF DiagnosticEvents
  <2>2. x.id \in Nat /\ x.id # 0
    BY <2>1, EmitterNumbers
  <2>. QED
    BY <2>1, <2>2, EmitterNumbers DEF Records, NoEvent
<1>2. ASSUME NEW x \in Records
      PROVE  x.key \in EventKeys /\ (x.id \notin Markers => x \in DiagnosticEvents)
  <2>1. CASE x \in DiagnosticEvents
    BY <2>1 DEF DiagnosticEvents
  <2>2. CASE x \in [id : Markers, key : EventKeys]
    BY <2>2
  <2>. QED
    BY <2>1, <2>2 DEF Records
<1>3. \A d \in Markers : \A k \in EventKeys : [id |-> d, key |-> k] \in Records
  BY DEF Records
<1>4. NoEvent.id = 0
  BY DEF NoEvent
<1>. QED
  BY <1>1, <1>2, <1>3, <1>4

(* EmitterIds. The ids are numbers.                                        *)
LEMMA EmitterIds ==
  ASSUME EmitterTyped
  PROVE  /\ Len(emQueue) \in Nat /\ DOMAIN emQueue = 1 .. Len(emQueue)
         /\ \A i \in DOMAIN emQueue : emQueue[i] \in DiagnosticEvents /\ emQueue[i].id \in 1 .. MaxEvents
         /\ emDrain.event.id \in 0 .. MaxEvents
         /\ emDrain.event # NoEvent => emDrain.event \in DiagnosticEvents
         /\ emNext \in Nat \ {0} /\ Handled \subseteq 1 .. MaxEvents
<1>1. /\ Len(emQueue) \in Nat /\ DOMAIN emQueue = 1 .. Len(emQueue)
      /\ \A i \in DOMAIN emQueue : emQueue[i] \in DiagnosticEvents
  BY QueueElements DEF EmitterTyped
<1>2. emDrain.event = NoEvent \/ emDrain.event \in DiagnosticEvents
  BY DrainIs DEF EmitterTyped
<1>3. emDrain.event.id \in 0 .. MaxEvents
  BY <1>2, EventIs, EmitterNumbers
<1>4. emNext \in Nat \ {0} /\ Handled \subseteq 1 .. MaxEvents
  <2>1. emNext \in 1 .. MaxEvents + 1 /\ emFailed \subseteq 1 .. MaxEvents
    BY DEF EmitterTyped
  <2>2. StoredIds \subseteq 1 .. MaxEvents
    BY DEF StoredIds
  <2>3. emNext \in Nat \ {0}
    BY <2>1, EmitterNumbers
  <2>. QED
    BY <2>1, <2>2, <2>3 DEF Handled
<1>. QED
  BY <1>1, <1>2, <1>3, <1>4, EventIs

(* LostFinite. They can be counted.                                        *)
LEMMA LostFinite ==
  ASSUME EmitterTyped
  PROVE  IsFiniteSet(Lost) /\ Cardinality(Lost) \in Nat /\ Cardinality(Lost) <= emNext - 1
<1>1. emNext \in Nat \ {0}
  BY EmitterIds
<1>2. IsFiniteSet(1 .. emNext - 1) /\ Cardinality(1 .. emNext - 1) = emNext - 1
  BY <1>1, FS_Interval
<1>3. Lost \in SUBSET (1 .. emNext - 1)
  BY DEF Lost
<1>. QED
  BY <1>2, <1>3, FS_Subset, FS_CardinalityType

(* CalmKeeps. A step in which no event moves.                              *)
LEMMA CalmKeeps ==
  ASSUME EmitterInv, EmitterTyped', DrainIsWhere',
         UNCHANGED <<emConf, emQueue, emDropped, emFailed, emNext, emTopic>>,
         emDrain'.event = emDrain.event, emHandle => emHandle',
         emSource = "left" => emSource' = "left",
         \A d \in Markers : emMarker'[d] = "set" => emMarker[d] = "set"
  PROVE  EmitterInv'
<1>. USE DEF EmitterInv
<1>1. Handled' = Handled
  BY DEF Handled, StoredIds, Stored
<1>2. Lost' = Lost
  BY <1>1 DEF Lost
<1>3. IdsInOrder'
  BY <1>1 DEF IdsInOrder
<1>4. TopicInOrder'
  BY DEF TopicInOrder, PartitionForKey
<1>5. LostAreCounted'
  BY <1>2 DEF LostAreCounted, Streaming
<1>6. MarkedWasStored'
  BY DEF MarkedWasStored, Stored, Streaming
<1>. QED
  BY <1>3, <1>4, <1>5, <1>6

(* InitEmitterInv. No event was produced yet.                              *)
LEMMA InitEmitterInv == EmitterInit => EmitterInv
<1> SUFFICES ASSUME EmitterInit PROVE EmitterInv
  OBVIOUS
<1>1. emConf \in KafkaConfs
  <2>1. \A n \in 0 .. TopicPartitions + 1 : \A s \in {"none", "PLAIN", "unknown"} :
          \A l \in BOOLEAN : \A t \in {"off", "roots", "caFile", "noCaFile"} :
            [partitions |-> n, sasl |-> s, login |-> l, tls |-> t] \in KafkaConfs
    BY DEF KafkaConfs
  <2>2. {0, TopicPartitions, TopicPartitions + 1} \subseteq 0 .. TopicPartitions + 1
    BY EmitterNumbers
  <2>. QED
    BY <2>1, <2>2 DEF EmitterInit, Disabled
<1>2. emDrain = At(IF Streaming THEN "select" ELSE "done", NoEvent) /\ emDrain \in Drains
      /\ emDrain.event = NoEvent
  BY DEF EmitterInit, At, Drains
<1>3. EmitterTyped
  <2>1. /\ emTopic \in [Partitions -> Seq(Records)] /\ emNext \in 1 .. MaxEvents + 1
        /\ emMarker \in [Markers -> {"unset", "sending", "set"}]
    BY EmitterNumbers DEF EmitterInit, Partitions
  <2>2. emQueue \in Seq(DiagnosticEvents) /\ Len(emQueue) <= EventQueue
    BY EmitterNumbers DEF EmitterInit
  <2>. QED
    BY <1>1, <1>2, <2>1, <2>2 DEF EmitterInit, EmitterTyped
<1>4. DrainIsWhere
  BY <1>2 DEF EmitterInit, DrainIsWhere, At
<1>5. Handled = {}
  BY DEF EmitterInit, Handled, StoredIds, Stored, Range
<1>6. IdsInOrder
  BY <1>2, <1>5, EventIs DEF EmitterInit, IdsInOrder
<1>7. TopicInOrder
  BY DEF EmitterInit, TopicInOrder, Partitions
<1>8. LostAreCounted
  <2>1. Lost = {}
    BY DEF EmitterInit, Lost
  <2>. QED
    BY <2>1, FS_EmptySet DEF EmitterInit, LostAreCounted
<1>9. MarkedWasStored
  BY DEF EmitterInit, MarkedWasStored
<1>. QED
  BY <1>3, <1>4, <1>6, <1>7, <1>8, <1>9 DEF EmitterInv

(* EnqueueKeeps. An event is queued, or counted as dropped.                *)
LEMMA EnqueueKeeps ==
  ASSUME EmitterInv, NEW key \in EventKeys, Enqueue(key)
  PROVE  EmitterInv'
<1>1. EmitterTyped /\ DrainIsWhere /\ IdsInOrder /\ TopicInOrder /\ LostAreCounted /\ MarkedWasStored
  BY DEF EmitterInv
<1>2. /\ emNext' = emNext + 1 /\ emNext <= MaxEvents /\ emSource # "stopped"
      /\ UNCHANGED <<emConf, emHandle, emDrain, emPermit, emFailed, emTopic, emMarker,
                     emSource, emFlush>>
  BY DEF Enqueue
<1>3. /\ Len(emQueue) \in Nat /\ DOMAIN emQueue = 1 .. Len(emQueue)
      /\ \A i \in DOMAIN emQueue : emQueue[i] \in DiagnosticEvents /\ emQueue[i].id \in 1 .. MaxEvents
      /\ emDrain.event.id \in 0 .. MaxEvents
      /\ emNext \in Nat \ {0} /\ Handled \subseteq 1 .. MaxEvents
  BY <1>1, EmitterIds
<1>4. Handled' = Handled /\ (Streaming' <=> Streaming)
  BY <1>2 DEF Handled, StoredIds, Stored, Streaming
<1>5. TopicInOrder' /\ MarkedWasStored'
  BY <1>1, <1>2 DEF TopicInOrder, PartitionForKey, MarkedWasStored, Stored, Streaming
<1>6. emNext' \in 1 .. MaxEvents + 1
  BY <1>2, <1>3, EmitterNumbers
<1>7. CASE ~Streaming
  <2>1. UNCHANGED <<emQueue, emDropped>>
    BY <1>7 DEF Enqueue
  <2>2. EmitterTyped' /\ DrainIsWhere'
    BY <1>1, <1>2, <1>4, <1>6, <2>1 DEF EmitterTyped, DrainIsWhere
  <2>3. IdsInOrder'
    BY <1>1, <1>2, <1>3, <1>4, <2>1 DEF IdsInOrder
  <2>. QED
    BY <1>4, <1>5, <1>7, <2>2, <2>3 DEF EmitterInv, LostAreCounted
<1>8. CASE Streaming /\ Refuses
  <2>1. emQueue' = emQueue /\ emDropped' = emDropped + 1
    BY <1>8 DEF Enqueue
  <2>2. EmitterTyped' /\ DrainIsWhere'
    BY <1>1, <1>2, <1>4, <1>6, <1>8, <2>1 DEF EmitterTyped, DrainIsWhere
  <2>3. IdsInOrder'
    <3>1. \A m \in 0 .. MaxEvents : m < emNext => m < emNext'
      BY <1>2, <1>3, EmitterNumbers
    <3>2. \A m \in Handled : m < emNext'
      BY <1>1, <1>3, <3>1 DEF IdsInOrder
    <3>3. \A i \in DOMAIN emQueue : emQueue[i].id < emNext'
      BY <1>1, <1>3, <3>1 DEF IdsInOrder
    <3>4. emDrain.event.id < emNext'
      BY <1>1, <1>3, <3>1 DEF IdsInOrder
    <3>. QED
      BY <1>1, <1>2, <1>4, <2>1, <3>2, <3>3, <3>4 DEF IdsInOrder
  <2>4. Lost' = Lost \cup {emNext} /\ emNext \notin Lost
    BY <1>1, <1>2, <1>3, <1>4, <2>1 DEF Lost, IdsInOrder
  <2>5. Cardinality(Lost') = Cardinality(Lost) + 1 /\ Cardinality(Lost) \in Nat
    BY <1>1, <2>4, LostFinite, FS_AddElement
  <2>6. LostAreCounted'
    <3>1. emDropped \in Nat
      BY <1>1 DEF EmitterTyped
    <3>. QED
      BY <1>1, <1>2, <1>8, <2>1, <2>5, <3>1 DEF LostAreCounted
  <2>. QED
    BY <1>5, <2>2, <2>3, <2>6 DEF EmitterInv
<1>9. CASE Streaming /\ ~Refuses
  <2> DEFINE new == [id |-> emNext, key |-> key]
  <2>1. emQueue' = Append(emQueue, new) /\ emDropped' = emDropped
    BY <1>9 DEF Enqueue
  <2>2. new \in DiagnosticEvents /\ new.id = emNext
    BY <1>2, <1>3 DEF DiagnosticEvents
  <2>. HIDE DEF new
  <2>3. /\ emQueue' \in Seq(DiagnosticEvents) /\ Len(emQueue') = Len(emQueue) + 1
        /\ DOMAIN emQueue' = 1 .. Len(emQueue) + 1
        /\ \A i \in 1 .. Len(emQueue) : emQueue'[i] = emQueue[i]
        /\ emQueue'[Len(emQueue) + 1] = new
    BY <1>1, <2>1, <2>2, QueueLast DEF EmitterTyped
  <2>4. Len(emQueue) <= EventQueue /\ Len(emQueue) # EventQueue /\ emDrain.at # "done"
    BY <1>1, <1>9 DEF EmitterTyped, Refuses
  <2>5. Len(emQueue') <= EventQueue
    <3>1. Len(emQueue) \in Nat /\ EventQueue \in Nat /\ Len(emQueue') = Len(emQueue) + 1
      BY <1>3, <2>3, EmitterNumbers
    <3>. QED
      BY <2>4, <3>1
  <2>6. EmitterTyped'
    BY <1>1, <1>2, <1>6, <2>1, <2>3, <2>5 DEF EmitterTyped
  <2>7. DrainIsWhere'
    BY <1>1, <1>2, <1>4, <2>1, <2>4 DEF DrainIsWhere, EmitterTyped
  <2>8. IdsInOrder'
    <3>1. \A i, j \in DOMAIN emQueue' : i < j => emQueue'[i].id < emQueue'[j].id
      BY <1>1, <1>3, <2>2, <2>3 DEF IdsInOrder
    <3>2. \A i \in DOMAIN emQueue' : emQueue'[i].id < emNext' /\ emDrain'.event.id < emQueue'[i].id
      BY <1>1, <1>2, <1>3, <2>2, <2>3 DEF IdsInOrder
    <3>3. emDrain'.event.id < emNext'
      BY <1>1, <1>2, <1>3 DEF IdsInOrder
    <3>4. ASSUME NEW n \in Handled
          PROVE  /\ n < emNext' /\ \A i \in DOMAIN emQueue' : n < emQueue'[i].id
                 /\ emDrain'.event # NoEvent => n < emDrain'.event.id
      BY <1>1, <1>2, <1>3, <2>2, <2>3 DEF IdsInOrder
    <3>. QED
      BY <1>4, <3>1, <3>2, <3>3, <3>4 DEF IdsInOrder
  <2>9. Lost' = Lost
    <3>1. ASSUME NEW n
          PROVE  n \in Lost' <=> n \in Lost
      <4>1. n \in Lost' <=> /\ n \in 1 .. emNext' - 1 /\ n \notin Handled /\ n # emDrain.event.id
                            /\ \A i \in DOMAIN emQueue' : n # emQueue'[i].id
        BY <1>2, <1>4 DEF Lost
      <4>2. n \in Lost <=> /\ n \in 1 .. emNext - 1 /\ n \notin Handled /\ n # emDrain.event.id
                           /\ \A i \in DOMAIN emQueue : n # emQueue[i].id
        BY DEF Lost
      <4>. QED
        BY <1>2, <1>3, <2>2, <2>3, <4>1, <4>2
    <3>. QED
      BY <3>1
  <2>10. LostAreCounted'
    BY <1>1, <1>2, <1>4, <2>1, <2>9 DEF LostAreCounted
  <2>. QED
    BY <1>5, <2>6, <2>7, <2>8, <2>10 DEF EmitterInv
<1>. QED
  BY <1>7, <1>8, <1>9

(* FirstOut. The queue without its first event.                            *)
LEMMA FirstOut ==
  ASSUME EmitterTyped, emQueue # <<>>, emQueue' = Tail(emQueue)
  PROVE  /\ Len(emQueue) \in Nat \ {0} /\ DOMAIN emQueue = 1 .. Len(emQueue)
         /\ Head(emQueue) = emQueue[1] /\ Head(emQueue) \in DiagnosticEvents
         /\ emQueue' \in Seq(DiagnosticEvents) /\ Len(emQueue') <= EventQueue
         /\ DOMAIN emQueue' = 1 .. Len(emQueue) - 1
         /\ \A i \in 1 .. Len(emQueue) - 1 : emQueue'[i] = emQueue[i + 1]
<1>1. emQueue \in Seq(DiagnosticEvents) /\ Len(emQueue) <= EventQueue
  BY DEF EmitterTyped
<1>2. Len(emQueue) \in Nat /\ DOMAIN emQueue = 1 .. Len(emQueue) /\ Len(emQueue) # 0
  BY <1>1, QueueElements
<1>3. /\ Head(emQueue) = emQueue[1] /\ Head(emQueue) \in DiagnosticEvents
      /\ emQueue' \in Seq(DiagnosticEvents) /\ Len(emQueue') = Len(emQueue) - 1
      /\ DOMAIN emQueue' = 1 .. Len(emQueue) - 1
      /\ \A i \in 1 .. Len(emQueue) - 1 : emQueue'[i] = emQueue[i + 1]
  BY <1>1, QueueFirst
<1>. QED
  BY <1>1, <1>2, <1>3, EmitterNumbers

(* TakesHead. The drain task takes the first event of the queue.           *)
LEMMA TakesHead ==
  ASSUME EmitterInv, emQueue # <<>>, emDrain.event = NoEvent,
         emQueue' = Tail(emQueue),
         NEW where \in {"wait", "send", "last"}, emDrain' = At(where, Head(emQueue)),
         where \in {"send", "last"} => emHandle, where = "last" => emSource # "run",
         UNCHANGED <<emConf, emHandle, emPermit, emDropped, emFailed, emNext, emTopic,
                     emMarker, emSource, emFlush>>
  PROVE  EmitterInv'
<1>1. EmitterTyped /\ DrainIsWhere /\ IdsInOrder /\ TopicInOrder /\ LostAreCounted /\ MarkedWasStored
  BY DEF EmitterInv
<1>2. /\ Len(emQueue) \in Nat \ {0} /\ DOMAIN emQueue = 1 .. Len(emQueue)
      /\ Head(emQueue) = emQueue[1] /\ Head(emQueue) \in DiagnosticEvents
      /\ emQueue' \in Seq(DiagnosticEvents) /\ Len(emQueue') <= EventQueue
      /\ DOMAIN emQueue' = 1 .. Len(emQueue) - 1
      /\ \A i \in 1 .. Len(emQueue) - 1 : emQueue'[i] = emQueue[i + 1]
  BY <1>1, FirstOut
<1>3. /\ \A i \in DOMAIN emQueue : emQueue[i].id \in 1 .. MaxEvents
      /\ emNext \in Nat \ {0} /\ Handled \subseteq 1 .. MaxEvents
      /\ emDrain.event.id = 0 /\ MaxEvents \in Nat
  BY <1>1, EmitterIds, EventIs, EmitterNumbers
<1>4. Handled' = Handled /\ (Streaming' <=> Streaming)
  BY DEF Handled, StoredIds, Stored, Streaming
<1>5. TopicInOrder' /\ MarkedWasStored'
  BY <1>1 DEF TopicInOrder, PartitionForKey, MarkedWasStored, Stored, Streaming
<1>6. emDrain'.at = where /\ emDrain'.event = emQueue[1] /\ emDrain' \in Drains
  BY <1>2 DEF At, Drains
<1>7. EmitterTyped'
  BY <1>1, <1>2, <1>6 DEF EmitterTyped
<1>8. DrainIsWhere'
  <2>1. emDrain.at # "done" /\ Streaming
    BY <1>1 DEF DrainIsWhere
  <2>. QED
    BY <1>1, <1>4, <1>6, <2>1 DEF DrainIsWhere
<1>9. IdsInOrder'
  <2>1. \A i \in 1 .. Len(emQueue) - 1 : i + 1 \in DOMAIN emQueue
    BY <1>2
  <2>2. 1 \in DOMAIN emQueue
    BY <1>2
  <2>3. \A i, j \in DOMAIN emQueue' : i < j => emQueue'[i].id < emQueue'[j].id
    BY <1>1, <1>2, <2>1 DEF IdsInOrder
  <2>4. \A i \in DOMAIN emQueue' : emQueue'[i].id < emNext' /\ emDrain'.event.id < emQueue'[i].id
    BY <1>1, <1>2, <1>6, <2>1, <2>2 DEF IdsInOrder
  <2>5. emDrain'.event.id < emNext'
    BY <1>1, <1>6, <2>2 DEF IdsInOrder
  <2>6. ASSUME NEW n \in Handled
        PROVE  /\ n < emNext' /\ \A i \in DOMAIN emQueue' : n < emQueue'[i].id
               /\ n < emDrain'.event.id
    BY <1>1, <1>2, <1>6, <2>1, <2>2 DEF IdsInOrder
  <2>. QED
    BY <1>4, <2>3, <2>4, <2>5, <2>6 DEF IdsInOrder
<1>10. Lost' = Lost
  <2>1. ASSUME NEW n \in 1 .. emNext - 1
        PROVE  (n # emDrain'.event.id /\ \A i \in DOMAIN emQueue' : n # emQueue'[i].id)
                 <=> (n # emDrain.event.id /\ \A i \in DOMAIN emQueue : n # emQueue[i].id)
    <3>1. \A i \in DOMAIN emQueue : i = 1 \/ (i - 1 \in DOMAIN emQueue' /\ emQueue'[i - 1] = emQueue[i])
      BY <1>2
    <3>2. \A i \in DOMAIN emQueue' : i + 1 \in DOMAIN emQueue /\ emQueue'[i] = emQueue[i + 1]
      BY <1>2
    <3>3. 1 \in DOMAIN emQueue /\ n # emDrain.event.id
      BY <1>2, <1>3
    <3>. QED
      BY <1>6, <3>1, <3>2, <3>3
  <2>. QED
    BY <1>4, <2>1 DEF Lost
<1>11. LostAreCounted'
  BY <1>1, <1>4, <1>10 DEF LostAreCounted
<1>. QED
  BY <1>5, <1>7, <1>8, <1>9, <1>11 DEF EmitterInv

(* DropsHead. Without a broker, the last drain counts the first event.     *)
LEMMA DropsHead ==
  ASSUME EmitterInv, emQueue # <<>>, emDrain.at = "final",
         emQueue' = Tail(emQueue), emDropped' = emDropped + 1,
         UNCHANGED <<emConf, emHandle, emDrain, emPermit, emFailed, emNext, emTopic,
                     emMarker, emSource, emFlush>>
  PROVE  EmitterInv'
<1>1. EmitterTyped /\ DrainIsWhere /\ IdsInOrder /\ TopicInOrder /\ LostAreCounted /\ MarkedWasStored
  BY DEF EmitterInv
<1>2. /\ Len(emQueue) \in Nat \ {0} /\ DOMAIN emQueue = 1 .. Len(emQueue)
      /\ emQueue' \in Seq(DiagnosticEvents) /\ Len(emQueue') <= EventQueue
      /\ DOMAIN emQueue' = 1 .. Len(emQueue) - 1
      /\ \A i \in 1 .. Len(emQueue) - 1 : emQueue'[i] = emQueue[i + 1]
  BY <1>1, FirstOut
<1>3. /\ \A i \in DOMAIN emQueue : emQueue[i].id \in 1 .. MaxEvents
      /\ emNext \in Nat \ {0} /\ Handled \subseteq 1 .. MaxEvents
      /\ emDrain.event.id \in 0 .. MaxEvents /\ MaxEvents \in Nat
  BY <1>1, EmitterIds, EmitterNumbers
<1>4. Handled' = Handled /\ (Streaming' <=> Streaming) /\ Streaming
  BY <1>1 DEF Handled, StoredIds, Stored, Streaming, DrainIsWhere
<1>5. TopicInOrder' /\ MarkedWasStored'
  BY <1>1 DEF TopicInOrder, PartitionForKey, MarkedWasStored, Stored, Streaming
<1>6. EmitterTyped'
  BY <1>1, <1>2 DEF EmitterTyped
<1>7. DrainIsWhere'
  BY <1>1, <1>4 DEF DrainIsWhere
<1>8. 1 \in DOMAIN emQueue /\ \A i \in 1 .. Len(emQueue) - 1 : i + 1 \in DOMAIN emQueue
  BY <1>2
<1>9. IdsInOrder'
  <2>1. \A i, j \in DOMAIN emQueue' : i < j => emQueue'[i].id < emQueue'[j].id
    BY <1>1, <1>2, <1>8 DEF IdsInOrder
  <2>2. \A i \in DOMAIN emQueue' : emQueue'[i].id < emNext' /\ emDrain'.event.id < emQueue'[i].id
    BY <1>1, <1>2, <1>8 DEF IdsInOrder
  <2>3. \A n \in Handled : \A i \in DOMAIN emQueue' : n < emQueue'[i].id
    BY <1>1, <1>2, <1>8 DEF IdsInOrder
  <2>. QED
    BY <1>1, <1>4, <2>1, <2>2, <2>3 DEF IdsInOrder
<1>10. Lost' = Lost \cup {emQueue[1].id} /\ emQueue[1].id \notin Lost
  <2>1. emQueue[1].id \notin Lost
    BY <1>8 DEF Lost
  <2>2. /\ emQueue[1].id \in 1 .. emNext - 1 /\ emQueue[1].id \notin Handled
        /\ emQueue[1].id # emDrain.event.id
    BY <1>1, <1>3, <1>8 DEF IdsInOrder
  <2>3. \A i \in DOMAIN emQueue' : emQueue[1].id # emQueue'[i].id
    BY <1>1, <1>2, <1>3, <1>8 DEF IdsInOrder
  <2>4. \A i \in DOMAIN emQueue : i = 1 \/ (i - 1 \in DOMAIN emQueue' /\ emQueue'[i - 1] = emQueue[i])
    BY <1>2
  <2>5. \A i \in DOMAIN emQueue' : i + 1 \in DOMAIN emQueue /\ emQueue'[i] = emQueue[i + 1]
    BY <1>2
  <2>6. ASSUME NEW n  PROVE n \in Lost' <=> n \in Lost \cup {emQueue[1].id}
    <3>1. n \in Lost' <=> /\ n \in 1 .. emNext - 1 /\ n \notin Handled /\ n # emDrain.event.id
                          /\ \A i \in DOMAIN emQueue' : n # emQueue'[i].id
      BY <1>4 DEF Lost
    <3>2. n \in Lost <=> /\ n \in 1 .. emNext - 1 /\ n \notin Handled /\ n # emDrain.event.id
                         /\ \A i \in DOMAIN emQueue : n # emQueue[i].id
      BY DEF Lost
    <3>. QED
      BY <1>8, <2>2, <2>3, <2>4, <2>5, <3>1, <3>2
  <2>. QED
    BY <2>1, <2>6
<1>11. Cardinality(Lost') = Cardinality(Lost) + 1 /\ Cardinality(Lost) \in Nat
  BY <1>1, <1>10, LostFinite, FS_AddElement
<1>12. LostAreCounted'
  <2>1. emDropped \in Nat
    BY <1>1 DEF EmitterTyped
  <2>. QED
    BY <1>1, <1>4, <1>11, <2>1 DEF LostAreCounted
<1>. QED
  BY <1>5, <1>6, <1>7, <1>9, <1>12 DEF EmitterInv

(* AllQueued. As many ids are queued as events.                            *)
LEMMA AllQueued ==
  ASSUME EmitterTyped, IdsInOrder
  PROVE  LET ids == {emQueue[i].id : i \in DOMAIN emQueue}
         IN  IsFiniteSet(ids) /\ Cardinality(ids) = Len(emQueue)
<1>1. Len(emQueue) \in Nat /\ DOMAIN emQueue = 1 .. Len(emQueue)
  BY EmitterIds
<1>2. \A i \in DOMAIN emQueue : emQueue[i].id \in Nat
  BY EmitterIds, EmitterNumbers
<1>3. \A i, j \in DOMAIN emQueue : emQueue[i].id = emQueue[j].id => i = j
  <2>1. SUFFICES ASSUME NEW i \in DOMAIN emQueue, NEW j \in DOMAIN emQueue, i # j
                 PROVE  emQueue[i].id # emQueue[j].id
    OBVIOUS
  <2>2. i < j \/ j < i
    BY <1>1, <2>1
  <2>. QED
    BY <1>2, <2>2 DEF IdsInOrder
<1>4. IsFiniteSet(1 .. Len(emQueue)) /\ Cardinality(1 .. Len(emQueue)) = Len(emQueue)
  <2>1. PICK n \in Nat : n = Len(emQueue)
    BY <1>1
  <2>2. IsFiniteSet(1 .. n) /\ Cardinality(1 .. n) = n
    BY FS_Interval
  <2>. QED
    BY <2>1, <2>2
<1> DEFINE ids == {emQueue[i].id : i \in DOMAIN emQueue}
           f == [i \in DOMAIN emQueue |-> emQueue[i].id]
<1>5. f \in Bijection(1 .. Len(emQueue), ids)
  BY <1>1, <1>3 DEF Bijection, Injection, Surjection, IsInjective
<1>6. ExistsBijection(1 .. Len(emQueue), ids)
  BY <1>5 DEF ExistsBijection
<1>. HIDE DEF ids
<1>7. IsFiniteSet(ids) /\ Cardinality(ids) = Len(emQueue)
  BY <1>4, <1>6, FS_Bijection
<1>. QED
  BY <1>7 DEF ids

(* GiveUpKeeps. At shutdown without a broker, the event held and those     *)
(* queued are counted.                                                     *)
LEMMA GiveUpKeeps ==
  ASSUME EmitterInv, GiveUpEvent
  PROVE  EmitterInv'
<1>1. EmitterTyped /\ DrainIsWhere /\ IdsInOrder /\ TopicInOrder /\ LostAreCounted /\ MarkedWasStored
  BY DEF EmitterInv
<1>2. /\ emDrain.at = "wait" /\ emPermit /\ ~emPermit'
      /\ emDropped' = emDropped + (1 + Len(emQueue)) /\ emQueue' = <<>>
      /\ emDrain' = At("closing", NoEvent)
      /\ UNCHANGED <<emConf, emHandle, emFailed, emNext, emTopic, emMarker, emSource, emFlush>>
  BY DEF GiveUpEvent, DroppedOnShutdown
<1>3. /\ Len(emQueue) \in Nat /\ DOMAIN emQueue = 1 .. Len(emQueue)
      /\ \A i \in DOMAIN emQueue : emQueue[i].id \in 1 .. MaxEvents
      /\ emNext \in Nat \ {0} /\ Handled \subseteq 1 .. MaxEvents /\ MaxEvents \in Nat
      /\ emDropped \in Nat
  BY <1>1, EmitterIds, EmitterNumbers DEF EmitterTyped
<1>4. emDrain.event \in DiagnosticEvents /\ emDrain.event # NoEvent
      /\ emDrain.event.id \in 1 .. MaxEvents
  BY <1>1, <1>2, DrainIs, EventIs DEF EmitterTyped
<1>5. Handled' = Handled /\ (Streaming' <=> Streaming) /\ Streaming
  BY <1>1, <1>2 DEF Handled, StoredIds, Stored, Streaming, DrainIsWhere
<1>6. emDrain'.at = "closing" /\ emDrain'.event = NoEvent /\ emDrain' \in Drains
      /\ emDrain'.event.id = 0
  BY <1>2, EventIs DEF At, Drains
<1>7. TopicInOrder' /\ MarkedWasStored'
  BY <1>1, <1>2 DEF TopicInOrder, PartitionForKey, MarkedWasStored, Stored, Streaming
<1>8. EmitterTyped'
  <2>1. emQueue' \in Seq(DiagnosticEvents) /\ Len(emQueue') <= EventQueue
    BY <1>2, EmitterNumbers
  <2>2. emDropped' \in Nat
    BY <1>2, <1>3
  <2>3. emPermit' \in BOOLEAN
    BY DEF GiveUpEvent
  <2>. QED
    BY <1>1, <1>2, <1>6, <2>1, <2>2, <2>3 DEF EmitterTyped
<1>9. DrainIsWhere'
  BY <1>1, <1>2, <1>5, <1>6 DEF DrainIsWhere
<1>10. IdsInOrder'
  <2>1. DOMAIN emQueue' = {}
    BY <1>2
  <2>2. \A n \in Handled : n < emNext'
    BY <1>1, <1>2 DEF IdsInOrder
  <2>3. emNext' = emNext /\ 0 < emNext
    BY <1>2, <1>3
  <2>. QED
    BY <1>5, <1>6, <2>1, <2>2, <2>3 DEF IdsInOrder
<1> DEFINE ids == {emQueue[i].id : i \in DOMAIN emQueue}
           taken == {emDrain.event.id}
<1>11. Lost' = (Lost \cup taken) \cup ids
  <2>1. DOMAIN emQueue' = {}
    BY <1>2
  <2>2. /\ emDrain.event.id \in 1 .. emNext - 1 /\ emDrain.event.id \notin Handled
        /\ \A i \in DOMAIN emQueue : emQueue[i].id \in 1 .. emNext - 1 /\ emQueue[i].id \notin Handled
    BY <1>1, <1>3, <1>4 DEF IdsInOrder
  <2>3. ASSUME NEW n  PROVE n \in Lost' <=> n \in (Lost \cup taken) \cup ids
    <3>1. n \in Lost' <=> n \in 1 .. emNext - 1 /\ n \notin Handled
      BY <1>2, <1>5, <1>6, <2>1 DEF Lost
    <3>2. n \in Lost <=> /\ n \in 1 .. emNext - 1 /\ n \notin Handled /\ n # emDrain.event.id
                         /\ \A i \in DOMAIN emQueue : n # emQueue[i].id
      BY DEF Lost
    <3>. QED
      BY <2>2, <3>1, <3>2
  <2>. QED
    BY <2>3
<1>12. emDrain.event.id \notin Lost /\ (Lost \cup taken) \cap ids = {}
  <2>1. \A i \in DOMAIN emQueue : emQueue[i].id # emDrain.event.id
    BY <1>1, <1>3, <1>4 DEF IdsInOrder
  <2>. QED
    BY <2>1 DEF Lost
<1>13. IsFiniteSet(Lost) /\ Cardinality(Lost) \in Nat /\ IsFiniteSet(ids) /\ Cardinality(ids) = Len(emQueue)
  BY <1>1, LostFinite, AllQueued
<1>14. IsFiniteSet(Lost \cup taken) /\ Cardinality(Lost \cup taken) = Cardinality(Lost) + 1
  BY <1>12, <1>13, FS_AddElement
<1>15. Cardinality(Lost') = Cardinality(Lost) + (1 + Len(emQueue))
  <2>. HIDE DEF ids, taken
  <2>1. Cardinality(Lost') = Cardinality(Lost \cup taken) + Cardinality(ids) - Cardinality({})
    BY <1>11, <1>12, <1>13, <1>14, FS_Union
  <2>. QED
    BY <1>3, <1>13, <1>14, <2>1, FS_EmptySet
<1>16. LostAreCounted'
  <2>1. /\ emDropped <= Cardinality(Lost) /\ emSource' = emSource
        /\ emSource # "left" => emDropped = Cardinality(Lost)
    BY <1>1, <1>2, <1>5 DEF LostAreCounted
  <2>. QED
    BY <1>2, <1>3, <1>13, <1>15, <2>1 DEF LostAreCounted
<1>. QED
  BY <1>7, <1>8, <1>9, <1>10, <1>16 DEF EmitterInv

(* CloseQueueKeeps. Only what a service that was left adds is lost.        *)
LEMMA CloseQueueKeeps ==
  ASSUME EmitterInv, CloseQueue
  PROVE  EmitterInv'
<1>1. EmitterTyped /\ DrainIsWhere /\ IdsInOrder /\ TopicInOrder /\ LostAreCounted /\ MarkedWasStored
  BY DEF EmitterInv
<1>2. /\ emDrain.at = "closing" /\ emQueue' = <<>> /\ emDrain' = At("done", NoEvent)
      /\ UNCHANGED <<emConf, emHandle, emPermit, emDropped, emFailed, emNext, emTopic,
                     emMarker, emSource, emFlush>>
  BY DEF CloseQueue
<1>3. emDrain.event = NoEvent /\ emDrain'.event = NoEvent /\ emDrain'.at = "done"
      /\ emDrain' \in Drains /\ NoEvent.id = 0
  BY <1>1, <1>2, DrainIs, EventIs DEF EmitterTyped, At, Drains
<1>4. Handled' = Handled /\ (Streaming' <=> Streaming) /\ Streaming /\ emSource # "run"
  BY <1>1, <1>2 DEF Handled, StoredIds, Stored, Streaming, DrainIsWhere
<1>5. TopicInOrder' /\ MarkedWasStored'
  BY <1>1, <1>2 DEF TopicInOrder, PartitionForKey, MarkedWasStored, Stored, Streaming
<1>6. DOMAIN emQueue' = {} /\ emQueue' \in Seq(DiagnosticEvents) /\ Len(emQueue') <= EventQueue
  BY <1>2, EmitterNumbers
<1>7. EmitterTyped'
  BY <1>1, <1>2, <1>3, <1>6 DEF EmitterTyped
<1>8. DrainIsWhere'
  BY <1>1, <1>2, <1>3, <1>4 DEF DrainIsWhere
<1>9. IdsInOrder'
  BY <1>1, <1>2, <1>3, <1>4, <1>6 DEF IdsInOrder
<1>10. Lost \subseteq Lost' /\ (emQueue = <<>> => Lost' = Lost)
  BY <1>2, <1>3, <1>4, <1>6 DEF Lost
<1>11. LostAreCounted'
  <2>1. /\ IsFiniteSet(Lost') /\ Cardinality(Lost') \in Nat
        /\ IsFiniteSet(Lost) /\ Cardinality(Lost) \in Nat
    <3>1. emNext \in Nat /\ emNext' = emNext /\ IsFiniteSet(1 .. emNext - 1)
      BY <1>1, <1>2, EmitterIds, FS_Interval
    <3>2. Lost' \in SUBSET (1 .. emNext - 1)
      BY <3>1 DEF Lost
    <3>. QED
      BY <1>1, <3>1, <3>2, LostFinite, FS_Subset, FS_CardinalityType
  <2>2. Cardinality(Lost) <= Cardinality(Lost')
    BY <1>10, <2>1, FS_Subset
  <2>3. emSource # "left" => emQueue = <<>>
    BY <1>1, <1>2 DEF DrainIsWhere
  <2>4. emDropped \in Nat
    BY <1>1 DEF EmitterTyped
  <2>. QED
    BY <1>1, <1>2, <1>4, <1>10, <2>1, <2>2, <2>3, <2>4 DEF LostAreCounted
<1>. QED
  BY <1>5, <1>7, <1>8, <1>9, <1>11 DEF EmitterInv

(* PartitionIs. A key has a partition of the topic.                        *)
LEMMA PartitionIs ==
  ASSUME emConf \in KafkaConfs, Connects(emConf), NEW key \in EventKeys
  PROVE  PartitionForKey(key) \in Partitions
<1>1. emConf.partitions \in Nat \ {0} /\ emConf.partitions <= TopicPartitions
  BY EmitterNumbers DEF KafkaConfs, Connects
<1>2. KeyHash[key] \in Nat
  BY EmitterNumbers
<1>3. KeyHash[key] % emConf.partitions \in 0 .. emConf.partitions - 1
  BY <1>1, <1>2
<1>. QED
  BY <1>1, <1>3, EmitterNumbers DEF PartitionForKey, Partitions

(* StoredHasId. A diagnostic event on the topic is among the stored ids.   *)
LEMMA StoredHasId ==
  ASSUME EmitterTyped, NEW p \in Partitions, NEW i \in DOMAIN emTopic[p],
         emTopic[p][i].id \notin Markers
  PROVE  emTopic[p][i].id \in StoredIds
<1> DEFINE x == emTopic[p][i]
<1>1. emTopic[p] \in Seq(Records) /\ DOMAIN emTopic = Partitions
  BY DEF EmitterTyped
<1>2. x \in Records
  BY <1>1, QueueElements
<1>3. x \in DiagnosticEvents /\ x.id \in 1 .. MaxEvents /\ x.key \in EventKeys
      /\ x = [id |-> x.id, key |-> x.key]
  BY <1>2, EventIs
<1>4. Stored(x)
  BY <1>1 DEF Stored, Range
<1>. QED
  BY <1>3, <1>4 DEF StoredIds

(* SentIs. What a send leaves on the topic.                                *)
LEMMA SentIs ==
  ASSUME EmitterTyped, TopicInOrder, Connects(emConf), emHandle, emHandle', emConf' = emConf,
         NEW x \in Records, NEW outcome \in SendOutcomes, Sent(x, outcome),
         x.id \notin Markers => \A n \in StoredIds : n < x.id
  PROVE  /\ emTopic' \in [Partitions -> Seq(Records)] /\ TopicInOrder'
         /\ \A y : Stored(y)' <=> Stored(y) \/ (outcome.stored /\ y = x)
<1> DEFINE P == PartitionForKey(x.key)
<1>1. x.key \in EventKeys /\ P \in Partitions /\ emTopic \in [Partitions -> Seq(Records)]
  BY EventIs, PartitionIs DEF EmitterTyped
<1>2. \A key : PartitionForKey(key)' = PartitionForKey(key)
  BY DEF PartitionForKey
<1>3. CASE ~(outcome.stored /\ x \notin Range(emTopic[P]))
  <2>1. emTopic' = emTopic
    BY <1>3 DEF Sent
  <2>2. outcome.stored => Stored(x)
    BY <1>1, <1>3 DEF Stored
  <2>3. TopicInOrder'
    BY <1>2, <2>1 DEF TopicInOrder
  <2>4. \A y : Stored(y)' <=> Stored(y)
    BY <2>1 DEF Stored
  <2>. QED
    BY <1>1, <2>1, <2>2, <2>3, <2>4
<1>4. CASE outcome.stored /\ x \notin Range(emTopic[P])
  <2>1. emTopic' = [emTopic EXCEPT ![P] = Append(emTopic[P], x)]
    BY <1>4 DEF Sent
  <2>. HIDE DEF P
  <2> DEFINE s == emTopic[P]
  <2>2. s \in Seq(Records)
    BY <1>1
  <2>3. Len(s) \in Nat /\ DOMAIN s = 1 .. Len(s)
    BY <2>2, QueueElements
  <2>4. /\ Append(s, x) \in Seq(Records) /\ DOMAIN Append(s, x) = 1 .. Len(s) + 1
        /\ \A k \in 1 .. Len(s) : Append(s, x)[k] = s[k]
        /\ Append(s, x)[Len(s) + 1] = x
    BY <2>2, QueueLast
  <2>5. /\ emTopic' \in [Partitions -> Seq(Records)] /\ emTopic'[P] = Append(s, x)
        /\ \A p \in Partitions \ {P} : emTopic'[p] = emTopic[p]
    BY <1>1, <2>1, <2>4
  <2>6. TopicInOrder'
    <3>1. SUFFICES ASSUME NEW p \in Partitions
                   PROVE  /\ \A i \in DOMAIN emTopic'[p] :
                               emHandle' /\ p = PartitionForKey(emTopic'[p][i].key)
                          /\ \A i, j \in DOMAIN emTopic'[p] :
                               i < j /\ {emTopic'[p][i].id, emTopic'[p][j].id} \cap Markers = {}
                                 => emTopic'[p][i].id < emTopic'[p][j].id
      BY <1>2 DEF TopicInOrder
    <3>2. CASE p # P
      BY <2>5, <3>2 DEF TopicInOrder
    <3>3. CASE p = P
      <4>1. \A i \in DOMAIN s : P = PartitionForKey(s[i].key)
        BY <1>1 DEF TopicInOrder
      <4>2. \A i \in 1 .. Len(s) + 1 : P = PartitionForKey(Append(s, x)[i].key)
        BY <2>3, <2>4, <4>1 DEF P
      <4>3. ASSUME NEW i \in 1 .. Len(s) + 1, NEW j \in 1 .. Len(s) + 1, i < j,
                   {Append(s, x)[i].id, Append(s, x)[j].id} \cap Markers = {}
            PROVE  Append(s, x)[i].id < Append(s, x)[j].id
        <5>1. i \in 1 .. Len(s) /\ Append(s, x)[i] = s[i]
          BY <2>3, <2>4, <4>3
        <5>2. CASE j = Len(s) + 1
          <6>1. Append(s, x)[j] = x /\ x.id \notin Markers /\ s[i].id \notin Markers
            BY <2>4, <4>3, <5>1, <5>2
          <6>2. s[i].id \in StoredIds
            BY <1>1, <2>3, <5>1, <6>1, StoredHasId
          <6>. QED
            BY <5>1, <6>1, <6>2
        <5>3. CASE j # Len(s) + 1
          <6>1. j \in 1 .. Len(s) /\ Append(s, x)[j] = s[j]
            BY <2>3, <2>4, <5>3
          <6>. QED
            BY <1>1, <2>3, <4>3, <5>1, <6>1 DEF TopicInOrder
        <5>. QED
          BY <5>2, <5>3
      <4>. QED
        BY <2>4, <2>5, <3>3, <4>2, <4>3
    <3>. QED
      BY <3>2, <3>3
  <2>7. ASSUME NEW y  PROVE Stored(y)' <=> Stored(y) \/ y = x
    <3>1. y \in Range(Append(s, x)) <=> y \in Range(s) \/ y = x
      <4>1. Range(Append(s, x)) = {Append(s, x)[k] : k \in 1 .. Len(s) + 1}
        BY <2>4 DEF Range
      <4>2. Range(s) = {s[k] : k \in 1 .. Len(s)}
        BY <2>3 DEF Range
      <4>3. \A k \in 1 .. Len(s) + 1 : k = Len(s) + 1 \/ k \in 1 .. Len(s)
        BY <2>3
      <4>4. \A k \in 1 .. Len(s) : k \in 1 .. Len(s) + 1
        BY <2>3
      <4>5. Len(s) + 1 \in 1 .. Len(s) + 1
        BY <2>3
      <4>. QED
        BY <2>4, <4>1, <4>2, <4>3, <4>4, <4>5
    <3>2. DOMAIN emTopic = Partitions /\ DOMAIN emTopic' = Partitions
      BY <1>1, <2>5
    <3>3. Stored(y)' <=> \E p \in Partitions : y \in Range(emTopic'[p])
      BY <3>2 DEF Stored, Range
    <3>4. Stored(y) <=> \E p \in Partitions : y \in Range(emTopic[p])
      BY <3>2 DEF Stored
    <3>. HIDE DEF s
    <3>5. CASE y = x
      BY <1>1, <2>5, <3>1, <3>3, <3>5 DEF P
    <3>6. CASE y # x
      <4>1. \A p \in Partitions : y \in Range(emTopic'[p]) <=> y \in Range(emTopic[p])
        BY <2>5, <3>1, <3>6 DEF s
      <4>. QED
        BY <3>3, <3>4, <3>6, <4>1
    <3>. QED
      BY <3>5, <3>6
  <2>. QED
    BY <1>4, <2>5, <2>6, <2>7
<1>. QED
  BY <1>3, <1>4

(* SendEventKeeps. The event held is on the topic or logged as failed.     *)
LEMMA SendEventKeeps ==
  ASSUME EmitterInv, SendEvent
  PROVE  EmitterInv'
<1> DEFINE x == emDrain.event
<1>1. EmitterTyped /\ DrainIsWhere /\ IdsInOrder /\ TopicInOrder /\ LostAreCounted /\ MarkedWasStored
  BY DEF EmitterInv
<1>2. /\ emDrain.at \in {"send", "last"}
      /\ emDrain' = At(IF emDrain.at = "send" THEN "select" ELSE "final", NoEvent)
      /\ UNCHANGED <<emConf, emHandle, emQueue, emPermit, emDropped, emNext, emMarker,
                     emSource, emFlush>>
  BY DEF SendEvent
<1>3. PICK outcome \in SendOutcomes :
        /\ Sent(x, outcome)
        /\ emFailed' = IF outcome.ok THEN emFailed ELSE emFailed \cup {x.id}
  BY DEF SendEvent
<1>4. ~outcome.stored => ~outcome.ok
  BY DEF SendOutcomes
<1>5. x \in DiagnosticEvents /\ x # NoEvent /\ x.id \in 1 .. MaxEvents /\ x.id \notin Markers
      /\ x \in Records /\ x.key \in EventKeys /\ x = [id |-> x.id, key |-> x.key]
  BY <1>1, <1>2, DrainIs, EventIs DEF EmitterTyped
<1>6. emHandle /\ emHandle' /\ Connects(emConf) /\ emConf' = emConf /\ Streaming
  BY <1>1, <1>2 DEF DrainIsWhere
<1>7. \A n \in Handled : n < x.id
  BY <1>1, <1>5 DEF IdsInOrder
<1>8. /\ emTopic' \in [Partitions -> Seq(Records)] /\ TopicInOrder'
      /\ \A y : Stored(y)' <=> Stored(y) \/ (outcome.stored /\ y = x)
  <2>1. \A n \in StoredIds : n < x.id
    BY <1>7 DEF Handled
  <2>. HIDE DEF x
  <2>. QED
    BY <1>1, <1>3, <1>5, <1>6, <2>1, SentIs
<1>. HIDE DEF x
<1>9. Handled' = Handled \cup {x.id}
  <2>1. ASSUME NEW n \in 1 .. MaxEvents
        PROVE  n \in StoredIds' <=> n \in StoredIds \/ (outcome.stored /\ n = x.id)
    <3>1. n \in StoredIds' <=> \E key \in EventKeys : Stored([id |-> n, key |-> key])'
      BY DEF StoredIds
    <3>2. n \in StoredIds <=> \E key \in EventKeys : Stored([id |-> n, key |-> key])
      BY DEF StoredIds
    <3>3. \A key \in EventKeys : [id |-> n, key |-> key] = x => n = x.id
      OBVIOUS
    <3>4. n = x.id => [id |-> n, key |-> x.key] = x
      BY <1>5
    <3>5. ASSUME NEW key \in EventKeys
          PROVE  Stored([id |-> n, key |-> key])' <=>
                   Stored([id |-> n, key |-> key]) \/ (outcome.stored /\ [id |-> n, key |-> key] = x)
      BY <1>8 DEF Stored
    <3>. QED
      BY <1>5, <3>1, <3>2, <3>3, <3>4, <3>5
  <2>2. StoredIds \subseteq 1 .. MaxEvents /\ StoredIds' \subseteq 1 .. MaxEvents
    BY DEF StoredIds
  <2>3. StoredIds' = IF outcome.stored THEN StoredIds \cup {x.id} ELSE StoredIds
    BY <1>5, <2>1, <2>2
  <2>. QED
    BY <1>3, <1>4, <2>3 DEF Handled
<1>10. /\ emDrain'.event = NoEvent /\ emDrain'.event.id = 0 /\ emDrain' \in Drains
       /\ emDrain'.at = IF emDrain.at = "send" THEN "select" ELSE "final"
  BY <1>2, EventIs DEF At, Drains
<1>11. EmitterTyped'
  <2>1. emFailed' \subseteq 1 .. MaxEvents
    BY <1>1, <1>3, <1>5 DEF EmitterTyped
  <2>. QED
    BY <1>1, <1>2, <1>8, <1>10, <2>1 DEF EmitterTyped
<1>12. DrainIsWhere'
  BY <1>1, <1>2, <1>6, <1>10 DEF DrainIsWhere, Streaming
<1>13. IdsInOrder'
  <2>1. /\ x.id < emNext /\ \A i \in DOMAIN emQueue : x.id < emQueue[i].id
    BY <1>1 DEF IdsInOrder, x
  <2>2. /\ \A i \in DOMAIN emQueue : emQueue[i].id \in 1 .. MaxEvents
        /\ emNext \in Nat \ {0} /\ MaxEvents \in Nat
    BY <1>1, EmitterIds, EmitterNumbers
  <2>3. \A i \in DOMAIN emQueue : 0 < emQueue[i].id
    BY <2>2
  <2>4. 0 < emNext
    BY <2>2
  <2>. QED
    BY <1>1, <1>2, <1>9, <1>10, <2>1, <2>3, <2>4 DEF IdsInOrder
<1>14. Lost' = Lost
  <2>1. ASSUME NEW n \in 1 .. emNext - 1
        PROVE  (n \notin Handled' /\ n # emDrain'.event.id) <=> (n \notin Handled /\ n # emDrain.event.id)
    <3>1. n # 0
      BY <1>1, EmitterIds
    <3>. QED
      BY <1>9, <1>10, <3>1 DEF x
  <2>. QED
    BY <1>2, <2>1 DEF Lost
<1>15. LostAreCounted'
  BY <1>1, <1>2, <1>14 DEF LostAreCounted, Streaming
<1>16. MarkedWasStored'
  <2>1. \A y : Stored(y) => Stored(y)'
    BY <1>8
  <2>. QED
    BY <1>1, <1>2, <2>1 DEF MarkedWasStored, Streaming
<1>. QED
  BY <1>8, <1>11, <1>12, <1>13, <1>15, <1>16 DEF EmitterInv

(* EndEmitKeeps. A durable event is marked only when it is on the topic.   *)
LEMMA EndEmitKeeps ==
  ASSUME EmitterInv, NEW d \in Markers, EndEmit(d)
  PROVE  EmitterInv'
<1> DEFINE x == [id |-> d, key |-> MarkerKey[d]]
<1>1. EmitterTyped /\ DrainIsWhere /\ IdsInOrder /\ TopicInOrder /\ LostAreCounted /\ MarkedWasStored
  BY DEF EmitterInv
<1>2. UNCHANGED <<emConf, emHandle, emQueue, emDrain, emPermit, emDropped, emFailed, emNext,
                  emSource, emFlush>>
  BY DEF EndEmit
<1>3. PICK outcome \in SendOutcomes : SendDurable(d, outcome)
  BY DEF EndEmit
<1>4. DrainIsWhere' /\ (Streaming' <=> Streaming)
  BY <1>1, <1>2 DEF DrainIsWhere, Streaming
<1>5. CASE ~Streaming \/ ~emHandle
  <2>1. emTopic' = emTopic /\ emMarker' = [emMarker EXCEPT ![d] = IF Streaming THEN "unset" ELSE "set"]
    BY <1>3, <1>5 DEF SendDurable
  <2>2. EmitterTyped'
    BY <1>1, <1>2, <2>1 DEF EmitterTyped
  <2>3. Handled' = Handled
    BY <1>2, <2>1 DEF Handled, StoredIds, Stored
  <2>4. IdsInOrder'
    BY <1>1, <1>2, <2>3 DEF IdsInOrder
  <2>5. Lost' = Lost
    BY <1>2, <2>3 DEF Lost
  <2>6. LostAreCounted'
    BY <1>1, <1>2, <1>4, <2>5 DEF LostAreCounted
  <2>7. TopicInOrder'
    BY <1>1, <1>2, <2>1 DEF TopicInOrder, PartitionForKey
  <2>8. MarkedWasStored'
    <3>1. \A y : Stored(y)' <=> Stored(y)
      BY <2>1 DEF Stored
    <3>. QED
      BY <1>1, <1>4, <2>1, <3>1 DEF MarkedWasStored, EmitterTyped
  <2>. QED
    BY <1>4, <2>2, <2>4, <2>6, <2>7, <2>8 DEF EmitterInv
<1>6. CASE Streaming /\ emHandle
  <2>1. Sent(x, outcome) /\ emMarker' = [emMarker EXCEPT ![d] = IF outcome.ok THEN "set" ELSE "unset"]
    BY <1>3, <1>6 DEF SendDurable
  <2>2. x \in Records /\ x.id = d /\ d \notin Nat
    BY EventIs, EmitterNumbers
  <2>3. Connects(emConf) /\ emHandle' /\ emConf' = emConf
    BY <1>1, <1>2, <1>6 DEF DrainIsWhere
  <2>4. outcome.ok => outcome.stored
    BY DEF SendOutcomes
  <2>. HIDE DEF x
  <2>5. /\ emTopic' \in [Partitions -> Seq(Records)] /\ TopicInOrder'
        /\ \A y : Stored(y)' <=> Stored(y) \/ (outcome.stored /\ y = x)
    BY <1>1, <1>6, <2>1, <2>2, <2>3, SentIs
  <2>6. EmitterTyped'
    BY <1>1, <1>2, <2>1, <2>5 DEF EmitterTyped
  <2>7. Handled' = Handled
    <3>1. ASSUME NEW n \in 1 .. MaxEvents  PROVE n \in StoredIds' <=> n \in StoredIds
      <4>1. n \in Nat
        BY EmitterNumbers
      <4>2. \A key : [id |-> n, key |-> key] # x
        BY <2>2, <4>1
      <4>3. n \in StoredIds' <=> \E key \in EventKeys : Stored([id |-> n, key |-> key])'
        BY DEF StoredIds
      <4>4. n \in StoredIds <=> \E key \in EventKeys : Stored([id |-> n, key |-> key])
        BY DEF StoredIds
      <4>5. ASSUME NEW key \in EventKeys
            PROVE  Stored([id |-> n, key |-> key])' <=> Stored([id |-> n, key |-> key])
        <5>1. Stored([id |-> n, key |-> key])' <=>
                Stored([id |-> n, key |-> key]) \/ (outcome.stored /\ [id |-> n, key |-> key] = x)
          BY <2>5 DEF Stored
        <5>. QED
          BY <4>2, <5>1
      <4>. QED
        BY <4>3, <4>4, <4>5
    <3>2. StoredIds' = StoredIds
      BY <3>1 DEF StoredIds
    <3>. QED
      BY <1>2, <3>2 DEF Handled
  <2>8. IdsInOrder'
    BY <1>1, <1>2, <2>7 DEF IdsInOrder
  <2>9. Lost' = Lost
    BY <1>2, <2>7 DEF Lost
  <2>10. LostAreCounted'
    BY <1>1, <1>2, <1>4, <2>9 DEF LostAreCounted
  <2>11. MarkedWasStored'
    <3>1. SUFFICES ASSUME NEW c \in Markers, emMarker'[c] = "set"
                   PROVE  Stored([id |-> c, key |-> MarkerKey[c]])'
      BY DEF MarkedWasStored
    <3>2. CASE c = d
      <4>1. outcome.ok
        BY <1>1, <2>1, <3>1, <3>2 DEF EmitterTyped
      <4>. QED
        BY <2>4, <2>5, <3>2, <4>1 DEF x
    <3>3. CASE c # d
      <4>1. emMarker[c] = "set"
        BY <1>1, <2>1, <3>1, <3>3 DEF EmitterTyped
      <4>2. Stored([id |-> c, key |-> MarkerKey[c]])
        BY <1>1, <1>6, <4>1 DEF MarkedWasStored
      <4>. QED
        BY <2>5, <4>2
    <3>. QED
      BY <3>2, <3>3
  <2>. QED
    BY <1>4, <2>5, <2>6, <2>8, <2>10, <2>11 DEF EmitterInv
<1>. QED
  BY <1>5, <1>6

(* DrainStepKeeps. What the drain task does.                               *)
LEMMA DrainStepKeeps ==
  ASSUME EmitterInv, DrainStep
  PROVE  EmitterInv'
<1>1. EmitterTyped /\ DrainIsWhere
  BY DEF EmitterInv
<1>2. CASE TakeEvent
  <2> DEFINE where == IF emHandle THEN "send" ELSE "wait"
  <2>1. /\ emDrain.at = "select" /\ emQueue # <<>> /\ emQueue' = Tail(emQueue)
        /\ emDrain' = At(where, Head(emQueue))
        /\ UNCHANGED <<emConf, emHandle, emPermit, emDropped, emFailed, emNext, emTopic,
                       emMarker, emSource, emFlush>>
    BY <1>2 DEF TakeEvent
  <2>2. emDrain.event = NoEvent
    BY <1>1, <2>1, DrainIs DEF EmitterTyped
  <2>3. where \in {"wait", "send", "last"} /\ where # "last" /\ (where = "send" => emHandle)
    OBVIOUS
  <2>. HIDE DEF where
  <2>. QED
    BY <2>1, <2>2, <2>3, TakesHead
<1>3. CASE HasProducer
  <2>1. /\ emDrain.at = "wait" /\ emHandle /\ emDrain' = [emDrain EXCEPT !.at = "send"]
        /\ UNCHANGED <<emConf, emHandle, emQueue, emPermit, emDropped, emFailed, emNext, emTopic,
                       emMarker, emSource, emFlush>>
    BY <1>3 DEF HasProducer
  <2>2. /\ emDrain' \in Drains /\ emDrain'.event = emDrain.event /\ emDrain'.at = "send"
    BY <1>1, <2>1 DEF EmitterTyped, Drains
  <2>3. EmitterTyped'
    BY <1>1, <2>1, <2>2 DEF EmitterTyped
  <2>4. DrainIsWhere'
    BY <1>1, <2>1, <2>2 DEF DrainIsWhere, Streaming
  <2>. QED
    BY <2>1, <2>2, <2>3, <2>4, CalmKeeps
<1>4. CASE GiveUpEvent
  BY <1>4, GiveUpKeeps
<1>5. CASE SendEvent
  BY <1>5, SendEventKeeps
<1>6. CASE SeesShutdown
  <2>1. /\ emDrain.at = "select" /\ emPermit /\ emPermit' = FALSE
        /\ emDrain' = At("final", NoEvent)
        /\ UNCHANGED <<emConf, emHandle, emQueue, emDropped, emFailed, emNext, emTopic,
                       emMarker, emSource, emFlush>>
    BY <1>6 DEF SeesShutdown
  <2>2. /\ emDrain' \in Drains /\ emDrain'.event = emDrain.event /\ emDrain'.at = "final"
    BY <1>1, <2>1, DrainIs DEF EmitterTyped, Drains, At
  <2>3. EmitterTyped'
    BY <1>1, <2>1, <2>2 DEF EmitterTyped
  <2>4. DrainIsWhere'
    BY <1>1, <2>1, <2>2 DEF DrainIsWhere, Streaming
  <2>. QED
    BY <2>1, <2>2, <2>3, <2>4, CalmKeeps
<1>7. CASE DrainOne
  <2>1. /\ emDrain.at = "final" /\ emDrain.event = NoEvent /\ emSource # "run"
        /\ UNCHANGED <<emConf, emHandle, emPermit, emFailed, emNext, emTopic, emMarker, emSource,
                       emFlush>>
    BY <1>1, <1>7, DrainIs DEF DrainOne, EmitterTyped, DrainIsWhere
  <2>2. CASE emQueue = <<>> /\ emDrain' = At("closing", NoEvent) /\ UNCHANGED <<emQueue, emDropped>>
    <3>1. /\ emDrain' \in Drains /\ emDrain'.event = emDrain.event /\ emDrain'.at = "closing"
      BY <2>1, <2>2 DEF Drains, At
    <3>2. EmitterTyped'
      BY <1>1, <2>1, <2>2, <3>1 DEF EmitterTyped
    <3>3. DrainIsWhere'
      BY <1>1, <2>1, <2>2, <3>1 DEF DrainIsWhere, Streaming
    <3>. QED
      BY <2>1, <2>2, <3>1, <3>2, <3>3, CalmKeeps
  <2>3. CASE /\ emQueue # <<>> /\ emHandle /\ emDrain' = At("last", Head(emQueue))
             /\ emQueue' = Tail(emQueue) /\ UNCHANGED emDropped
    BY <2>1, <2>3, TakesHead
  <2>4. CASE /\ emQueue # <<>> /\ emDropped' = emDropped + 1 /\ emQueue' = Tail(emQueue)
             /\ UNCHANGED emDrain
    BY <2>1, <2>4, DropsHead
  <2>. QED
    BY <1>7, <2>2, <2>3, <2>4 DEF DrainOne
<1>8. CASE CloseQueue
  BY <1>8, CloseQueueKeeps
<1>. QED
  BY <1>2, <1>3, <1>4, <1>5, <1>6, <1>7, <1>8 DEF DrainStep

(* EmitterStepKeeps. Every step keeps the invariant.                       *)
LEMMA EmitterStepKeeps == EmitterInv /\ [EmitterNext]_emVars => EmitterInv'
<1> SUFFICES ASSUME EmitterInv, [EmitterNext]_emVars
             PROVE  EmitterInv'
  OBVIOUS
<1>1. EmitterTyped /\ DrainIsWhere
  BY DEF EmitterInv
<1>2. CASE Connect
  <2>1. EmitterTyped' /\ emHandle'
    BY <1>1, <1>2 DEF EmitterTyped, Connect
  <2>2. DrainIsWhere'
    BY <1>1, <1>2, <2>1 DEF DrainIsWhere, Connect, Streaming
  <2>. QED
    BY <1>2, <2>1, <2>2, CalmKeeps DEF Connect
<1>3. ASSUME NEW key \in EventKeys, Enqueue(key)  PROVE EmitterInv'
  BY <1>3, EnqueueKeeps
<1>4. CASE DrainStep
  BY <1>4, DrainStepKeeps
<1>5. ASSUME NEW d \in Markers, StartEmit(d)  PROVE EmitterInv'
  <2>1. emMarker' = [emMarker EXCEPT ![d] = "sending"]
        /\ UNCHANGED <<emConf, emHandle, emQueue, emDrain, emPermit, emDropped, emFailed, emNext,
                       emTopic, emSource, emFlush>>
    BY <1>5 DEF StartEmit
  <2>2. EmitterTyped' /\ \A c \in Markers : emMarker'[c] = "set" => emMarker[c] = "set"
    BY <1>1, <2>1 DEF EmitterTyped
  <2>3. DrainIsWhere'
    BY <1>1, <2>1 DEF DrainIsWhere, Streaming
  <2>. QED
    BY <2>1, <2>2, <2>3, CalmKeeps
<1>6. ASSUME NEW d \in Markers, EndEmit(d)  PROVE EmitterInv'
  BY <1>6, EndEmitKeeps
<1>7. CASE StopSources
  <2>1. /\ emSource = "run" /\ emSource' \in {"left", "stopped"}
        /\ UNCHANGED <<emConf, emHandle, emQueue, emDrain, emPermit, emDropped, emFailed, emNext,
                       emTopic, emMarker, emFlush>>
    BY <1>7 DEF StopSources
  <2>2. EmitterTyped'
    BY <1>1, <2>1 DEF EmitterTyped
  <2>3. DrainIsWhere'
    BY <1>1, <2>1 DEF DrainIsWhere, Streaming
  <2>. QED
    BY <2>1, <2>2, <2>3, CalmKeeps
<1>8. CASE Flush
  <2>1. /\ emSource # "run" /\ emPermit' \in BOOLEAN /\ emFlush' \in {"waits", "ended"}
        /\ UNCHANGED <<emConf, emHandle, emQueue, emDrain, emDropped, emFailed, emNext, emTopic,
                       emMarker, emSource>>
    BY <1>1, <1>8 DEF Flush, NotifyShutdown, EmitterTyped
  <2>2. EmitterTyped'
    BY <1>1, <2>1 DEF EmitterTyped
  <2>3. DrainIsWhere'
    BY <1>1, <2>1 DEF DrainIsWhere, Streaming
  <2>. QED
    BY <2>1, <2>2, <2>3, CalmKeeps
<1>9. CASE FlushEnds
  <2>1. /\ emFlush' = "ended"
        /\ UNCHANGED <<emConf, emHandle, emQueue, emDrain, emPermit, emDropped, emFailed, emNext,
                       emTopic, emMarker, emSource>>
    BY <1>9 DEF FlushEnds
  <2>2. EmitterTyped'
    BY <1>1, <2>1 DEF EmitterTyped
  <2>3. DrainIsWhere'
    BY <1>1, <2>1 DEF DrainIsWhere, Streaming
  <2>. QED
    BY <2>1, <2>2, <2>3, CalmKeeps
<1>10. CASE UNCHANGED emVars
  <2>1. UNCHANGED <<emConf, emHandle, emQueue, emDrain, emPermit, emDropped, emFailed, emNext,
                    emTopic, emMarker, emSource, emFlush>>
    BY <1>10 DEF emVars
  <2>2. EmitterTyped'
    BY <1>1, <2>1 DEF EmitterTyped
  <2>3. DrainIsWhere'
    BY <1>1, <2>1 DEF DrainIsWhere, Streaming
  <2>. QED
    BY <2>1, <2>2, <2>3, CalmKeeps
<1>. QED
  BY <1>2, <1>3, <1>4, <1>5, <1>6, <1>7, <1>8, <1>9, <1>10 DEF EmitterNext

(* EmitterHolds. What the invariant says of the events.                    *)
LEMMA EmitterHolds ==
  ASSUME EmitterInv
  PROVE  EmitterTypeOK /\ EventsCounted /\ KeyOrder /\ MarkedWasStored
<1>1. EmitterTyped /\ DrainIsWhere /\ IdsInOrder /\ TopicInOrder /\ LostAreCounted /\ MarkedWasStored
  BY DEF EmitterInv
<1>2. EmitterTypeOK
  <2>1. emDropped \in 0 .. MaxEvents
    <3>1. emDropped \in Nat /\ emNext \in 1 .. MaxEvents + 1
      BY <1>1 DEF EmitterTyped
    <3>2. CASE Streaming
      <4>1. emDropped <= Cardinality(Lost) /\ Cardinality(Lost) \in Nat /\ Cardinality(Lost) <= emNext - 1
        BY <1>1, <3>2, LostFinite DEF LostAreCounted
      <4>. QED
        BY <3>1, <4>1, EmitterNumbers
    <3>3. CASE ~Streaming
      BY <1>1, <3>3, EmitterNumbers DEF DrainIsWhere
    <3>. QED
      BY <3>2, <3>3
  <2>. QED
    BY <1>1, <2>1 DEF EmitterTyped, EmitterTypeOK, Drains, Records, Partitions
<1>3. EventsCounted
  <2> DEFINE gone == (1 .. emNext - 1) \ (StoredIds \cup emFailed
                       \cup {e.id : e \in Range(emQueue)} \cup {emDrain.event.id})
  <2>1. ASSUME NEW n
        PROVE  n \in {e.id : e \in Range(emQueue)} <=> \E i \in DOMAIN emQueue : n = emQueue[i].id
    BY DEF Range
  <2>2. gone = Lost
    BY <2>1 DEF Lost, Handled
  <2>. QED
    BY <1>1, <2>2 DEF EventsCounted, LostAreCounted, DrainIsWhere
<1>4. KeyOrder
  <2>1. SUFFICES ASSUME NEW p \in DOMAIN emTopic, NEW q \in DOMAIN emTopic,
                        NEW i \in DOMAIN emTopic[p], NEW j \in DOMAIN emTopic[q],
                        emTopic[p][i].key = emTopic[q][j].key,
                        {emTopic[p][i].id, emTopic[q][j].id} \cap Markers = {}
                 PROVE  p = q /\ (i < j => emTopic[p][i].id < emTopic[q][j].id)
    BY DEF KeyOrder
  <2>2. p \in Partitions /\ q \in Partitions
    BY <1>1 DEF EmitterTyped
  <2>3. p = PartitionForKey(emTopic[p][i].key) /\ q = PartitionForKey(emTopic[q][j].key)
    BY <1>1, <2>2 DEF TopicInOrder
  <2>4. p = q
    BY <2>1, <2>3
  <2>. QED
    BY <1>1, <2>1, <2>2, <2>4 DEF TopicInOrder
<1>. QED
  BY <1>1, <1>2, <1>3, <1>4

(* EmitterSound. Every diagnostic event is somewhere or counted, those of  *)
(* a key are in one partition and in order, and a durable event that is    *)
(* marked is stored, for any number of events and keys, any queue and any  *)
(* topic, whenever the broker comes and the shutdown is heard              *)
(* (subgraph_indexing_agreements_events_emitter.rs).                       *)
THEOREM EmitterSound ==
  EmitterSpec => [](EmitterTypeOK /\ EventsCounted /\ KeyOrder /\ MarkedWasStored)
<1>1. EmitterSpec => []EmitterInv
  BY InitEmitterInv, EmitterStepKeeps, PTL DEF EmitterSpec
<1>2. EmitterInv => EmitterTypeOK /\ EventsCounted /\ KeyOrder /\ MarkedWasStored
  BY EmitterHolds
<1>. QED
  BY <1>1, <1>2, PTL

-----------------------------------------------------------------------------
(* The parts among the services.                                           *)

(* NetworkAlone. A step of the network's parts is a step of its part, and  *)
(* moves none of the others.                                               *)
LEMMA NetworkAlone ==
  ASSUME \/ LivenessPart(LivenessNext) \/ DipsPart(DipsNext)
         \/ SelectionPart(SelectionNext) \/ CachesPart(CachesNext)
  PROVE  /\ UNCHANGED <<alVars, emVars, prVars, jsVars, wkVars>>
         /\ UNCHANGED <<cfVars, ocVars, orVars>>
         /\ [LivenessNext]_liveVars /\ [DipsNext]_dipsVars
         /\ [SelectionNext]_selVars /\ [CachesNext]_ncVars
<1>1. UNCHANGED processVars /\ UNCHANGED settingVars
  BY DEF LivenessPart, DipsPart, SelectionPart, CachesPart, Network
<1>2. /\ UNCHANGED <<alVars, emVars, prVars, jsVars, wkVars>>
      /\ UNCHANGED <<cfVars, ocVars, orVars>>
  BY <1>1 DEF processVars, settingVars
<1>3. CASE LivenessPart(LivenessNext)
  BY <1>2, <1>3 DEF LivenessPart, Network
<1>4. CASE DipsPart(DipsNext)
  BY <1>2, <1>4 DEF DipsPart, Network
<1>5. CASE SelectionPart(SelectionNext)
  BY <1>2, <1>5 DEF SelectionPart, Network
<1>6. CASE CachesPart(CachesNext)
  BY <1>2, <1>6 DEF CachesPart, Network
<1>. QED
  BY <1>3, <1>4, <1>5, <1>6

(* SettingsAlone. So is one of the settings'.                              *)
LEMMA SettingsAlone ==
  ASSUME \/ ConfigurationPart(ConfigurationNext) \/ CallsPart(CallsNext)
         \/ RetriesPart(RetriesNext)
  PROVE  /\ UNCHANGED <<alVars, emVars, prVars, jsVars, wkVars>>
         /\ UNCHANGED <<liveVars, dipsVars, selVars, ncVars>>
         /\ [ConfigurationNext]_cfVars /\ [CallsNext]_ocVars /\ [RetriesNext]_orVars
<1>1. UNCHANGED processVars /\ UNCHANGED networkVars
  BY DEF ConfigurationPart, CallsPart, RetriesPart, Setting
<1>2. UNCHANGED <<alVars, emVars, prVars, jsVars, wkVars>>
  BY <1>1 DEF processVars
<1>3. UNCHANGED <<liveVars, dipsVars, selVars, ncVars>>
  BY <1>1 DEF networkVars
<1>4. [ConfigurationNext]_cfVars /\ [CallsNext]_ocVars /\ [RetriesNext]_orVars
  BY DEF ConfigurationPart, CallsPart, RetriesPart, Setting
<1>. QED
  BY <1>2, <1>3, <1>4

(* RunningApart. A step of the process or of a task in it moves nothing of *)
(* the network or of the settings.                                         *)
LEMMA RunningApart ==
  ASSUME \/ AlertsPart(AlertsNext) \/ EmitterPart(EmitterNext)
         \/ ProcessPart(ProcessNext) \/ SignalPart(SignalNext) \/ LoopsPart(LoopsNext)
  PROVE  /\ UNCHANGED <<liveVars, dipsVars, selVars, ncVars>>
         /\ UNCHANGED <<cfVars, ocVars, orVars>>
<1>1. UNCHANGED networkVars /\ UNCHANGED settingVars
  BY DEF AlertsPart, EmitterPart, ProcessPart, SignalPart, LoopsPart, Running
<1>. QED
  BY <1>1 DEF networkVars, settingVars

(* EachAlone. A step of the whole is, for the alerts, for the events, for  *)
(* the process, for a subscription, for the loops and for each part of the *)
(* network and of the settings, a step of their own or none.               *)
LEMMA EachAlone ==
  [ServicesNext]_allVars =>
    /\ [AlertsNext]_alVars /\ [EmitterNext]_emVars
    /\ [ProcessNext]_prVars /\ [SignalNext]_jsVars /\ [LoopsNext]_wkVars
    /\ [LivenessNext]_liveVars /\ [DipsNext]_dipsVars
    /\ [SelectionNext]_selVars /\ [CachesNext]_ncVars
    /\ [ConfigurationNext]_cfVars /\ [CallsNext]_ocVars /\ [RetriesNext]_orVars
<1>. SUFFICES ASSUME [ServicesNext]_allVars
              PROVE  /\ [AlertsNext]_alVars /\ [EmitterNext]_emVars
                     /\ [ProcessNext]_prVars /\ [SignalNext]_jsVars /\ [LoopsNext]_wkVars
                     /\ [LivenessNext]_liveVars /\ [DipsNext]_dipsVars
                     /\ [SelectionNext]_selVars /\ [CachesNext]_ncVars
                     /\ [ConfigurationNext]_cfVars /\ [CallsNext]_ocVars
                     /\ [RetriesNext]_orVars
  OBVIOUS
<1>1. CASE UNCHANGED allVars
  <2>1. UNCHANGED processVars /\ UNCHANGED networkVars /\ UNCHANGED settingVars
    BY <1>1 DEF allVars
  <2>2. UNCHANGED <<alVars, emVars, prVars, jsVars, wkVars>>
    BY <2>1 DEF processVars
  <2>3. UNCHANGED <<liveVars, dipsVars, selVars, ncVars>>
    BY <2>1 DEF networkVars
  <2>4. UNCHANGED <<cfVars, ocVars, orVars>>
    BY <2>1 DEF settingVars
  <2>. QED
    BY <2>2, <2>3, <2>4
<1>2. CASE AlertsPart(AlertsNext) \/ EmitterPart(EmitterNext)
  BY <1>2, RunningApart DEF AlertsPart, EmitterPart, Running
<1>3. CASE ProcessPart(ProcessNext)
  BY <1>3, RunningApart DEF ProcessPart, Running
<1>4. CASE SignalPart(SignalNext)
  BY <1>4, RunningApart DEF SignalPart, Running
<1>5. CASE LoopsPart(LoopsNext)
  BY <1>5, RunningApart DEF LoopsPart, Running
<1>6. CASE \/ LivenessPart(LivenessNext) \/ DipsPart(DipsNext)
           \/ SelectionPart(SelectionNext) \/ CachesPart(CachesNext)
  BY <1>6, NetworkAlone
<1>7. CASE \/ ConfigurationPart(ConfigurationNext) \/ CallsPart(CallsNext)
           \/ RetriesPart(RetriesNext)
  BY <1>7, SettingsAlone
<1>. QED
  BY <1>1, <1>2, <1>3, <1>4, <1>5, <1>6, <1>7 DEF ServicesNext

(* ServicesExit. Whatever hangs, dies or asks for shutdown in the          *)
(* behaviours explored side by side, with any services in any stop order   *)
(* and any grace, the process ends as it should.                           *)
THEOREM ServicesExit == ServicesSpec => []ExitsSafely
<1>1. ServicesInit => ProcessInit
  BY DEF ServicesInit
<1>2. ServicesSpec => ProcessSpec
  BY <1>1, EachAlone, PTL DEF ServicesSpec, ProcessSpec
<1>. QED
  BY <1>2, ProcessExits, PTL DEF ExitsSafely

(* ServicesWorker. The worker keeps its promises among the services: for   *)
(* any number of loops, any pool the start accepts and any back-off.       *)
THEOREM ServicesWorker == ServicesSpec => []WorkerSound
<1>1. ServicesInit => SignalInit /\ LoopsInit
  BY DEF ServicesInit
<1>2. ServicesSpec => SignalSpec /\ LoopsSpec
  BY <1>1, EachAlone, PTL DEF ServicesSpec, SignalSpec, LoopsSpec
<1>. QED
  BY <1>2, SignalSound, LoopsSound, PTL DEF WorkerSound

(* ServicesAccounted. No alert and no event is lost uncounted and no key's *)
(* events change places, whatever the queues, the windows and the topic    *)
(* are, and wherever the shutdown finds the two tasks.                     *)
THEOREM ServicesAccounted == ServicesSpec => AllAccounted
<1>1. ServicesInit => AlertsInit /\ EmitterInit
  BY DEF ServicesInit
<1>2. ServicesSpec => AlertsSpec /\ EmitterSpec
  BY <1>1, EachAlone, PTL DEF ServicesSpec, AlertsSpec, EmitterSpec
<1>3. ServicesSpec => []AlertsInv
  BY <1>2, InitAlertsInv, AlertsStepKeeps, PTL DEF AlertsSpec
<1>4. AlertsInv /\ [ServicesNext]_allVars => OneMessagePerWindow
  BY EachAlone, AlertsStepKeeps
<1>. QED
  BY <1>2, <1>3, <1>4, AlertsSound, EmitterSound, PTL DEF ServicesSpec, AllAccounted

(* ServicesOffers. Who is offered an agreement, and where to reach them:   *)
(* for any candidates, prices, windows, pages and entities, every decline  *)
(* keeps an indexer out for its own window, an offer pays what was asked,  *)
(* a shortfall is announced once, and an indexer readable all through a    *)
(* refresh is found.                                                       *)
THEOREM ServicesOffers == ServicesSpec => []OffersRight
<1>1. ServicesInit => SelectionInit /\ CachesInit
  BY DEF ServicesInit
<1>2. ServicesSpec => SelectionSpec /\ CachesSpec
  BY <1>1, EachAlone, PTL DEF ServicesSpec, SelectionSpec, CachesSpec
<1>. QED
  BY <1>2, SelectionSound, CachesSound, PTL DEF OffersRight

(* ServicesSettings. Whatever settings are written, however the calls of a *)
(* job fail and whatever an offer's window is, the settings add up.        *)
THEOREM ServicesSettings == ServicesSpec => []SettingsAddUp
<1>1. ServicesInit => ConfigurationInit /\ CallsInit /\ RetriesInit
  BY DEF ServicesInit
<1>2. ServicesSpec => ConfigurationSpec /\ CallsSpec /\ RetriesSpec
  BY <1>1, EachAlone, PTL DEF ServicesSpec, ConfigurationSpec, CallsSpec, RetriesSpec
<1>. QED
  BY <1>2, ConfigurationSound, CallsSound, RetriesSound, PTL DEF SettingsAddUp

(* ServicesJudged. No indexer that serves pays for an outage on dipper's   *)
(* side, and one that is gone or does not answer is dealt with in time.    *)
THEOREM ServicesJudged == ServicesSpec => JudgedFairly
<1>1. ServicesInit => LivenessInit /\ DipsInit
  BY DEF ServicesInit
<1>2. ServicesSpec => LivenessSpec /\ DipsSpec
  BY <1>1, EachAlone, PTL DEF ServicesSpec, LivenessSpec, DipsSpec
<1>3. ServicesSpec => [](LivenessInv /\ DipsInv)
  <2>1. LivenessSpec => []LivenessInv
    BY InitLivenessInv, LivenessStepKeeps, PTL DEF LivenessSpec
  <2>2. DipsSpec => []DipsInv
    BY InitDipsInv, DipsStepKeeps, PTL DEF DipsSpec
  <2>. QED BY <1>2, <2>1, <2>2, PTL
<1>4. LivenessInv /\ DipsInv /\ [ServicesNext]_allVars
        => OutageSparesServing /\ BlockOutlasts /\ OutageBlocksNobody
  BY EachAlone, LivenessStepKeeps, DipsStepKeeps
<1>5. ServicesSpec => []( /\ LivenessTypeOK /\ GoneIsAbandoned
                          /\ DipsTypeOK /\ CountsWhatPassed /\ AlertBeforeBlock)
  BY <1>2, LivenessSound, DipsSound, PTL
<1>. QED
  BY <1>3, <1>4, <1>5, PTL DEF ServicesSpec, JudgedFairly
=============================================================================
