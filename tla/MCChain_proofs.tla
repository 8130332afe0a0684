--------------------------- MODULE MCChain_proofs ----------------------------
(***************************************************************************)
(* Proofs about the parts of dipper that face the chain and have no proof  *)
(* module of their own: the listener's poll loop and the chain time, the   *)
(* RPC provider pool, the newest block seen, the EIP-712 domain and the    *)
(* escrow reconciler. What is proved of a part, here or in its own module, *)
(* is carried over to the specification that explores the parts side by    *)
(* side: a step of another part leaves this part's variables alone.        *)
(***************************************************************************)
EXTENDS MCChain, TxSender_proofs, ChainCursor_proofs, SequenceTheorems

-----------------------------------------------------------------------------
(* Numbers and sums.                                                       *)

(* SmallestIn. A set of numbers that is not empty has a smallest one.      *)
LEMMA SmallestIn ==
  ASSUME NEW S \in SUBSET Nat, S # {}
  PROVE  \E m \in S : \A x \in S : m <= x
<1>. DEFINE R == OpToRel(<, Nat)
<1>1. IsWellFoundedOn(R, Nat)
  BY NatLessThanWellFounded
<1>2. PICK m \in S : \A x \in S : ~(<<x, m>> \in R)
  <2>. HIDE DEF R
  <2>. QED BY <1>1, WFMin
<1>3. \A x \in S : ~(x < m)
  BY <1>2 DEF OpToRel
<1>. QED BY <1>3

(* LargestIn. A set of numbers below a bound that is not empty has a       *)
(* largest one, and Max is that.                                           *)
LEMMA LargestIn ==
  ASSUME NEW n \in Nat, NEW S \in SUBSET (0 .. n), S # {}
  PROVE  Max(S) \in S /\ \A x \in S : x <= Max(S)
<1>. DEFINE T == {n - x : x \in S}
<1>1. T \in SUBSET Nat /\ T # {}
  <2>1. PICK s \in S : TRUE
    OBVIOUS
  <2>2. n - s \in T
    OBVIOUS
  <2>3. \A x \in S : n - x \in Nat
    OBVIOUS
  <2>. QED BY <2>2, <2>3
<1>2. PICK t \in T : \A y \in T : t <= y
  <2>. HIDE DEF T
  <2>. QED BY <1>1, SmallestIn
<1>3. PICK m \in S : t = n - m
  BY <1>2
<1>4. \A x \in S : n - m <= n - x
  BY <1>2, <1>3
<1>5. \A x \in S : m >= x
  BY <1>4
<1>6. Max(S) \in S /\ \A x \in S : Max(S) >= x
  BY <1>5 DEF Max
<1>. QED BY <1>6

(* FiniteBounded. A finite set of numbers has a bound.                     *)
LEMMA FiniteBounded ==
  ASSUME NEW S \in SUBSET Nat, IsFiniteSet(S)
  PROVE  \E far \in Nat : S \in SUBSET (0 .. far)
<1>1. PICK n \in Nat : ExistsSurjection(1 .. n, S)
  BY FS_NatSurjection
<1>2. PICK f \in Surjection(1 .. n, S) : TRUE
  BY <1>1 DEF ExistsSurjection
<1>3. f \in [1 .. n -> S] /\ \A x \in S : \E i \in 1 .. n : f[i] = x
  BY <1>2 DEF Surjection
<1>. DEFINE Bad == {k \in 0 .. n : \A far \in Nat : \E i \in 1 .. k : f[i] > far}
<1>4. ASSUME Bad # {} PROVE FALSE
  <2>1. PICK k \in Bad : \A x \in Bad : k <= x
    <3>1. Bad \in SUBSET Nat
      OBVIOUS
    <3>. QED BY <1>4, <3>1, SmallestIn
  <2>2. k # 0
    <3>1. CASE k = 0
      <4>1. \E i \in 1 .. 0 : f[i] > 0
        BY <2>1, <3>1
      <4>. QED BY <4>1
    <3>. QED BY <3>1
  <2>3. k \in 1 .. n /\ k - 1 \in 0 .. n /\ k - 1 \notin Bad
    <3>1. k \in 0 .. n
      BY <2>1
    <3>. HIDE DEF Bad
    <3>2. k \in 1 .. n /\ k - 1 \in 0 .. n /\ ~(k <= k - 1)
      BY <2>2, <3>1
    <3>. QED BY <2>1, <3>2
  <2>4. PICK far \in Nat : \A i \in 1 .. k - 1 : ~(f[i] > far)
    BY <2>3
  <2>5. f[k] \in Nat /\ \A i \in 1 .. k : f[i] \in Nat
    <3>1. \A i \in 1 .. k : i \in 1 .. n
      BY <2>3
    <3>2. \A i \in 1 .. n : f[i] \in Nat
      BY <1>3
    <3>. HIDE DEF Bad
    <3>. QED BY <2>3, <3>1, <3>2
  <2>6. \A i \in 1 .. k : ~(f[i] > far + f[k])
    <3>. HIDE DEF Bad
    <3>. SUFFICES ASSUME NEW i \in 1 .. k PROVE ~(f[i] > far + f[k])
      OBVIOUS
    <3>1. CASE i = k
      BY <2>5, <3>1
    <3>2. CASE i \in 1 .. k - 1
      <4>1. ~(f[i] > far)
        BY <2>4, <3>2
      <4>. QED BY <2>5, <4>1
    <3>. QED BY <2>3, <3>1, <3>2
  <2>7. far + f[k] \in Nat
    <3>1. \A m \in Nat : far + m \in Nat
      OBVIOUS
    <3>. QED BY <2>5, <3>1, Zenon
  <2>. QED BY <2>1, <2>6, <2>7
<1>5. n \notin Bad
  BY <1>4
<1>6. PICK far \in Nat : \A i \in 1 .. n : ~(f[i] > far)
  <2>1. n \in 0 .. n
    OBVIOUS
  <2>2. ~(\A far \in Nat : \E i \in 1 .. n : f[i] > far)
    BY <1>5, <2>1, Zenon
  <2>. QED BY <2>2, Zenon
<1>. QED BY <1>3, <1>6

(* SumExists. What is added up step by step has a sum after each step.     *)
LEMMA SumExists ==
  ASSUME NEW N \in Nat, NEW d \in [Nat -> Nat]
  PROVE  \E f \in [0 .. N -> Nat] : f[0] = 0 /\ \A n \in 1 .. N : f[n] = f[n - 1] + d[n - 1]
<1>. DEFINE Added(m) == \E f \in [0 .. m -> Nat] :
                         f[0] = 0 /\ \A n \in 1 .. m : f[n] = f[n - 1] + d[n - 1]
            Bad == {m \in Nat : ~Added(m)}
<1>1. Added(0)
  <2>. DEFINE g == [n \in 0 .. 0 |-> 0]
  <2>1. g \in [0 .. 0 -> Nat] /\ g[0] = 0 /\ \A n \in 1 .. 0 : g[n] = g[n - 1] + d[n - 1]
    OBVIOUS
  <2>. QED BY <2>1
<1>2. ASSUME NEW m \in Nat, Added(m)
      PROVE  Added(m + 1)
  <2>1. PICK f \in [0 .. m -> Nat] : f[0] = 0 /\ \A n \in 1 .. m : f[n] = f[n - 1] + d[n - 1]
    BY <1>2
  <2>. DEFINE g == [n \in 0 .. m + 1 |-> IF n <= m THEN f[n] ELSE f[m] + d[m]]
  <2>2. g \in [0 .. m + 1 -> Nat] /\ g[0] = 0
    <3>1. ASSUME NEW n \in 0 .. m + 1
          PROVE  (IF n <= m THEN f[n] ELSE f[m] + d[m]) \in Nat
      <4>1. f[m] \in Nat /\ d[m] \in Nat
        OBVIOUS
      <4>2. n <= m => f[n] \in Nat
        OBVIOUS
      <4>. QED BY <4>1, <4>2
    <3>2. g[0] = 0
      BY <2>1
    <3>3. g \in [0 .. m + 1 -> Nat]
      BY <3>1
    <3>. QED BY <3>2, <3>3
  <2>3. ASSUME NEW n \in 1 .. m + 1
        PROVE  g[n] = g[n - 1] + d[n - 1]
    <3>1. CASE n = m + 1
      <4>1. g[m + 1] = f[m] + d[m] /\ g[m] = f[m]
        OBVIOUS
      <4>2. n - 1 = m
        BY <3>1
      <4>. QED BY <3>1, <4>1, <4>2
    <3>2. CASE n \in 1 .. m
      BY <2>1, <3>2
    <3>. QED BY <3>1, <3>2
  <2>. QED BY <2>2, <2>3
<1>. HIDE DEF Added
<1>3. Bad = {}
  <2>. SUFFICES ASSUME Bad # {}
                PROVE  FALSE
    OBVIOUS
  <2>1. PICK m \in Bad : \A x \in Bad : m <= x
    <3>1. Bad \in SUBSET Nat
      OBVIOUS
    <3>. HIDE DEF Bad
    <3>. QED BY <3>1, SmallestIn
  <2>2. m # 0
    BY <1>1
  <2>3. m - 1 \in Nat /\ m - 1 \notin Bad
    BY <2>1, <2>2
  <2>4. Added((m - 1) + 1)
    BY <1>2, <2>3
  <2>. QED BY <2>4
<1>. QED BY <1>3 DEF Added

(* SumTyped. A sum of numbers is a number.                                 *)
LEMMA SumTyped ==
  ASSUME NEW N \in Nat, NEW d \in [Nat -> Nat], NEW f,
         f[0] = 0, \A n \in 1 .. N : f[n] = f[n - 1] + d[n - 1]
  PROVE  \A n \in 0 .. N : f[n] \in Nat
<1>. DEFINE Bad == {n \in 0 .. N : f[n] \notin Nat}
<1>3. Bad = {}
  <2>. SUFFICES ASSUME Bad # {}
                PROVE  FALSE
    OBVIOUS
  <2>1. PICK m \in Bad : \A x \in Bad : m <= x
    <3>1. Bad \in SUBSET Nat
      OBVIOUS
    <3>. HIDE DEF Bad
    <3>. QED BY <3>1, SmallestIn
  <2>2. m \in 1 .. N /\ m - 1 \in 0 .. N
    BY <2>1
  <2>3. f[m - 1] \in Nat
    BY <2>1, <2>2
  <2>4. d[m - 1] \in Nat
    BY <2>2
  <2>5. f[m] = f[m - 1] + d[m - 1]
    BY <2>2
  <2>. QED BY <2>1, <2>3, <2>4, <2>5
<1>. QED BY <1>3

(* SmallerOfTwo. The minimum of two numbers.                               *)
LEMMA SmallerOfTwo ==
  ASSUME NEW m \in Int, NEW n \in Int
  PROVE  Min({m, n}) = IF m <= n THEN m ELSE n
<1>1. \A x \in {m, n} : (\A y \in {m, n} : x <= y) => x = IF m <= n THEN m ELSE n
  OBVIOUS
<1>2. \E x \in {m, n} : \A y \in {m, n} : x <= y
  OBVIOUS
<1>. QED
  BY <1>1, <1>2 DEF Min

-----------------------------------------------------------------------------
(* The listener's poll loop.                                               *)

PollPlaces == {"start", "wait", "check", "backoff", "drain", "events", "hang", "cancels",
               "done", "failed"}

(* The loop's own place, and the failures counted: no more than the faults.*)
LoopSound ==
  /\ pollAt \in PollPlaces
  /\ pollSleep \in 0 .. FailureBackoff(BackoffSteps) + SendHangs
  /\ pollNow \in 0 .. PollHorizon /\ pollLost \in 0 .. PollFaults
  /\ pollFails \in 0 .. pollLost

(* A listener that knows of an open agreement holds a permit or is fast,   *)
(* and what it has waited and what is left of the timer fit the interval.  *)
FastSound ==
  /\ {pollFast, pollDue, pollPermit, pollKnown} \subseteq BOOLEAN
  /\ pollTimer \in 1 .. SlowInterval /\ pollIdle \in 0 .. pollNow
  /\ pollFast => pollTimer <= FastInterval
  /\ pollPermit => pollIdle = 0
  /\ pollAt \in {"check", "backoff", "drain", "events", "hang", "cancels"} => pollIdle = 0
  /\ pollKnown /\ ~pollPermit /\ pollAt # "check" =>
       pollFast /\ (pollDue \/ pollIdle + pollTimer <= FastInterval)
  /\ OpenPolledFast

(* The pause is the one the failed sweeps in a row call for, and counts    *)
(* from the start of the last.                                             *)
CoolSound ==
  /\ sendRun \in Nat /\ sendAge \in Nat /\ sendRun + sendAge <= pollNow + 1
  /\ pollPause \in FastInterval .. SlowInterval
  /\ sendRun = 0 => pollDown = -1 /\ sendAge = 0
  /\ sendRun > 0 => pollDown = sendAge /\ pollPause = PauseOf(sendRun)

(* A lost cancel is no older than the polls since the last sweep and those *)
(* before the sweeps that left it; one that is older than the process has  *)
(* been through its first.                                                 *)
SweptSound ==
  /\ {orphan, orphanOld} \subseteq BOOLEAN
  /\ pollSwept \in 0 .. SweepPolls /\ orphanAge \in Nat /\ orphanTries \in 0 .. pollLost
  /\ pollSwept = SweepPolls => orphanAge = 0 /\ orphanTries = 0
  /\ orphanAge <= pollSwept + SweepPolls * orphanTries
  /\ orphanOld =>
       /\ orphan
       /\ pollSwept # SweepPolls =>
            /\ orphanTries > 0
            /\ orphanAge + SweepPolls <= pollSwept + 1 + SweepPolls * orphanTries

EnvSound == {pollStop, agOpen, agNew, brokerUp, evPending} \subseteq BOOLEAN

PollInv == /\ LoopSound
           /\ FastSound
           /\ CoolSound
           /\ SweptSound
           /\ EnvSound

(* PollTimes. The intervals and bounds, as numbers.                        *)
LEMMA PollTimes ==
  /\ FastInterval \in Nat \ {0} /\ SlowInterval \in Nat \ {0} /\ BackoffBase \in Nat \ {0}
  /\ SweepPolls \in Nat \ {0} /\ BackoffSteps \in Nat /\ SendHangs \in Nat
  /\ PollHorizon \in Nat /\ PollFaults \in Nat /\ FastInterval <= SlowInterval
BY PollAssumption

LEMMA PowersOfTwo ==
  /\ 2 ^ 0 = 1
  /\ \A n \in 0 .. BackoffSteps : 2 ^ n \in Nat /\ 2 ^ n <= 2 ^ BackoffSteps
  /\ \A n \in 0 .. PollHorizon : 2 ^ n \in Nat \ {0} /\ 2 ^ (n + 1) = 2 * 2 ^ n
BY PollAssumption

(* BackoffTyped. No backoff is longer than the last.                       *)
LEMMA BackoffTyped ==
  ASSUME NEW n \in Nat
  PROVE  FailureBackoff(n) \in 0 .. FailureBackoff(BackoffSteps)
<1>1. /\ Lesser(n, BackoffSteps) \in 0 .. BackoffSteps
      /\ Lesser(BackoffSteps, BackoffSteps) = BackoffSteps
  BY PollTimes DEF Lesser
<1>2. PICK p \in Nat, q \in Nat :
        p = 2 ^ Lesser(n, BackoffSteps) /\ q = 2 ^ BackoffSteps /\ p <= q
  <2>1. BackoffSteps \in 0 .. BackoffSteps
    BY PollTimes
  <2>. QED
    BY <1>1, <2>1, PowersOfTwo
<1>3. BackoffBase * p \in Nat /\ BackoffBase * q \in Nat /\ BackoffBase * p <= BackoffBase * q
  <2>1. PICK d \in Nat : q = p + d
    <3>1. q - p \in Nat /\ q = p + (q - p)
      BY <1>2
    <3>. QED
      BY <3>1
  <2>2. PICK b \in Nat : b = BackoffBase
    BY PollTimes
  <2>3. b * (p + d) = b * p + b * d
    OBVIOUS
  <2>4. b * p \in Nat /\ b * d \in Nat
    OBVIOUS
  <2>. QED
    BY <2>1, <2>2, <2>3, <2>4
<1>4. FailureBackoff(n) = BackoffBase * p /\ FailureBackoff(BackoffSteps) = BackoffBase * q
  BY <1>1, <1>2 DEF FailureBackoff
<1>. QED
  BY <1>3, <1>4

(* PauseDoubles. Another failure doubles the pause, up to the idle         *)
(* interval.                                                               *)
LEMMA PauseDoubles ==
  ASSUME NEW n \in 1 .. PollHorizon
  PROVE  /\ PauseOf(n) \in Nat
         /\ PauseOf(n + 1) = Lesser(2 * PauseOf(n), SlowInterval)
<1>1. n - 1 \in 0 .. PollHorizon /\ n \in 0 .. PollHorizon /\ (n + 1) - 1 = n /\ (n - 1) + 1 = n
  BY PollTimes
<1>2. PICK p \in Nat \ {0} : p = 2 ^ (n - 1) /\ 2 ^ n = 2 * p
  <2>1. 2 ^ (n - 1) \in Nat \ {0} /\ 2 ^ ((n - 1) + 1) = 2 * 2 ^ (n - 1)
    BY <1>1, PowersOfTwo
  <2>. QED
    BY <1>1, <2>1
<1>3. PICK m \in Nat : m = FastInterval * p /\ FastInterval * (2 * p) = 2 * m
  BY PollTimes
<1>4. PauseOf(n) = Lesser(m, SlowInterval)
  BY <1>2, <1>3 DEF PauseOf
<1>5. PauseOf(n + 1) = Lesser(2 * m, SlowInterval)
  BY <1>1, <1>2, <1>3 DEF PauseOf
<1>. QED
  BY <1>4, <1>5, PollTimes DEF Lesser

(* FirstPause. A first failure pauses for one poll interval.               *)
LEMMA FirstPause == PauseOf(1) = FastInterval
<1>1. 2 ^ (1 - 1) = 1
  BY PowersOfTwo
<1>. QED
  BY <1>1, PollTimes DEF PauseOf, Lesser

(* InitPollInv. The invariant holds as the listener starts.                *)
LEMMA InitPollInv == PollInit => PollInv
<1>. SUFFICES ASSUME PollInit PROVE PollInv
  OBVIOUS
<1>. USE DEF PollInit, FirstSweep
<1>1. 0 \in 0 .. FailureBackoff(BackoffSteps) + SendHangs
  BY BackoffTyped, PollTimes
<1>2. LoopSound
  BY <1>1, PollTimes DEF LoopSound, PollPlaces
<1>3. FastSound
  <2>1. {pollFast, pollDue, pollPermit, pollKnown} \subseteq BOOLEAN
    BY Zenon
  <2>2. pollTimer \in 1 .. SlowInterval /\ pollIdle \in 0 .. pollNow /\ pollTimer <= FastInterval
    BY PollTimes
  <2>. QED
    BY <2>1, <2>2, PollTimes DEF FastSound, OpenPolledFast
<1>4. CoolSound
  BY PollTimes DEF CoolSound
<1>5. SweptSound
  BY PollTimes DEF SweptSound
<1>6. EnvSound
  BY Zenon DEF EnvSound
<1>. QED
  BY <1>2, <1>3, <1>4, <1>5, <1>6 DEF PollInv

(* PollFaultIs. A fault is counted.                                        *)
LEMMA PollFaultIs ==
  ASSUME LoopSound, PollFault
  PROVE  /\ pollLost' \in 0 .. PollFaults /\ pollLost' = pollLost + 1 /\ UNCHANGED pollNow
BY PollTimes DEF LoopSound, PollFault

(* LoopSoundKeeps. The loop's place and its counts, at every step.         *)
LEMMA LoopSoundKeeps ==
  ASSUME PollInv, PollNext
  PROVE  LoopSound'
<1>. USE DEF PollInv, LoopSound, boundVars
<1>0. /\ pollLost \in Nat /\ pollNow \in Nat /\ pollFails \in Nat /\ pollSleep \in Nat
      /\ FailureBackoff(BackoffSteps) \in Nat
  BY PollTimes, BackoffTyped
<1>1. CASE CreateAgreement \/ NotifyListener \/ EndAgreement \/ LoseCancel \/ StopListener
  BY <1>1 DEF CreateAgreement, NotifyListener, EndAgreement, LoseCancel, StopListener
<1>2. CASE TurnBroker
  BY <1>0, <1>2, PollFaultIs DEF TurnBroker
<1>3. CASE RestartListener
  <2>1. 0 \in 0 .. FailureBackoff(BackoffSteps) + SendHangs
    BY <1>0, PollTimes
  <2>. QED
    BY <1>0, <1>3, <2>1, PollFaultIs DEF RestartListener, Fresh, PollPlaces
<1>4. CASE ReadState
  BY <1>0, <1>4, PollFaultIs DEF ReadState, PollPlaces
<1>5. CASE HearStop \/ TimerFires \/ Woken \/ BackoffEnds \/ SendGivesUp
  BY <1>5 DEF HearStop, TimerFires, Woken, BackoffEnds, SendGivesUp, PollPlaces
<1>5a. CASE CancelSweep
  BY <1>0, <1>5a, PollFaultIs DEF CancelSweep, PollPlaces
<1>6. CASE ChooseInterval
  <2>1. pollLost' \in 0 .. PollFaults /\ pollLost' >= pollLost /\ UNCHANGED pollNow
    BY <1>0, <1>6, PollFaultIs DEF ChooseInterval
  <2>2. FailureBackoff(pollFails) \in 0 .. FailureBackoff(BackoffSteps)
    BY <1>0, BackoffTyped
  <2>3. pollSleep' \in 0 .. FailureBackoff(BackoffSteps) + SendHangs
    BY <1>0, <1>6, <2>2, PollTimes DEF ChooseInterval
  <2>. QED
    BY <1>0, <1>6, <2>1, <2>3 DEF ChooseInterval, PollPlaces
<1>7. CASE DrainOnce
  BY <1>0, <1>7 DEF DrainOnce, PollPlaces
<1>8. CASE DrainFails
  BY <1>0, <1>8, PollFaultIs DEF DrainFails, PollPlaces
<1>9. CASE EventSweep
  <2>1. pollAt' \in PollPlaces /\ UNCHANGED pollFails
    BY <1>9 DEF EventSweep, PollPlaces
  <2>2. pollLost' \in 0 .. PollFaults /\ pollLost' >= pollLost /\ UNCHANGED pollNow
    BY <1>0, <1>9, PollFaultIs DEF EventSweep
  <2>3. pollSleep' \in 0 .. FailureBackoff(BackoffSteps) + SendHangs
    <3>1. SendHangs \in 0 .. FailureBackoff(BackoffSteps) + SendHangs
      BY <1>0, PollTimes
    <3>. QED
      BY <1>9, <3>1 DEF EventSweep
  <2>. QED
    BY <1>0, <2>1, <2>2, <2>3
<1>10. CASE PollTick
  BY <1>0, <1>10, PollTimes DEF PollTick
<1>. QED
  BY <1>1, <1>2, <1>3, <1>4, <1>5, <1>5a, <1>6, <1>7, <1>8, <1>9, <1>10 DEF PollNext, PollLoop

(* LostGrows. The faults so far are never fewer.                           *)
LEMMA LostGrows ==
  ASSUME PollInv, PollNext
  PROVE  pollLost' >= pollLost /\ pollLost' \in Nat
<1>0. pollLost \in Nat
  BY PollTimes DEF PollInv, LoopSound
<1>1. pollLost' = pollLost \/ pollLost' = pollLost + 1
  <2>. USE DEF boundVars, PollFault
  <2>1. CASE PollLoop
    BY <2>1 DEF PollLoop, ReadState, HearStop, TimerFires, Woken, ChooseInterval, BackoffEnds,
                DrainOnce, DrainFails, EventSweep, SendGivesUp, CancelSweep
  <2>2. CASE ~PollLoop
    BY <2>2 DEF PollNext, PollTick, CreateAgreement, NotifyListener, EndAgreement, LoseCancel,
                TurnBroker, StopListener, RestartListener
  <2>. QED
    BY <2>1, <2>2
<1>. QED
  BY <1>0, <1>1

(* CoolSoundKeeps. The pause of the sweeps, at every step: only a sweep,   *)
(* the time and a restart touch it.                                        *)
LEMMA CoolSoundKeeps ==
  ASSUME PollInv, PollNext
  PROVE  CoolSound' /\ SweepsBackOff
<1>. USE DEF PollInv
<1>0. /\ sendRun \in Nat /\ sendAge \in Nat /\ pollNow \in 0 .. PollHorizon
      /\ pollPause \in FastInterval .. SlowInterval
  BY DEF CoolSound, LoopSound
<1>1. CASE UNCHANGED <<coolVars, pollNow>>
  BY <1>0, <1>1 DEF CoolSound, coolVars, SweepsBackOff
<1>2. CASE ~UNCHANGED <<coolVars, pollNow>>
  <2>1. EventSweep \/ PollTick \/ RestartListener
    <3>. USE DEF boundVars, PollFault
    <3>1. CASE PollLoop
      BY <1>2, <3>1 DEF PollLoop, ReadState, HearStop, TimerFires, Woken, ChooseInterval,
                        BackoffEnds, DrainOnce, DrainFails, SendGivesUp, CancelSweep
    <3>2. CASE ~PollLoop
      BY <1>2, <3>2 DEF PollNext, CreateAgreement, NotifyListener, EndAgreement, LoseCancel,
                        TurnBroker, StopListener
    <3>. QED
      BY <3>1, <3>2
  <2>2. CASE RestartListener
    BY <1>0, <2>2, PollTimes DEF RestartListener, Fresh, PollFault, CoolSound, SweepsBackOff
  <2>3. CASE PollTick
    <3>1. UNCHANGED <<pollPause, sendRun>> /\ pollNow' = pollNow + 1
          /\ pollDown' = (IF pollDown >= 0 THEN pollDown + 1 ELSE -1)
          /\ sendAge' = (IF sendRun > 0 THEN sendAge + 1 ELSE 0)
      BY <2>3 DEF PollTick
    <3>2. CASE sendRun = 0
      BY <1>0, <3>1, <3>2 DEF CoolSound, SweepsBackOff
    <3>3. CASE sendRun > 0
      BY <1>0, <3>1, <3>3 DEF CoolSound, SweepsBackOff
    <3>. QED
      BY <1>0, <3>2, <3>3
  <2>4. CASE EventSweep
    <3>0. UNCHANGED pollNow
      BY <2>4 DEF EventSweep, boundVars, PollFault
    <3>1. \/ UNCHANGED coolVars
          \/ pollDown' = -1 /\ pollPause' = FastInterval /\ sendRun' = 0 /\ sendAge' = 0
          \/ /\ ~IsPaused /\ pollPause' = PauseAfterFailure
             /\ pollDown' = 0 /\ sendRun' = sendRun + 1 /\ sendAge' = 0
      BY <2>4 DEF EventSweep
    <3>2. CASE pollDown' = -1 /\ pollPause' = FastInterval /\ sendRun' = 0 /\ sendAge' = 0
      BY <1>0, <3>0, <3>2, PollTimes DEF CoolSound, SweepsBackOff
    <3>3. CASE /\ ~IsPaused /\ pollPause' = PauseAfterFailure
               /\ pollDown' = 0 /\ sendRun' = sendRun + 1 /\ sendAge' = 0
      <4>1. CASE sendRun = 0
        <5>1. pollPause' = FastInterval /\ sendRun' = 1
          BY <3>3, <4>1 DEF CoolSound, PauseAfterFailure
        <5>. QED
          BY <1>0, <3>0, <3>3, <4>1, <5>1, FirstPause, PollTimes DEF CoolSound, SweepsBackOff
      <4>2. CASE sendRun > 0
        <5>1. pollDown = sendAge /\ pollPause = PauseOf(sendRun)
          BY <4>2 DEF CoolSound
        <5>2. sendAge >= pollPause
          BY <1>0, <3>3, <5>1, PollTimes DEF IsPaused
        <5>3. sendRun \in 1 .. PollHorizon /\ sendRun + 1 <= pollNow + 1
          BY <1>0, <4>2, <5>2, PollTimes DEF CoolSound
        <5>4. pollPause' = PauseOf(sendRun + 1)
          BY <1>0, <3>3, <5>1, <5>3, PauseDoubles DEF PauseAfterFailure
        <5>5. pollPause' \in FastInterval .. SlowInterval
          BY <1>0, <3>3, PollTimes DEF PauseAfterFailure, Lesser
        <5>6. CoolSound'
          BY <1>0, <3>0, <3>3, <5>3, <5>4, <5>5 DEF CoolSound
        <5>. QED
          BY <5>1, <5>2, <5>6 DEF SweepsBackOff
      <4>. QED
        BY <1>0, <4>1, <4>2
    <3>. QED
      BY <1>1, <3>0, <3>1, <3>2, <3>3
  <2>. QED
    BY <2>1, <2>2, <2>3, <2>4
<1>. QED
  BY <1>1, <1>2

(* SweptSoundKeeps. The age of a lost cancel, at every step.               *)
LEMMA SweptSoundKeeps ==
  ASSUME PollInv, PollNext
  PROVE  SweptSound'
<1>. USE DEF PollInv
<1>0. PICK p \in Nat \ {0}, r \in Nat :
        /\ p = SweepPolls /\ r = orphanTries
        /\ pollSwept \in Nat /\ orphanAge \in Nat /\ pollLost \in Nat /\ r <= pollLost
  BY PollTimes DEF SweptSound, LoopSound
<1>00. PICK k \in Nat : k = p * r /\ p * (r + 1) = k + p /\ p * 0 = 0
  <2>1. p * r \in Nat /\ p * (r + 1) = p * r + p /\ p * 0 = 0
    BY <1>0
  <2>. QED
    BY <2>1
<1>1. CASE UNCHANGED <<orphanVars, pollSwept>> /\ pollLost' >= pollLost /\ pollLost' \in Nat
  BY <1>0, <1>1 DEF SweptSound, orphanVars
<1>2. CASE LoseCancel
  <2>1. orphan' = TRUE /\ orphanAge' = 0 /\ orphanTries' = 0 /\ ~orphan
        /\ UNCHANGED <<orphanOld, pollSwept, pollLost>>
    BY <1>2 DEF LoseCancel, boundVars
  <2>. QED
    BY <1>0, <1>00, <2>1 DEF SweptSound
<1>3. CASE RestartListener
  <2>1. /\ orphanOld' = orphan /\ orphan' = orphan /\ orphanAge' = 0 /\ orphanTries' = 0
        /\ pollSwept' = SweepPolls /\ pollLost' = pollLost + 1
    BY <1>3 DEF RestartListener, Fresh, FirstSweep, PollFault
  <2>. QED
    BY <1>0, <1>00, <2>1 DEF SweptSound
<1>4. CASE CancelSweep
  <2>1. CASE pollSwept + 1 >= SweepPolls /\ orphan' = FALSE /\ orphanAge' = 0
    <3>1. /\ pollSwept' = 0 /\ orphan' = FALSE /\ orphanOld' = FALSE /\ orphanAge' = 0
          /\ orphanTries' = 0 /\ pollLost' = pollLost
      BY <1>0, <1>4, <2>1 DEF CancelSweep, boundVars
    <3>2. {orphan, orphanOld}' \subseteq BOOLEAN
      BY <3>1, Zenon
    <3>. QED
      BY <1>0, <1>00, <3>1, <3>2 DEF SweptSound
  <2>2. CASE /\ pollSwept + 1 >= SweepPolls /\ pollSwept' = 0 /\ PollFault /\ orphan
             /\ orphanAge' = orphanAge + 1 /\ orphanTries' = orphanTries + 1
             /\ UNCHANGED <<orphan, orphanOld>>
    <3>1. pollLost' = pollLost + 1 /\ orphanTries' = r + 1
      BY <1>0, <2>2 DEF PollFault
    <3>2. SweepPolls * orphanTries' = k + p
      BY <1>0, <1>00, <3>1
    <3>3. pollSwept = p => orphanAge = 0 /\ r = 0 /\ k = 0
      BY <1>0, <1>00 DEF SweptSound
    <3>4. pollSwept = p \/ pollSwept + 1 = p
      BY <1>0, <2>2 DEF SweptSound
    <3>5. orphanAge <= pollSwept + k
          /\ (orphanOld /\ pollSwept # p => orphanAge + p <= pollSwept + 1 + k)
      BY <1>0, <1>00 DEF SweptSound
    <3>6. orphanAge + 1 <= k + p
      BY <1>0, <1>00, <3>3, <3>4, <3>5
    <3>7. orphanOld => orphanAge + 1 + p <= 1 + (k + p)
      BY <1>0, <1>00, <3>3, <3>4, <3>5
    <3>. QED
      BY <1>0, <1>00, <2>2, <3>1, <3>2, <3>6, <3>7 DEF SweptSound
  <2>3. CASE ~(pollSwept + 1 >= SweepPolls)
    <3>1. /\ pollSwept' = pollSwept + 1 /\ UNCHANGED <<orphan, orphanOld, orphanTries, pollLost>>
          /\ orphanAge' = (IF orphan THEN orphanAge + 1 ELSE 0)
      BY <1>4, <2>3 DEF CancelSweep, boundVars
    <3>. QED
      BY <1>0, <1>00, <2>3, <3>1 DEF SweptSound
  <2>. QED
    BY <1>4, <2>1, <2>2, <2>3 DEF CancelSweep
<1>5. CASE PollLoop /\ ~CancelSweep
  <2>1. UNCHANGED <<orphanVars, pollSwept>>
    BY <1>5 DEF PollLoop, ReadState, HearStop, TimerFires, Woken, ChooseInterval,
                BackoffEnds, DrainOnce, DrainFails, EventSweep, SendGivesUp
  <2>. QED
    BY <1>0, <1>1, <2>1, LostGrows
<1>6. CASE PollTick \/ CreateAgreement \/ NotifyListener \/ EndAgreement \/ TurnBroker
           \/ StopListener
  <2>1. UNCHANGED <<orphanVars, pollSwept>>
    BY <1>6 DEF PollTick, CreateAgreement, NotifyListener, EndAgreement, TurnBroker,
                StopListener
  <2>. QED
    BY <1>0, <1>1, <2>1, LostGrows
<1>. QED
  BY <1>2, <1>3, <1>4, <1>5, <1>6 DEF PollNext

(* EnvSoundKeeps. The flags around the loop, at every step.                *)
LEMMA EnvSoundKeeps ==
  ASSUME PollInv, PollNext
  PROVE  EnvSound'
<1>. USE DEF PollInv, EnvSound, envVars
<1>1. CASE PollLoop
  BY <1>1 DEF PollLoop, ReadState, HearStop, TimerFires, Woken, ChooseInterval, BackoffEnds,
              DrainOnce, DrainFails, EventSweep, SendGivesUp, CancelSweep
<1>2. CASE ~PollLoop
  BY <1>2 DEF PollNext, PollTick, CreateAgreement, NotifyListener, EndAgreement, LoseCancel,
              TurnBroker, StopListener, RestartListener, Fresh
<1>. QED
  BY <1>1, <1>2

(* FastIs. What a listener that knows relies on, by parts.                 *)
LEMMA FastIs ==
  ASSUME PollInv
  PROVE  /\ pollFast \in BOOLEAN /\ pollDue \in BOOLEAN /\ pollPermit \in BOOLEAN
         /\ pollKnown \in BOOLEAN /\ agOpen \in BOOLEAN
         /\ pollTimer \in Nat \ {0} /\ pollTimer <= SlowInterval
         /\ pollIdle \in Nat /\ pollNow \in Nat /\ pollIdle <= pollNow
BY PollTimes DEF PollInv, FastSound, EnvSound, LoopSound

(* FastSoundKeeps. What a listener that knows relies on, at every step.    *)
LEMMA FastSoundKeeps ==
  ASSUME PollInv, PollNext
  PROVE  FastSound'
<1>. USE DEF FastSound, OpenPolledFast
<1>0. FastSound
  BY DEF PollInv
<1>1. CASE /\ UNCHANGED <<timerVars, pollPermit, pollIdle, pollNow>>
           /\ pollKnown' \in BOOLEAN /\ (pollKnown' => pollKnown)
           /\ \/ pollAt' = pollAt
              \/ pollAt \notin {"start", "check"} /\ pollAt' = "wait"
              \/ pollAt \in {"backoff", "drain", "events", "hang"}
              \/ pollAt' \in {"done", "failed"} /\ pollAt # "check"
              \/ pollAt = "start" /\ pollAt' \in {"wait", "failed"}
  BY <1>0, <1>1, FastIs DEF timerVars
<1>2. CASE CreateAgreement \/ EndAgreement \/ LoseCancel \/ TurnBroker \/ StopListener
  BY <1>1, <1>2, FastIs DEF CreateAgreement, EndAgreement, LoseCancel, TurnBroker, StopListener,
                            toldVars, boundVars, PollFault
<1>3. CASE ReadState \/ HearStop \/ BackoffEnds \/ DrainFails \/ SendGivesUp \/ CancelSweep
  BY <1>1, <1>3, FastIs DEF ReadState, HearStop, BackoffEnds, DrainFails, SendGivesUp,
                            CancelSweep, toldVars, boundVars, PollFault
<1>4. CASE DrainOnce
  <2>1. pollKnown' \in BOOLEAN /\ (pollKnown' => pollKnown)
    BY <1>4, FastIs, Zenon DEF DrainOnce
  <2>. QED
    BY <1>1, <1>4, <2>1 DEF DrainOnce, boundVars
<1>5. CASE EventSweep
  BY <1>1, <1>5, FastIs DEF EventSweep, toldVars, boundVars, PollFault
<1>6. CASE NotifyListener
  <2>1. /\ pollKnown' = agOpen /\ pollIdle' = 0 /\ pollPermit' = TRUE
        /\ UNCHANGED <<pollAt, timerVars, pollNow>>
    BY <1>6 DEF NotifyListener, PermitAfterNotify, boundVars
  <2>. QED
    BY <1>0, <2>1, FastIs, PollTimes DEF timerVars
<1>7. CASE RestartListener
  <2>1. /\ pollFast' = TRUE /\ pollTimer' = FastInterval /\ pollDue' = TRUE
        /\ pollPermit' = FALSE /\ pollKnown' = FALSE /\ pollIdle' = 0
        /\ pollAt' = "start" /\ UNCHANGED pollNow
    BY <1>7 DEF RestartListener, Fresh, PollFault
  <2>2. {pollFast, pollDue, pollPermit, pollKnown}' \subseteq BOOLEAN
    BY <2>1, Zenon
  <2>. QED
    BY <1>0, <2>1, <2>2, FastIs, PollTimes
<1>8. CASE TimerFires
  <2>1. /\ pollAt' = "check" /\ pollDue' = FALSE /\ pollIdle' = 0
        /\ UNCHANGED <<pollFast, pollTimer, pollPermit, pollKnown, pollNow>>
    BY <1>8 DEF TimerFires, boundVars
  <2>2. {pollFast, pollDue, pollPermit, pollKnown}' \subseteq BOOLEAN
    BY <2>1, FastIs, Zenon
  <2>. QED
    BY <1>0, <2>1, <2>2, FastIs, PollTimes
<1>9. CASE Woken
  <2>1. /\ pollAt' = "check" /\ pollPermit' = FALSE /\ pollIdle' = 0
        /\ UNCHANGED <<pollKnown, pollNow>>
        /\ IF pollFast THEN UNCHANGED timerVars ELSE SetInterval(TRUE)
    BY <1>9 DEF Woken, boundVars
  <2>2. CASE pollFast
    <3>1. UNCHANGED <<pollFast, pollTimer, pollDue>>
      BY <2>1, <2>2 DEF timerVars
    <3>2. {pollFast, pollDue, pollPermit, pollKnown}' \subseteq BOOLEAN
      BY <2>1, <3>1, FastIs, Zenon
    <3>. QED
      BY <1>0, <2>1, <3>1, <3>2, FastIs, PollTimes
  <2>3. CASE ~pollFast
    <3>1. pollFast' = TRUE /\ pollTimer' = FastInterval /\ pollDue' = FALSE
      BY <2>1, <2>3 DEF SetInterval
    <3>2. {pollFast, pollDue, pollPermit, pollKnown}' \subseteq BOOLEAN
      BY <2>1, <3>1, FastIs, Zenon
    <3>. QED
      BY <1>0, <2>1, <3>1, <3>2, FastIs, PollTimes
  <2>. QED
    BY <2>2, <2>3
<1>10. CASE ChooseInterval
  <2>1. PICK ok \in BOOLEAN :
          /\ IF ok THEN UNCHANGED boundVars ELSE PollFault
          /\ IF ExistsActive(ok) # pollFast THEN SetInterval(ExistsActive(ok))
                                            ELSE UNCHANGED timerVars
          /\ pollKnown' = ExistsActive(ok)
    BY <1>10 DEF ChooseInterval
  <2>2. PICK active \in BOOLEAN : active = ExistsActive(ok)
    BY FastIs, Zenon DEF ExistsActive
  <2>3. /\ pollAt = "check" /\ pollAt' \in {"backoff", "drain"}
        /\ UNCHANGED <<pollPermit, pollIdle, pollNow>> /\ pollKnown' = active
        /\ IF active # pollFast THEN SetInterval(active) ELSE UNCHANGED timerVars
    BY <1>10, <2>1, <2>2 DEF ChooseInterval, boundVars, PollFault
  <2>4. pollIdle = 0
    BY <1>0, <2>3
  <2>5. CASE active # pollFast
    <3>1. pollFast' = active /\ pollDue' = FALSE
          /\ pollTimer' = (IF active THEN FastInterval ELSE SlowInterval)
      BY <2>3, <2>5 DEF SetInterval
    <3>2. {pollFast, pollDue, pollPermit, pollKnown}' \subseteq BOOLEAN
      BY <2>3, <3>1, FastIs, Zenon
    <3>. QED
      BY <1>0, <2>3, <2>4, <3>1, <3>2, FastIs, PollTimes
  <2>6. CASE active = pollFast
    <3>1. UNCHANGED timerVars
      BY <2>3, <2>6
    <3>. QED
      BY <1>0, <2>3, <2>4, <2>6, <3>1, FastIs, PollTimes DEF timerVars
  <2>. QED
    BY <2>5, <2>6
<1>11. CASE PollTick
  <2>1. /\ pollNow' = pollNow + 1
        /\ pollIdle' = (IF pollAt = "wait" THEN pollIdle + 1 ELSE pollIdle)
        /\ UNCHANGED <<pollAt, pollFast, pollPermit, pollKnown>>
        /\ \/ pollAt = "wait" /\ ~pollDue /\ ~pollPermit
           \/ pollAt \in {"backoff", "hang"}
    BY <1>11 DEF PollTick
  <2>2. CASE pollTimer = 1
    <3>1. pollDue' = TRUE /\ pollTimer' = (IF pollFast THEN FastInterval ELSE SlowInterval)
      BY <1>11, <2>2 DEF PollTick
    <3>. QED
      BY <1>0, <2>1, <2>2, <3>1, FastIs, PollTimes
  <2>3. CASE pollTimer # 1
    <3>1. pollTimer' = pollTimer - 1 /\ UNCHANGED pollDue
      BY <1>11, <2>3 DEF PollTick
    <3>. QED
      BY <1>0, <2>1, <2>3, <3>1, FastIs, PollTimes
  <2>. QED
    BY <2>2, <2>3
<1>. QED
  BY <1>2, <1>3, <1>4, <1>5, <1>6, <1>7, <1>8, <1>9, <1>10, <1>11 DEF PollNext, PollLoop

(* PollStepKeeps. No step of the poll loop disturbs the invariant.         *)
LEMMA PollStepKeeps == PollInv /\ [PollNext]_pollVars => PollInv'
<1>1. ASSUME PollInv, PollNext PROVE PollInv'
  BY <1>1, LoopSoundKeeps, FastSoundKeeps, CoolSoundKeeps, SweptSoundKeeps, EnvSoundKeeps
  DEF PollInv
<1>2. ASSUME PollInv, UNCHANGED pollVars PROVE PollInv'
  <2>. USE <1>2 DEF PollInv, pollVars
  <2>1. LoopSound' /\ SweptSound'
    BY DEF LoopSound, SweptSound
  <2>2. FastSound'
    BY DEF FastSound, OpenPolledFast
  <2>3. CoolSound' /\ EnvSound'
    BY DEF CoolSound, EnvSound
  <2>. QED
    BY <2>1, <2>2, <2>3
<1>. QED
  BY <1>1, <1>2

(* PollHold. The invariant is enough for the promises about states.        *)
LEMMA PollHold ==
  ASSUME PollInv
  PROVE  PollTypeOK /\ OpenPolledFast /\ LostCancelsSwept
<1>. USE DEF PollInv
<1>0. /\ pollNow \in 0 .. PollHorizon /\ pollLost \in Nat /\ Span \in Nat
      /\ Span > PollHorizon /\ pollPause \in FastInterval .. SlowInterval
  BY PollTimes DEF LoopSound, CoolSound, Span
<1>1. pollFails \in 0 .. PollFaults /\ pollIdle \in 0 .. Span
  BY <1>0, PollTimes DEF LoopSound, FastSound
<1>2. sendRun \in 0 .. Span /\ sendAge \in 0 .. Span /\ pollDown \in -1 .. Span
  BY <1>0, PollTimes DEF CoolSound
<1>3. orphanAge \in Nat /\ orphanTries \in 0 .. PollFaults /\ LostCancelsSwept
  <2>1. PICK p \in Nat \ {0}, r \in Nat : p = SweepPolls /\ r = orphanTries
    BY PollTimes DEF SweptSound, LoopSound
  <2>2. p * r \in Nat /\ p * (r + 1) = p * r + p /\ p * 0 = 0
    BY <2>1
  <2>3. r <= pollLost /\ pollLost <= PollFaults
    BY <1>0, <2>1, PollTimes DEF SweptSound, LoopSound
  <2>4. LostCancelsSwept
    BY <2>1, <2>2 DEF SweptSound, LostCancelsSwept
  <2>. QED
    BY <1>0, <2>1, <2>3, <2>4, PollTimes DEF SweptSound
<1>4. {pollFast, pollDue, pollPermit, pollStop, agOpen, agNew, brokerUp, evPending, orphan,
       orphanOld, pollKnown} \subseteq BOOLEAN
  BY DEF FastSound, SweptSound, EnvSound
<1>5. PollTypeOK
  BY <1>0, <1>1, <1>2, <1>3, <1>4
  DEF PollTypeOK, LoopSound, FastSound, CoolSound, SweptSound, PollPlaces
<1>. QED
  BY <1>3, <1>5 DEF FastSound

(* PollStepsBackOff. A step never sends to a broker that is down sooner    *)
(* than its failures call for.                                             *)
LEMMA PollStepsBackOff ==
  ASSUME PollInv, [PollNext]_pollVars
  PROVE  SweepsBackOff
<1>1. CASE UNCHANGED pollVars
  <2>1. sendRun \in Nat /\ sendRun' = sendRun
    BY <1>1 DEF pollVars, PollInv, CoolSound
  <2>. QED
    BY <2>1 DEF SweepsBackOff
<1>. QED
  BY <1>1, CoolSoundKeeps

-----------------------------------------------------------------------------
(* The chain time.                                                         *)

(* The time in memory is the stored one, the machine's clock is behind by  *)
(* less than the time, and what is stored is within the drift of it.       *)
ClockInv == /\ ClockTypeOK
            /\ ckMem = ckStored
            /\ ckSlow < ckTime
            /\ NotExpiredEarly

(* ClockTimes. The tolerances and bounds, as numbers.                      *)
LEMMA ClockTimes ==
  /\ SkewTolerance \in Nat /\ DriftTolerance \in Nat /\ AcceptBy \in Nat
  /\ ExpiryGrace \in Nat /\ ClockEnd \in Nat \ {0} /\ ClockFaults \in Nat
BY ClockAssumption

(* RatchetIs. The ratchet never goes back, nor further ahead than the      *)
(* drift, and takes a right answer as it is.                               *)
LEMMA RatchetIs ==
  ASSUME ClockInv, NEW ts \in Nat
  PROVE  /\ Ratchet(ts) \in Nat /\ Ratchet(ts) >= ckMem
         /\ Ratchet(ts) <= ckTime + DriftTolerance
         /\ ts = ckTime /\ ckSlow = 0 => Ratchet(ts) >= ckTime
<1>1. /\ ckTime \in Nat \ {0} /\ ckSlow \in Nat /\ ckSlow < ckTime /\ ckMem \in Nat
      /\ ckMem <= ckTime + DriftTolerance
  BY ClockTimes DEF ClockInv, ClockTypeOK, Times, NotExpiredEarly
<1>. QED
  BY <1>1, ClockTimes DEF Ratchet, DriftCap, Wall

(* ClockFaultTyped. The faults are bounded.                                *)
LEMMA ClockFaultTyped ==
  ASSUME ClockTypeOK, NEW n \in {0, 1}, ClockFault(n)
  PROVE  ckFaults' \in 0 .. ClockFaults
BY ClockTimes DEF ClockTypeOK, ClockFault

(* InitClockInv. The invariant holds as the listener starts.               *)
LEMMA InitClockInv == ClockInit => ClockInv
<1>. SUFFICES ASSUME ClockInit PROVE ClockInv
  OBVIOUS
<1>1. 0 \in Times /\ 1 \in 1 .. ClockEnd /\ 0 \in 0 .. ClockEnd /\ 0 \in 0 .. ClockFaults
  BY ClockTimes DEF Times
<1>2. NotExpiredEarly
  BY ClockTimes DEF ClockInit, NotExpiredEarly
<1>3. ClockTypeOK
  BY <1>1, Zenon DEF ClockInit, ClockTypeOK
<1>4. ckMem = ckStored /\ ckSlow < ckTime
  BY DEF ClockInit
<1>. QED
  BY <1>2, <1>3, <1>4 DEF ClockInv

(* ClockStepKeeps. No step of the chain time disturbs the invariant.       *)
LEMMA ClockStepKeeps == ClockInv /\ [ClockNext]_clockVars => ClockInv'
<1>. SUFFICES ASSUME ClockInv, [ClockNext]_clockVars PROVE ClockInv'
  OBVIOUS
<1>. USE DEF ClockInv
<1>0. /\ ckTime \in Nat \ {0} /\ ckTime <= ClockEnd /\ ckSlow \in Nat /\ ckMem \in Nat
      /\ ckFetched \in Nat /\ ckStored \in Nat
  BY ClockTimes DEF ClockTypeOK, Times
<1>1. CASE UNCHANGED clockVars
  BY <1>1 DEF clockVars, ClockTypeOK, NotExpiredEarly
<1>2. CASE Passes
  <2>1. ckTime' \in 1 .. ClockEnd /\ ckTime' > ckTime
    BY <1>0, <1>2, ClockTimes DEF Passes
  <2>. QED
    BY <1>0, <1>2, <2>1, ClockTimes DEF Passes, ClockTypeOK, NotExpiredEarly
<1>3. CASE StepClock
  <2>1. ckFaults' \in 0 .. ClockFaults
    BY <1>3, ClockFaultTyped DEF StepClock
  <2>2. ckSlow' \in 0 .. ClockEnd /\ ckSlow' < ckTime
    BY <1>0, <1>3, ClockTimes DEF StepClock
  <2>. QED
    BY <1>3, <2>1, <2>2 DEF StepClock, ClockTypeOK, NotExpiredEarly
<1>4. CASE FetchTime
  <2>1. PICK ts \in {0} \cup 1 .. 2 * ClockEnd :
          /\ ClockFault(IF ts = ckTime THEN 0 ELSE 1)
          /\ IF SkewOk(ts) THEN ckAt' = "apply" /\ ckFetched' = ts
             ELSE UNCHANGED <<ckAt, ckFetched>>
    BY <1>4 DEF FetchTime
  <2>2. PICK n \in {0, 1} : n = IF ts = ckTime THEN 0 ELSE 1
    OBVIOUS
  <2>3. ckFaults' \in 0 .. ClockFaults
    BY <2>1, <2>2, ClockFaultTyped
  <2>4. ts \in Times
    BY ClockTimes DEF Times
  <2>5. ckFetched' \in Times /\ ckAt' \in {"idle", "apply"}
    BY <2>1, <2>4 DEF ClockTypeOK
  <2>. QED
    BY <1>4, <2>3, <2>5 DEF FetchTime, ClockTypeOK, NotExpiredEarly
<1>5. CASE StoreTime
  <2>1. 0 \in Times
    BY ClockTimes DEF Times
  <2>2. CASE ckMem' = Ratchet(ckFetched) /\ ckStored' = Ratchet(ckFetched) /\ UNCHANGED ckFaults
    <3>1. ckStored' \in Nat /\ ckStored' <= ckTime + DriftTolerance
      BY <1>0, <2>2, RatchetIs
    <3>2. ckStored' \in Times
      BY <1>0, <3>1, ClockTimes DEF Times
    <3>. QED
      BY <1>5, <2>1, <2>2, <3>1, <3>2 DEF StoreTime, ClockTypeOK, NotExpiredEarly
  <2>3. CASE ClockFault(1) /\ UNCHANGED <<ckMem, ckStored>>
    <3>1. ckFaults' \in 0 .. ClockFaults
      BY <2>3, ClockFaultTyped
    <3>. QED
      BY <1>5, <2>1, <2>3, <3>1 DEF StoreTime, ClockTypeOK, NotExpiredEarly
  <2>. QED
    BY <1>5, <2>2, <2>3 DEF StoreTime
<1>6. CASE RestartClock
  <2>1. 0 \in Times /\ ckFaults' \in 0 .. ClockFaults
    BY <1>6, ClockTimes, ClockFaultTyped DEF Times, RestartClock
  <2>. QED
    BY <1>6, <2>1 DEF RestartClock, ClockTypeOK, NotExpiredEarly
<1>7. CASE Expire
  <2>1. AcceptBy + ExpiryGrace < ckTime + DriftTolerance
    BY <1>0, <1>7, ClockTimes DEF Expire, NotExpiredEarly
  <2>. QED
    BY <1>7, <2>1 DEF Expire, ClockTypeOK, NotExpiredEarly
<1>. QED
  BY <1>1, <1>2, <1>3, <1>4, <1>5, <1>6, <1>7 DEF ClockNext

(* ClockStepsForward. A step never takes the stored time back, and a right *)
(* answer under a right clock brings it up to the chain's.                 *)
LEMMA ClockStepsForward ==
  ASSUME ClockInv, [ClockNext]_clockVars
  PROVE  ClockForward /\ ClockCatchesUp
<1>. USE DEF ClockInv
<1>0. /\ ckTime \in Nat \ {0} /\ ckMem \in Nat /\ ckFetched \in Nat /\ ckStored \in Nat
      /\ ckFaults \in Nat
  BY ClockTimes DEF ClockTypeOK, Times
<1>1. CASE UNCHANGED ckStored /\ ~(ckAt = "apply" /\ ckAt' = "idle" /\ ckFaults' = ckFaults)
  BY <1>0, <1>1 DEF ClockForward, ClockCatchesUp
<1>2. CASE UNCHANGED clockVars \/ Passes \/ StepClock \/ Expire
  BY <1>1, <1>2 DEF clockVars, Passes, StepClock, Expire
<1>3. CASE FetchTime
  BY <1>1, <1>3 DEF FetchTime
<1>4. CASE RestartClock
  BY <1>0, <1>1, <1>4 DEF RestartClock, ClockFault
<1>5. CASE StoreTime
  <2>1. CASE ckStored' = Ratchet(ckFetched)
    BY <1>0, <2>1, RatchetIs DEF ClockForward, ClockCatchesUp
  <2>2. CASE ClockFault(1) /\ UNCHANGED ckStored
    BY <1>0, <1>1, <2>2 DEF ClockFault
  <2>. QED
    BY <1>5, <2>1, <2>2 DEF StoreTime
<1>. QED
  BY <1>2, <1>3, <1>4, <1>5 DEF ClockNext

-----------------------------------------------------------------------------
(* The RPC provider pool.                                                  *)

(* PoolNumbers. The constants, as numbers.                                 *)
LEMMA PoolNumbers ==
  /\ Endpoints \in Nat /\ Endpoints >= 1 /\ RequestTimeout \in Nat /\ MaxRetries \in Nat
  /\ MaxRotations \in Nat
BY PoolAssumption

(* PauseIs. A pause is at least a second.                                  *)
LEMMA PauseIs == \A n \in Nat : BackoffDelay(n) \in Nat \ {0}
<1>. SUFFICES ASSUME NEW n \in Nat PROVE BackoffDelay(n) \in Nat \ {0}
  OBVIOUS
<1>1. PICK k \in 0 .. 5 : k = Min({n, 5})
  BY SmallerOfTwo
<1>2. PICK p \in Nat \ {0} : p = 2 ^ k
  <2>1. 2 ^ 0 = 1 /\ 2 ^ 1 = 2 /\ 2 ^ 2 = 4 /\ 2 ^ 3 = 8 /\ 2 ^ 4 = 16 /\ 2 ^ 5 = 32
    BY SMT
  <2>2. k = 0 \/ k = 1 \/ k = 2 \/ k = 3 \/ k = 4 \/ k = 5
    OBVIOUS
  <2>3. 2 ^ k = 1 \/ 2 ^ k = 2 \/ 2 ^ k = 4 \/ 2 ^ k = 8 \/ 2 ^ k = 16 \/ 2 ^ k = 32
    BY <2>1, <2>2, Zenon
  <2>. QED BY <2>3
<1>3. BackoffDelay(n) = Min({p, 30})
  BY <1>1, <1>2 DEF BackoffDelay
<1>. QED BY <1>3, SmallerOfTwo

(* BackoffsIs. The pauses add up.                                          *)
LEMMA BackoffsIs ==
  /\ \A n \in 0 .. MaxRetries : Backoffs[n] \in Nat
  /\ Backoffs[0] = 0
  /\ \A n \in 1 .. MaxRetries : Backoffs[n] = Backoffs[n - 1] + BackoffDelay(n - 1)
<1>. DEFINE d == [n \in Nat |-> BackoffDelay(n)]
<1>1. d \in [Nat -> Nat]
  BY PauseIs
<1>2. MaxRetries \in Nat
  BY PoolNumbers
<1>3. PICK f \in [0 .. MaxRetries -> Nat] :
        f[0] = 0 /\ \A n \in 1 .. MaxRetries : f[n] = f[n - 1] + d[n - 1]
  <2>. HIDE DEF d
  <2>. QED BY <1>1, <1>2, SumExists
<1>4. f = [n \in 0 .. MaxRetries |-> IF n = 0 THEN 0 ELSE f[n - 1] + BackoffDelay(n - 1)]
  BY <1>2, <1>3
<1>5. Backoffs =
        [n \in 0 .. MaxRetries |-> IF n = 0 THEN 0 ELSE Backoffs[n - 1] + BackoffDelay(n - 1)]
  BY <1>4, Zenon DEF Backoffs
<1>6. Backoffs[0] = 0
      /\ \A n \in 1 .. MaxRetries : Backoffs[n] = Backoffs[n - 1] + BackoffDelay(n - 1)
  BY <1>2, <1>5
<1>7. \A n \in 1 .. MaxRetries : Backoffs[n] = Backoffs[n - 1] + d[n - 1]
  BY <1>6
<1>. HIDE DEF d
<1>8. \A n \in 0 .. MaxRetries : Backoffs[n] \in Nat
  BY <1>1, <1>2, <1>6, <1>7, SumTyped
<1>. QED BY <1>6, <1>8

(* BackoffsGrow. The pauses so far are at most those of all the retries.   *)
LEMMA BackoffsGrow == \A n \in 0 .. MaxRetries : Backoffs[n] <= BackoffSum
<1>. DEFINE Bad == {k \in 0 .. MaxRetries : ~(Backoffs[MaxRetries - k] <= Backoffs[MaxRetries])}
<1>0. MaxRetries \in Nat
  BY PoolNumbers
<1>1. ASSUME Bad # {} PROVE FALSE
  <2>1. PICK k \in Bad : \A x \in Bad : k <= x
    <3>1. Bad \in SUBSET Nat
      OBVIOUS
    <3>. QED BY <1>1, <3>1, SmallestIn
  <2>2. k \in 0 .. MaxRetries /\ ~(Backoffs[MaxRetries - k] <= Backoffs[MaxRetries])
    BY <2>1
  <2>3. k # 0
    <3>1. Backoffs[MaxRetries] \in Nat
      BY <1>0, BackoffsIs
    <3>2. MaxRetries - 0 = MaxRetries
      BY <1>0
    <3>. QED BY <2>2, <3>1, <3>2
  <2>4. k - 1 \in 0 .. MaxRetries /\ ~(k <= k - 1)
    BY <1>0, <2>2, <2>3
  <2>5. k - 1 \notin Bad
    <3>. HIDE DEF Bad
    <3>. QED BY <2>1, <2>4
  <2>6. Backoffs[MaxRetries - (k - 1)] <= Backoffs[MaxRetries]
    BY <2>4, <2>5
  <2>. PICK m \in 1 .. MaxRetries : m = MaxRetries - (k - 1) /\ m - 1 = MaxRetries - k
    <3>1. /\ MaxRetries - (k - 1) \in 1 .. MaxRetries
          /\ (MaxRetries - (k - 1)) - 1 = MaxRetries - k
      BY <1>0, <2>2, <2>3
    <3>. QED BY <3>1
  <2>7. /\ Backoffs[m] = Backoffs[m - 1] + BackoffDelay(m - 1) /\ BackoffDelay(m - 1) \in Nat
        /\ Backoffs[m - 1] \in Nat /\ Backoffs[MaxRetries] \in Nat
    <3>1. m - 1 \in 0 .. MaxRetries /\ m - 1 \in Nat /\ MaxRetries \in 0 .. MaxRetries
      BY <1>0
    <3>. QED BY <3>1, BackoffsIs, PauseIs
  <2>8. Backoffs[m] <= Backoffs[MaxRetries] /\ ~(Backoffs[m - 1] <= Backoffs[MaxRetries])
    BY <2>2, <2>6
  <2>. QED BY <2>7, <2>8
<1>2. ASSUME NEW n \in 0 .. MaxRetries PROVE Backoffs[n] <= Backoffs[MaxRetries]
  <2>1. MaxRetries - n \in 0 .. MaxRetries /\ MaxRetries - (MaxRetries - n) = n
    BY <1>0
  <2>2. MaxRetries - n \notin Bad
    BY <1>1
  <2>. QED BY <2>1, <2>2
<1>. QED BY <1>2 DEF BackoffSum

(* ModIs. What is left of a multiple and less than the divisor.            *)
LEMMA ModIs ==
  ASSUME NEW e \in Nat, e >= 1, NEW d \in Nat, NEW p \in 0 .. e - 1
  PROVE  (e * d + p) % e = p
<1>. DEFINE x == e * d + p
            q == x \div e
            r == x % e
<1>1. e * d \in Nat /\ x \in Nat
  OBVIOUS
<1>2. q \in Nat /\ r \in 0 .. e - 1 /\ x = e * q + r
  <2>. HIDE DEF x
  <2>. QED BY <1>1
<1>. HIDE DEF q, r
<1>3. CASE q = d
  BY <1>1, <1>2, <1>3 DEF r
<1>4. CASE q > d
  <2>1. PICK j \in Nat : q = d + 1 + j
    <3>1. q - d - 1 \in Nat /\ q = d + 1 + (q - d - 1)
      BY <1>2, <1>4
    <3>. QED BY <3>1
  <2>2. e * q = e * d + e + e * j /\ e * j \in Nat
    BY <2>1
  <2>. QED BY <1>1, <1>2, <2>2
<1>5. CASE q < d
  <2>1. PICK j \in Nat : d = q + 1 + j
    <3>1. d - q - 1 \in Nat /\ d = q + 1 + (d - q - 1)
      BY <1>2, <1>5
    <3>. QED BY <3>1
  <2>2. e * d = e * q + e + e * j /\ e * j \in Nat
    BY <1>2, <2>1
  <2>3. e * q \in Nat
    BY <1>2
  <2>. QED BY <1>1, <1>2, <2>2, <2>3
<1>. QED BY <1>2, <1>3, <1>4, <1>5

(* RingWalked. From any place, as many steps as there are endpoints pass   *)
(* them all.                                                               *)
LEMMA RingWalked ==
  ASSUME NEW s \in Nat, NEW p \in Ring
  PROVE  \E k \in 0 .. Endpoints - 1 : (s + k) % Endpoints = p
<1>1. PICK e \in Nat : e = Endpoints /\ e >= 1
  BY PoolNumbers
<1>2. PICK d \in Nat, q \in 0 .. e - 1 : s = e * d + q
  <2>1. s \div e \in Nat /\ s % e \in 0 .. e - 1 /\ s = e * (s \div e) + (s % e)
    BY <1>1
  <2>. QED BY <2>1
<1>3. p \in 0 .. e - 1
  BY <1>1 DEF Ring
<1>4. e * d \in Nat
  BY <1>1
<1>5. CASE p >= q
  <2>1. p - q \in 0 .. e - 1 /\ s + (p - q) = e * d + p
    BY <1>2, <1>3, <1>4, <1>5
  <2>2. (e * d + p) % e = p
    BY <1>1, <1>3, ModIs
  <2>3. (s + (p - q)) % e = p
    BY <2>1, <2>2
  <2>. QED BY <1>1, <2>1, <2>3
<1>6. CASE p < q
  <2>1. e * (d + 1) = e * d + e /\ d + 1 \in Nat
    BY <1>1
  <2>2. p - q + e \in 0 .. e - 1 /\ s + (p - q + e) = e * (d + 1) + p
    BY <1>1, <1>2, <1>3, <1>4, <1>6, <2>1
  <2>3. (e * (d + 1) + p) % e = p
    BY <1>1, <1>3, <2>1, ModIs
  <2>4. (s + (p - q + e)) % e = p
    BY <2>2, <2>3
  <2>. QED BY <1>1, <2>2, <2>4
<1>. QED BY <1>2, <1>3, <1>5, <1>6

-----------------------------------------------------------------------------
(* What a call of n requests an attempt may spend at one endpoint, and     *)
(* what it has spent so far at most, with tried endpoints left and this    *)
(* many attempts at this one.                                              *)
PerEndpoint(n) == AttemptTime(n) * (MaxRetries + 1) + BackoffSum

SpentAtMost(n, tried, attempt) ==
  PerEndpoint(n) * tried + (AttemptTime(n) * attempt + Backoffs[attempt])

WalkFields ==
  [at : {"idle", "asking", "ok", "named", "failed"},
   start : 0 .. MaxRotations, tried : 0 .. Endpoints,
   attempt : 0 .. MaxRetries, lag : 0 .. LagRetries,
   asked : SUBSET Ring, named : BOOLEAN, requests : {1, 2}, spent : Nat]

(* A walk has asked every endpoint it passed, and keeps its budget.        *)
WalkSound(w) ==
  /\ w \in WalkFields
  /\ w.at = "asking" =>
       /\ w.tried < Endpoints /\ w.spent <= SpentAtMost(w.requests, w.tried, w.attempt)
       /\ \A k \in 0 .. w.tried - 1 : (w.start + k) % Endpoints \in w.asked
  /\ w.spent <= WalkBudget(w.requests)
  /\ w.at \in {"named", "failed"} => w.asked = Ring

PoolInv ==
  /\ current \in 0 .. MaxRotations
  /\ walk \in [PoolCalls -> WalkFields]
  /\ \A c \in PoolCalls : WalkSound(walk[c])

(* AttemptTimeIs. What an attempt takes at most is a number.               *)
LEMMA AttemptTimeIs == \A n \in {1, 2} : AttemptTime(n) \in Nat
BY PoolNumbers DEF AttemptTime

(* PoolBudgetIs. One more attempt at an endpoint, and the next endpoint.       *)
LEMMA PoolBudgetIs ==
  ASSUME NEW n \in {1, 2}, NEW tried \in Nat, tried < Endpoints, NEW attempt \in 0 .. MaxRetries
  PROVE  /\ SpentAtMost(n, tried, attempt) \in Nat /\ WalkBudget(n) \in Nat
         /\ SpentAtMost(n, tried, attempt) + AttemptTime(n) <= SpentAtMost(n, tried + 1, 0)
         /\ SpentAtMost(n, tried + 1, 0) \in Nat
         /\ SpentAtMost(n, tried + 1, 0) <= WalkBudget(n)
         /\ attempt < MaxRetries =>
              SpentAtMost(n, tried, attempt + 1)
                = SpentAtMost(n, tried, attempt) + AttemptTime(n) + BackoffDelay(attempt)
<1>0. AttemptTime(n) \in Nat
  BY AttemptTimeIs
<1>1. PICK e \in Nat, t \in Nat, m \in Nat :
        e = Endpoints /\ t = AttemptTime(n) /\ m = MaxRetries /\ e >= 1 /\ attempt \in 0 .. m
  BY <1>0, PoolNumbers
<1>2. PICK a \in Nat, b \in Nat :
        a = Backoffs[attempt] /\ b = BackoffSum /\ a <= b /\ b = Backoffs[m] /\ Backoffs[0] = 0
  <2>1. m \in 0 .. MaxRetries
    BY <1>1
  <2>2. Backoffs[attempt] \in Nat /\ Backoffs[m] \in Nat /\ BackoffSum = Backoffs[m]
    BY <1>1, <2>1, BackoffsIs DEF BackoffSum
  <2>. QED BY <2>2, BackoffsIs, BackoffsGrow
<1>3. PICK x \in Nat : x = t * attempt
  BY <1>1
<1>4. PICK y \in Nat : y = t * (m + 1) /\ x + t <= y
  <2>1. PICK j \in Nat : m + 1 = attempt + 1 + j
    <3>1. m - attempt \in Nat /\ m + 1 = attempt + 1 + (m - attempt)
      BY <1>1
    <3>. QED BY <3>1
  <2>2. t * (m + 1) = t * attempt + t + t * j /\ t * j \in Nat
    <3>1. t * (attempt + 1 + j) = t * attempt + t + t * j /\ t * j \in Nat
      BY <1>1
    <3>. QED BY <2>1, <3>1
  <2>. QED BY <1>1, <1>3, <2>2
<1>5. PICK w \in Nat : w = PerEndpoint(n) /\ w = y + b
  BY <1>1, <1>2, <1>4 DEF PerEndpoint
<1>6. PICK z \in Nat : z = w * tried /\ w * (tried + 1) = z + w
  <2>1. w * tried \in Nat /\ w * (tried + 1) = w * tried + w
    OBVIOUS
  <2>. QED BY <2>1
<1>7. PICK u \in Nat : u = w * e /\ z + w <= u
  <2>1. PICK j \in Nat : e = tried + 1 + j
    <3>1. e - tried - 1 \in Nat /\ e = tried + 1 + (e - tried - 1)
      BY <1>1
    <3>. QED BY <3>1
  <2>2. w * e = w * tried + w + w * j /\ w * j \in Nat
    <3>1. w * (tried + 1 + j) = w * tried + w + w * j /\ w * j \in Nat
      OBVIOUS
    <3>. QED BY <2>1, <3>1
  <2>. QED BY <1>6, <2>2
<1>8. SpentAtMost(n, tried, attempt) = z + (x + a)
  BY <1>1, <1>2, <1>3, <1>5, <1>6 DEF SpentAtMost
<1>9. SpentAtMost(n, tried + 1, 0) = z + w
  <2>1. t * 0 = 0
    BY <1>1
  <2>2. SpentAtMost(n, tried + 1, 0) = w * (tried + 1) + (t * 0 + Backoffs[0])
    BY <1>1, <1>5 DEF SpentAtMost
  <2>. QED BY <1>2, <1>6, <2>1, <2>2
<1>10. WalkBudget(n) = u
  <2>1. WalkBudget(n) = w * e
    BY <1>1, <1>5 DEF WalkBudget, PerEndpoint
  <2>. QED BY <1>7, <2>1
<1>11. ASSUME attempt < MaxRetries
       PROVE  SpentAtMost(n, tried, attempt + 1)
                = SpentAtMost(n, tried, attempt) + AttemptTime(n) + BackoffDelay(attempt)
  <2>1. attempt + 1 \in 1 .. MaxRetries /\ (attempt + 1) - 1 = attempt /\ attempt \in Nat
    BY <1>1, <1>11
  <2>2. PICK d \in Nat : d = BackoffDelay(attempt)
    BY <2>1, PauseIs
  <2>3. Backoffs[attempt + 1] = a + d
    BY <1>2, <2>1, <2>2, BackoffsIs
  <2>4. t * (attempt + 1) = x + t
    BY <1>1, <1>3
  <2>5. SpentAtMost(n, tried, attempt + 1) = w * tried + (t * (attempt + 1) + Backoffs[attempt + 1])
    BY <1>1, <1>5 DEF SpentAtMost
  <2>6. SpentAtMost(n, tried, attempt + 1) = z + ((x + t) + (a + d))
    BY <1>6, <2>3, <2>4, <2>5
  <2>. QED BY <1>1, <1>8, <2>2, <2>6
<1>12. z + (x + a) + t <= z + w
  <2>1. x + t <= y
    BY <1>4
  <2>2. w = y + b
    BY <1>5
  <2>3. a <= b
    BY <1>2
  <2>. QED BY <2>1, <2>2, <2>3
<1>. QED BY <1>1, <1>7, <1>8, <1>9, <1>10, <1>11, <1>12

(* PoolHolds. What the invariant says of types, the ring and the budget.   *)
LEMMA PoolHolds == PoolInv => PoolTypeOK /\ WalksTheWholeRing /\ WalkWithinBudget
<1>1. WalkBudget(1) = WorstCaseWalk
  <2>1. RequestTimeout * 1 = RequestTimeout
    BY PoolNumbers
  <2>. QED BY <2>1 DEF WalkBudget, AttemptTime, WorstCaseWalk
<1>. QED
  BY <1>1 DEF PoolInv, PoolTypeOK, WalkFields, WalkSound, WalksTheWholeRing, WalkWithinBudget

(* IdleSound. A call that is not under way.                                *)
LEMMA IdleSound ==
  /\ WalkSound(Idle)
  /\ \A s \in 0 .. MaxRotations, n \in {1, 2} :
       WalkSound([Idle EXCEPT !.at = "asking", !.start = s, !.requests = n])
<1>1. 0 < Endpoints /\ 0 \in Nat /\ 0 \in 0 .. MaxRetries /\ 0 \in 0 .. MaxRotations
      /\ 0 \in 0 .. Endpoints /\ 0 \in 0 .. LagRetries
  BY PoolNumbers DEF LagRetries
<1>2. \A n \in {1, 2} : SpentAtMost(n, 0, 0) \in Nat /\ WalkBudget(n) \in Nat
  BY <1>1, PoolBudgetIs
<1>3. WalkSound(Idle)
  BY <1>1, <1>2 DEF WalkSound, Idle, WalkFields
<1>4. ASSUME NEW s \in 0 .. MaxRotations, NEW n \in {1, 2}
      PROVE  WalkSound([Idle EXCEPT !.at = "asking", !.start = s, !.requests = n])
  <2>. DEFINE w == [Idle EXCEPT !.at = "asking", !.start = s, !.requests = n]
  <2>1. /\ w \in WalkFields /\ w.at = "asking" /\ w.tried = 0 /\ w.spent = 0 /\ w.attempt = 0
        /\ w.requests = n
    BY <1>1 DEF Idle, WalkFields
  <2>. HIDE DEF w
  <2>2. \A k \in 0 .. w.tried - 1 : (w.start + k) % Endpoints \in w.asked
    BY <2>1
  <2>3. WalkSound(w)
    BY <1>1, <1>2, <2>1, <2>2 DEF WalkSound
  <2>. QED BY <2>3 DEF w
<1>. QED BY <1>3, <1>4

(* OneWalk. A step of one call, given what it makes of that call.          *)
LEMMA OneWalk ==
  ASSUME PoolInv, NEW c \in PoolCalls, NEW w, WalkSound(w), walk' = [walk EXCEPT ![c] = w],
         current' \in 0 .. MaxRotations
  PROVE  PoolInv'
BY DEF PoolInv, WalkSound

(* AskedIs. The endpoint is asked.                                         *)
LEMMA AskedIs ==
  ASSUME PoolInv, NEW c \in PoolCalls, NEW took \in Nat, took <= AttemptTime(walk[c].requests)
  PROVE  /\ Position(c) \in Ring
         /\ Asked(c, took) \in WalkFields
         /\ Asked(c, took).at = walk[c].at /\ Asked(c, took).start = walk[c].start
         /\ Asked(c, took).tried = walk[c].tried /\ Asked(c, took).attempt = walk[c].attempt
         /\ Asked(c, took).lag = walk[c].lag /\ Asked(c, took).named = walk[c].named
         /\ Asked(c, took).requests = walk[c].requests
         /\ Asked(c, took).asked = walk[c].asked \cup {Position(c)}
         /\ Asked(c, took).spent = walk[c].spent + took
<1>1. walk[c] \in WalkFields /\ took \in Nat
  BY PoolNumbers DEF PoolInv
<1>2. Position(c) \in Ring
  <2>1. PICK x \in Nat : x = walk[c].start + walk[c].tried
    BY <1>1, PoolNumbers DEF WalkFields
  <2>2. x % Endpoints \in 0 .. Endpoints - 1
    BY PoolNumbers
  <2>. QED BY <2>1, <2>2 DEF Position, Ring
<1>3. PICK v, A, x : /\ v = walk[c] /\ A = walk[c].asked \cup {Position(c)}
                    /\ x = walk[c].spent + took
  OBVIOUS
<1>4. A \in SUBSET Ring /\ x \in Nat /\ v \in WalkFields
  BY <1>1, <1>2, <1>3 DEF WalkFields
<1>5. Asked(c, took) = [v EXCEPT !.asked = A, !.spent = x]
  BY <1>3 DEF Asked
<1>6. /\ Asked(c, took) \in WalkFields
      /\ Asked(c, took).at = v.at /\ Asked(c, took).start = v.start
      /\ Asked(c, took).tried = v.tried /\ Asked(c, took).attempt = v.attempt
      /\ Asked(c, took).requests = v.requests
      /\ Asked(c, took).lag = v.lag /\ Asked(c, took).asked = A /\ Asked(c, took).spent = x
  BY <1>4, <1>5 DEF WalkFields
<1>7. Asked(c, took).named = v.named
  BY <1>4, <1>5 DEF WalkFields
<1>. QED BY <1>2, <1>3, <1>6, <1>7

(* AnsweredKeeps. The endpoint answers.                                    *)
LEMMA AnsweredKeeps ==
  ASSUME PoolInv, NEW c \in PoolCalls, NEW took \in Nat, took <= AttemptTime(walk[c].requests),
         walk[c].at = "asking", Answered(c, took)
  PROVE  PoolInv'
<1>. DEFINE a == Asked(c, took)
            w == [a EXCEPT !.at = "ok"]
<1>1. a \in WalkFields /\ a.spent = walk[c].spent + took /\ a.requests = walk[c].requests
  BY AskedIs
<1>2. walk' = [walk EXCEPT ![c] = w] /\ current' = current
  BY DEF Answered
<1>3. w.spent <= WalkBudget(w.requests)
  <2>1. PICK n \in {1, 2}, t \in Nat, m \in 0 .. MaxRetries, s \in Nat, r \in Nat :
          /\ n = walk[c].requests /\ t = walk[c].tried /\ m = walk[c].attempt /\ s = walk[c].spent /\ t < Endpoints
          /\ s <= SpentAtMost(n, t, m) /\ r = AttemptTime(n) /\ took <= r /\ took \in Nat
    BY PoolNumbers, AttemptTimeIs DEF PoolInv, WalkSound, WalkFields
  <2>2. /\ SpentAtMost(n, t, m) \in Nat /\ WalkBudget(n) \in Nat /\ SpentAtMost(n, t + 1, 0) \in Nat
        /\ SpentAtMost(n, t, m) + AttemptTime(n) <= SpentAtMost(n, t + 1, 0)
        /\ SpentAtMost(n, t + 1, 0) <= WalkBudget(n)
    BY <2>1, PoolBudgetIs
  <2>3. s + took <= WalkBudget(n)
    BY <2>1, <2>2
  <2>4. w.spent = s + took /\ w.requests = n
    <3>. HIDE DEF a
    <3>. QED BY <1>1, <2>1 DEF WalkFields
  <2>. QED BY <2>3, <2>4
<1>. HIDE DEF a
<1>4. WalkSound(w)
  <2>1. w \in WalkFields /\ w.at = "ok"
    BY <1>1 DEF WalkFields
  <2>. QED BY <1>3, <2>1 DEF WalkSound
<1>. HIDE DEF w
<1>. QED BY <1>2, <1>4, OneWalk DEF PoolInv

(* RetryKeeps. The endpoint is asked again, after a pause no longer than   *)
(* the schedule's.                                                         *)
LEMMA RetryKeeps ==
  ASSUME PoolInv, NEW c \in PoolCalls, NEW took \in Nat, took <= AttemptTime(walk[c].requests),
         walk[c].at = "asking", walk[c].attempt < MaxRetries, current' = current,
         NEW lag \in 0 .. LagRetries, NEW pause \in 1 .. BackoffDelay(walk[c].attempt),
         NEW w, walk' = [walk EXCEPT ![c] = w],
         w = [Asked(c, took) EXCEPT !.lag = lag, !.attempt = walk[c].attempt + 1,
                                    !.spent = walk[c].spent + took + pause]
  PROVE  PoolInv'
<1>. DEFINE a == Asked(c, took)
<1>1. /\ a \in WalkFields /\ a.at = "asking" /\ a.start = walk[c].start /\ a.tried = walk[c].tried
      /\ a.requests = walk[c].requests /\ a.asked = walk[c].asked \cup {Position(c)}
  BY AskedIs
<1>2. PICK n \in {1, 2}, t \in Nat, m \in 0 .. MaxRetries, s \in Nat, r \in Nat :
        /\ n = walk[c].requests /\ t = walk[c].tried /\ m = walk[c].attempt /\ s = walk[c].spent /\ t < Endpoints
        /\ s <= SpentAtMost(n, t, m) /\ r = AttemptTime(n) /\ took <= r /\ took \in Nat
  BY PoolNumbers, AttemptTimeIs DEF PoolInv, WalkSound, WalkFields
<1>3. m < MaxRetries /\ m + 1 \in 0 .. MaxRetries
  BY <1>2, PoolNumbers
<1>4. PICK d \in Nat : d = BackoffDelay(m) /\ pause <= d /\ pause \in Nat
  BY <1>2, PauseIs
<1>5. w = [a EXCEPT !.lag = lag, !.attempt = m + 1, !.spent = s + took + pause]
  BY <1>2
<1>. HIDE DEF a
<1>6. /\ w \in WalkFields /\ w.at = "asking" /\ w.start = walk[c].start /\ w.tried = t
      /\ w.asked = walk[c].asked \cup {Position(c)} /\ w.attempt = m + 1
      /\ w.spent = s + took + pause /\ w.requests = n
  <2>1. s + took + pause \in Nat
    BY <1>2, <1>4
  <2>. QED BY <1>1, <1>2, <1>3, <1>5, <2>1 DEF WalkFields
<1>7. /\ SpentAtMost(n, t, m) \in Nat /\ WalkBudget(n) \in Nat
      /\ SpentAtMost(n, t, m + 1) = SpentAtMost(n, t, m) + AttemptTime(n) + BackoffDelay(m)
  BY <1>2, <1>3, PoolBudgetIs
<1>8. s + took + pause <= SpentAtMost(n, t, m + 1) /\ SpentAtMost(n, t, m + 1) \in Nat
  BY <1>2, <1>4, <1>7
<1>9. SpentAtMost(n, t, m + 1) <= WalkBudget(n)
  <2>1. /\ SpentAtMost(n, t, m + 1) + AttemptTime(n) <= SpentAtMost(n, t + 1, 0)
        /\ SpentAtMost(n, t + 1, 0) \in Nat /\ SpentAtMost(n, t + 1, 0) <= WalkBudget(n)
    BY <1>2, <1>3, PoolBudgetIs
  <2>. QED BY <1>2, <1>7, <1>8, <2>1
<1>10. \A k \in 0 .. w.tried - 1 : (w.start + k) % Endpoints \in w.asked
  <2>1. \A k \in 0 .. walk[c].tried - 1 : (walk[c].start + k) % Endpoints \in walk[c].asked
    BY DEF PoolInv, WalkSound
  <2>. QED BY <1>2, <1>6, <2>1
<1>11. s + took + pause <= WalkBudget(n)
  BY <1>2, <1>4, <1>7, <1>8, <1>9
<1>12. WalkSound(w)
  BY <1>2, <1>6, <1>8, <1>10, <1>11 DEF WalkSound
<1>. QED BY <1>12, OneWalk DEF PoolInv

(* LeavesKeeps. The endpoint is given up: the next one, or the end.        *)
LEMMA LeavesKeeps ==
  ASSUME PoolInv, NEW c \in PoolCalls, NEW took \in Nat, took <= AttemptTime(walk[c].requests),
         walk[c].at = "asking", NEW refused \in BOOLEAN, LeavesEndpoint(c, took, refused)
  PROVE  PoolInv'
<1>. DEFINE a == Asked(c, took)
<1>0. PICK named \in BOOLEAN : named = Named(c, refused)
  BY Zenon DEF Named
<1>. DEFINE w == [a EXCEPT !.tried = a.tried + 1, !.attempt = 0, !.lag = 0, !.named = named]
<1>1. /\ a \in WalkFields /\ a.at = "asking" /\ a.start = walk[c].start /\ a.tried = walk[c].tried
      /\ a.requests = walk[c].requests /\ a.asked = walk[c].asked \cup {Position(c)} /\ a.spent = walk[c].spent + took
      /\ Position(c) \in Ring
  BY AskedIs
<1>2a. PICK b \in Nat : b = walk[c].start
  BY PoolNumbers DEF PoolInv, WalkFields
<1>2. PICK n \in {1, 2}, t \in Nat, m \in 0 .. MaxRetries, s \in Nat, r \in Nat :
        /\ n = walk[c].requests /\ t = walk[c].tried /\ m = walk[c].attempt /\ s = walk[c].spent /\ t < Endpoints
        /\ s <= SpentAtMost(n, t, m) /\ r = AttemptTime(n) /\ took <= r /\ took \in Nat
  BY PoolNumbers, AttemptTimeIs DEF PoolInv, WalkSound, WalkFields
<1>3. \/ /\ w.tried >= Endpoints /\ current' = current
         /\ \E at \in {"named", "failed"} : walk' = [walk EXCEPT ![c] = [w EXCEPT !.at = at]]
      \/ /\ ~(w.tried >= Endpoints) /\ walk' = [walk EXCEPT ![c] = w]
         /\ current < MaxRotations /\ current' = current + 1
  BY <1>0 DEF LeavesEndpoint
<1>. HIDE DEF a
<1>4. /\ w \in WalkFields /\ w.at = "asking" /\ w.start = b /\ w.tried = t + 1
      /\ w.asked = walk[c].asked \cup {Position(c)} /\ w.attempt = 0 /\ w.spent = s + took
      /\ w.requests = n
  <2>1. t + 1 \in 0 .. Endpoints /\ 0 \in 0 .. MaxRetries /\ 0 \in 0 .. LagRetries
    BY <1>2, PoolNumbers DEF LagRetries
  <2>2. w = [a EXCEPT !.tried = t + 1, !.attempt = 0, !.lag = 0, !.named = named]
    BY <1>1, <1>2
  <2>. HIDE DEF w
  <2>. QED BY <1>1, <1>2, <1>2a, <2>1, <2>2 DEF WalkFields
<1>. HIDE DEF w
<1>5. /\ s + took <= SpentAtMost(n, t + 1, 0) /\ s + took <= WalkBudget(n)
  <2>1. /\ SpentAtMost(n, t, m) \in Nat /\ WalkBudget(n) \in Nat /\ SpentAtMost(n, t + 1, 0) \in Nat
        /\ SpentAtMost(n, t, m) + AttemptTime(n) <= SpentAtMost(n, t + 1, 0)
        /\ SpentAtMost(n, t + 1, 0) <= WalkBudget(n)
    BY <1>2, PoolBudgetIs
  <2>. QED BY <1>2, <2>1
<1>6. \A k \in 0 .. t : (b + k) % Endpoints \in w.asked
  <2>1. \A k \in 0 .. t - 1 : (b + k) % Endpoints \in walk[c].asked
    BY <1>2, <1>2a DEF PoolInv, WalkSound
  <2>2. (b + t) % Endpoints = Position(c)
    BY <1>2, <1>2a DEF Position
  <2>3. ASSUME NEW k \in 0 .. t PROVE (b + k) % Endpoints \in w.asked
    <3>1. CASE k = t
      BY <1>4, <2>2, <3>1
    <3>2. CASE k \in 0 .. t - 1
      BY <1>4, <2>1, <3>2
    <3>. QED BY <1>2, <3>1, <3>2
  <2>. QED BY <2>3
<1>7. CASE ~(w.tried >= Endpoints) /\ walk' = [walk EXCEPT ![c] = w]
           /\ current < MaxRotations /\ current' = current + 1
  <2>1. w.tried < Endpoints
    BY <1>2, <1>4, <1>7, PoolNumbers
  <2>2. \A k \in 0 .. w.tried - 1 : (w.start + k) % Endpoints \in w.asked
    <3>1. \A k \in 0 .. w.tried - 1 : k \in 0 .. t
      BY <1>2, <1>4
    <3>. QED BY <1>4, <1>6, <3>1
  <2>3. WalkSound(w)
    BY <1>4, <1>5, <2>1, <2>2 DEF WalkSound
  <2>4. current' \in 0 .. MaxRotations
    BY <1>7, PoolNumbers DEF PoolInv
  <2>. QED BY <1>7, <2>3, <2>4, OneWalk
<1>8. CASE /\ w.tried >= Endpoints /\ current' = current
           /\ \E at \in {"named", "failed"} : walk' = [walk EXCEPT ![c] = [w EXCEPT !.at = at]]
  <2>1. PICK at \in {"named", "failed"} : walk' = [walk EXCEPT ![c] = [w EXCEPT !.at = at]]
    BY <1>8
  <2>. DEFINE z == [w EXCEPT !.at = at]
  <2>2. z \in WalkFields /\ z.at = at /\ z.asked = w.asked /\ z.spent = w.spent
        /\ z.requests = w.requests
    BY <1>4 DEF WalkFields
  <2>3. t = Endpoints - 1
    BY <1>2, <1>4, <1>8, PoolNumbers
  <2>4. w.asked = Ring
    <3>1. w.asked \subseteq Ring
      BY <1>4 DEF WalkFields
    <3>2. ASSUME NEW p \in Ring PROVE p \in w.asked
      <4>1. PICK k \in 0 .. Endpoints - 1 : (b + k) % Endpoints = p
        BY <1>2, RingWalked
      <4>. QED BY <1>6, <2>3, <4>1
    <3>. QED BY <3>1, <3>2
  <2>. HIDE DEF z
  <2>5. WalkSound(z)
    BY <1>4, <1>5, <2>2, <2>4 DEF WalkSound
  <2>6. current' \in 0 .. MaxRotations
    BY <1>8 DEF PoolInv
  <2>. QED BY <2>1, <2>5, <2>6, OneWalk DEF z
<1>. QED BY <1>3, <1>7, <1>8

(* AskTakes. An attempt takes no longer than its requests may.             *)
LEMMA AskTakes ==
  ASSUME PoolInv, NEW c \in PoolCalls, Ask(c)
  PROVE  \E took \in Nat :
           /\ took <= AttemptTime(walk[c].requests)
           /\ \/ Answered(c, took)
              \/ AsksLagging(c, took)
              \/ RetriesEndpoint(c, took)
              \/ \E refused \in BOOLEAN : LeavesEndpoint(c, took, refused)
<1>1. AttemptTime(walk[c].requests) \in Nat
  BY AttemptTimeIs DEF PoolInv, WalkFields
<1>. QED BY <1>1 DEF Ask

(* PoolStepKeeps. Every step of every call keeps the invariant.            *)
LEMMA PoolStepKeeps == PoolInv /\ [PoolNext]_poolVars => PoolInv'
<1>. SUFFICES ASSUME PoolInv, [PoolNext]_poolVars PROVE PoolInv'
  OBVIOUS
<1>1. CASE UNCHANGED poolVars
  BY <1>1 DEF PoolInv, poolVars
<1>2. ASSUME NEW c \in PoolCalls, StartCall(c) PROVE PoolInv'
  <2>1. PICK n \in {1, 2} :
          walk' = [walk EXCEPT ![c] = [Idle EXCEPT !.at = "asking", !.start = current,
                                                   !.requests = n]]
    BY <1>2 DEF StartCall
  <2>2. WalkSound([Idle EXCEPT !.at = "asking", !.start = current, !.requests = n])
    BY IdleSound DEF PoolInv
  <2>. QED BY <1>2, <2>1, <2>2, OneWalk DEF StartCall, PoolInv
<1>3. ASSUME NEW c \in PoolCalls, CallReturns(c) PROVE PoolInv'
  BY <1>3, IdleSound, OneWalk DEF CallReturns, PoolInv
<1>4. ASSUME NEW c \in PoolCalls, Ask(c) PROVE PoolInv'
  <2>1. PICK took \in Nat :
          /\ took <= AttemptTime(walk[c].requests)
          /\ \/ Answered(c, took)
             \/ AsksLagging(c, took)
             \/ RetriesEndpoint(c, took)
             \/ \E refused \in BOOLEAN : LeavesEndpoint(c, took, refused)
    BY <1>4, AskTakes
  <2>2. walk[c].at = "asking"
    BY <1>4 DEF Ask
  <2>3. /\ Asked(c, took).lag = walk[c].lag /\ Asked(c, took).attempt = walk[c].attempt
        /\ Asked(c, took).spent = walk[c].spent + took
    BY <2>1, AskedIs
  <2>4. walk[c].lag \in 0 .. LagRetries /\ walk[c].attempt \in 0 .. MaxRetries
        /\ walk[c].spent \in Nat /\ took \in Nat
    BY PoolNumbers DEF PoolInv, WalkFields
  <2>5. PICK d \in Nat \ {0} : d = BackoffDelay(walk[c].attempt)
    BY <2>4, PauseIs
  <2>6. CASE AsksLagging(c, took)
    <3>. DEFINE w == [Asked(c, took) EXCEPT !.lag = @ + 1, !.attempt = @ + 1, !.spent = @ + 1]
    <3>1. /\ walk' = [walk EXCEPT ![c] = w] /\ current' = current
          /\ walk[c].lag < LagRetries /\ walk[c].attempt < MaxRetries
      BY <2>6 DEF AsksLagging
    <3>2. w = [Asked(c, took) EXCEPT !.lag = walk[c].lag + 1, !.attempt = walk[c].attempt + 1,
                                     !.spent = walk[c].spent + took + 1]
      BY <2>3
    <3>3. walk[c].lag + 1 \in 0 .. LagRetries
      BY <2>4, <3>1 DEF LagRetries
    <3>4. 1 \in 1 .. BackoffDelay(walk[c].attempt)
      BY <2>5
    <3>. HIDE DEF w
    <3>. QED BY <2>1, <2>2, <3>1, <3>2, <3>3, <3>4, RetryKeeps
  <2>7. CASE RetriesEndpoint(c, took)
    <3>. DEFINE w == [Asked(c, took) EXCEPT !.attempt = @ + 1,
                                            !.spent = @ + BackoffDelay(walk[c].attempt)]
    <3>1. /\ walk' = [walk EXCEPT ![c] = w] /\ current' = current
          /\ walk[c].attempt < MaxRetries
      BY <2>7 DEF RetriesEndpoint, MayRetry
    <3>2. w = [Asked(c, took) EXCEPT !.lag = walk[c].lag, !.attempt = walk[c].attempt + 1,
                 !.spent = walk[c].spent + took + BackoffDelay(walk[c].attempt)]
      <4>1. Asked(c, took) \in WalkFields
        BY <2>1, AskedIs
      <4>. QED BY <2>3, <4>1 DEF WalkFields
    <3>3. BackoffDelay(walk[c].attempt) \in 1 .. BackoffDelay(walk[c].attempt)
      BY <2>5
    <3>. HIDE DEF w
    <3>. QED BY <2>1, <2>2, <2>4, <3>1, <3>2, <3>3, RetryKeeps
  <2>. QED BY <2>1, <2>2, <2>6, <2>7, AnsweredKeeps, LeavesKeeps
<1>. QED BY <1>1, <1>2, <1>3, <1>4 DEF PoolNext

(* InitPoolInv. The invariant holds as dipper starts.                      *)
LEMMA InitPoolInv == PoolInit => PoolInv
<1>. SUFFICES ASSUME PoolInit PROVE PoolInv
  OBVIOUS
<1>1. WalkSound(Idle) /\ Idle \in WalkFields
  BY IdleSound DEF WalkSound
<1>. QED BY <1>1, PoolNumbers DEF PoolInit, PoolInv

(* RefusalKept. A call that met a contract's refusal does not end without  *)
(* it.                                                                     *)
LEMMA RefusalKept == PoolInv /\ [PoolNext]_poolVars => RefusalNamed
<1>. SUFFICES ASSUME PoolInv, [PoolNext]_poolVars, NEW c \in PoolCalls,
                     walk[c].named, walk[c].at = "asking"
              PROVE  walk'[c].at # "failed"
  BY DEF RefusalNamed
<1>0. walk[c] \in WalkFields /\ walk \in [PoolCalls -> WalkFields]
  BY DEF PoolInv
<1>1. CASE walk'[c] = walk[c]
  BY <1>1
<1>2. CASE UNCHANGED poolVars
  BY <1>1, <1>2 DEF poolVars
<1>3. ASSUME NEW q \in PoolCalls, StartCall(q) \/ CallReturns(q) PROVE walk'[c].at # "failed"
  <2>1. q # c
    BY <1>3 DEF StartCall, CallReturns
  <2>2. walk'[c] = walk[c]
    BY <1>0, <1>3, <2>1 DEF StartCall, CallReturns
  <2>. QED BY <1>1, <2>2
<1>4. ASSUME NEW q \in PoolCalls, Ask(q), q # c PROVE walk'[c].at # "failed"
  <2>1. walk'[c] = walk[c]
    BY <1>0, <1>4 DEF Ask, Answered, AsksLagging, RetriesEndpoint, LeavesEndpoint
  <2>. QED BY <1>1, <2>1
<1>5. ASSUME Ask(c) PROVE walk'[c].at # "failed"
  <2>1. PICK took \in Nat :
          /\ took <= AttemptTime(walk[c].requests)
          /\ \/ Answered(c, took)
             \/ AsksLagging(c, took)
             \/ RetriesEndpoint(c, took)
             \/ \E refused \in BOOLEAN : LeavesEndpoint(c, took, refused)
    BY <1>5, AskTakes
  <2>. PICK a : a = Asked(c, took)
    OBVIOUS
  <2>2. a \in WalkFields /\ a.at = "asking"
    BY <2>1, AskedIs
  <2>3. CASE Answered(c, took)
    <3>1. walk'[c] = [a EXCEPT !.at = "ok"]
      BY <1>0, <2>3 DEF Answered
    <3>. QED BY <2>2, <3>1 DEF WalkFields
  <2>4. CASE AsksLagging(c, took)
    <3>1. walk'[c] = [a EXCEPT !.lag = @ + 1, !.attempt = @ + 1, !.spent = @ + 1]
      BY <1>0, <2>4 DEF AsksLagging
    <3>. QED BY <2>2, <3>1 DEF WalkFields
  <2>5. CASE RetriesEndpoint(c, took)
    <3>1. walk'[c] = [a EXCEPT !.attempt = @ + 1, !.spent = @ + BackoffDelay(walk[c].attempt)]
      BY <1>0, <2>5 DEF RetriesEndpoint
    <3>. QED BY <2>2, <3>1 DEF WalkFields
  <2>6. ASSUME NEW refused \in BOOLEAN, LeavesEndpoint(c, took, refused)
        PROVE  walk'[c].at # "failed"
    <3>1. Named(c, refused)
      BY Zenon DEF Named
    <3>2. PICK named : named = Named(c, refused) /\ named
      BY <3>1, Zenon
    <3>3. PICK w : w = [a EXCEPT !.tried = a.tried + 1, !.attempt = 0, !.lag = 0, !.named = named]
      OBVIOUS
    <3>4. w.named /\ w.at = "asking" /\ DOMAIN w = DOMAIN a
      BY <2>2, <3>2, <3>3 DEF WalkFields
    <3>5. w.at = "asking"
      BY <3>4
    <3>6. \/ walk' = [walk EXCEPT ![c] = [w EXCEPT !.at = IF w.named THEN "named" ELSE "failed"]]
          \/ walk' = [walk EXCEPT ![c] = w]
      BY <2>6, <3>2, <3>3 DEF LeavesEndpoint
    <3>7. CASE walk' = [walk EXCEPT ![c] = w]
      BY <1>0, <3>5, <3>7
    <3>8. CASE walk' = [walk EXCEPT ![c] = [w EXCEPT !.at = IF w.named THEN "named" ELSE "failed"]]
      <4>1. (IF w.named THEN "named" ELSE "failed") = "named"
        BY <3>4, Zenon
      <4>2. walk'[c] = [w EXCEPT !.at = "named"]
        BY <1>0, <3>8, <4>1
      <4>3. walk'[c].at = "named"
        BY <2>2, <3>3, <4>2 DEF WalkFields
      <4>. QED BY <4>3
    <3>. QED BY <3>6, <3>7, <3>8
  <2>. QED BY <2>1, <2>3, <2>4, <2>5, <2>6
<1>. QED BY <1>2, <1>3, <1>4, <1>5 DEF PoolNext

-----------------------------------------------------------------------------
(* The newest block seen.                                                  *)

(* SeenNumbers. The constants, as numbers.                                 *)
LEMMA SeenNumbers ==
  /\ StartHead \in Nat /\ AgreeWithin \in Nat /\ WeekOfBlocks \in Nat /\ CheckEvery \in Nat
  /\ MaxTime \in Nat /\ AgreeWithin < StartHead
  /\ \E far \in Nat : /\ Max(AheadBy \cup {0}) = far
                      /\ \A d \in FaultyOffsets : d \in Int /\ -StartHead <= d /\ d <= far
<1>. USE SeenAssumption
<1>1. StartHead \in Nat /\ AgreeWithin \in Nat /\ MaxTime \in Nat
  OBVIOUS
<1>2. PICK n \in Nat : AheadBy \in SUBSET (0 .. n)
  BY FiniteBounded
<1>3. (AheadBy \cup {0}) \in SUBSET (0 .. n) /\ AheadBy \cup {0} # {}
  BY <1>2
<1>4. PICK far \in Nat : far = Max(AheadBy \cup {0}) /\ \A x \in AheadBy : x \in Nat /\ x <= far
  <2>1. Max(AheadBy \cup {0}) \in AheadBy \cup {0}
        /\ \A x \in AheadBy \cup {0} : x <= Max(AheadBy \cup {0})
    BY <1>3, LargestIn
  <2>. QED BY <2>1
<1>5. \A b \in BehindBy : b \in Nat /\ b <= StartHead
  BY <1>1
<1>6. ASSUME NEW d \in FaultyOffsets
      PROVE  d \in Int /\ -StartHead <= d /\ d <= far
  <2>1. CASE d \in AheadBy
    BY <1>1, <1>4, <2>1
  <2>2. CASE \E b \in BehindBy : d = -b
    BY <1>1, <1>5, <2>2
  <2>. QED BY <2>1, <2>2 DEF FaultyOffsets
<1>. QED BY <1>4, <1>6

(* The clock and the chain.                                                *)
ClockSound ==
  /\ time \in 0 .. MaxTime /\ head \in StartHead .. StartHead + time
  /\ offset \in FaultyOffsets

(* NodeAnswerIs. What a node may report.                                       *)
LEMMA NodeAnswerIs ==
  ASSUME ClockSound, NEW n \in Nodes, NEW b \in Latest(n)
  PROVE  /\ b \in Nat /\ b <= StartHead + MaxTime + Max(AheadBy \cup {0})
         /\ n # Faulty => head - AgreeWithin <= b /\ b <= head
         /\ n = Faulty => b = head + offset
<1>1. PICK far \in Nat : Max(AheadBy \cup {0}) = far /\ offset \in Int /\ -StartHead <= offset
                         /\ offset <= far
  BY SeenNumbers DEF ClockSound
<1>2. time \in Int /\ 0 <= time /\ time <= MaxTime /\ head \in Int
      /\ StartHead <= head /\ head <= StartHead + time
  BY SeenNumbers DEF ClockSound
<1>3. CASE n = Faulty
  <2>1. b = head + offset
    BY <1>3 DEF Latest
  <2>. QED BY <1>1, <1>2, <1>3, <2>1, SeenNumbers
<1>4. CASE n # Faulty
  <2>1. b \in head - AgreeWithin .. head
    BY <1>4 DEF Latest
  <2>. QED BY <1>1, <1>2, <1>4, <2>1, SeenNumbers
<1>. QED BY <1>3, <1>4

(* AgreedIs. What the nodes agree on is a block one of them reported, with *)
(* a right node among those that have reached it or are within a minute.   *)
LEMMA AgreedIs ==
  ASSUME ClockSound, NEW D \in SUBSET Nodes, NEW h, DOMAIN h = D,
         \A n \in D : h[n] \in Latest(n), AgreedHead(h) # NoBlock
  PROVE  \E n \in D : /\ AgreedHead(h) = h[n]
                      /\ \E m \in D : m # Faulty /\ h[m] <= h[n] /\ h[n] - h[m] <= AgreeWithin
<1>. DEFINE agree(b) == {n \in DOMAIN h : h[n] <= b /\ b - h[n] <= AgreeWithin}
            backed(n) == Cardinality(agree(h[n]))
            best == Max({backed(n) : n \in DOMAIN h} \cup {0})
            tops == {h[n] : n \in {m \in DOMAIN h : backed(m) = best}}
<1>1. AgreedHead(h) = IF best < 2 THEN NoBlock ELSE Max(tops)
  BY DEF AgreedHead
<1>2. AgreedHead(h) = Max(tops) /\ ~(best < 2)
  <2>. HIDE DEF best, tops
  <2>. QED BY <1>1
<1>3. IsFiniteSet(Nodes) /\ Cardinality(Nodes) \in Nat
  BY SeenAssumption, FS_CardinalityType
<1>4. \A b : IsFiniteSet(agree(b)) /\ Cardinality(agree(b)) \in 0 .. Cardinality(Nodes)
  <2>. SUFFICES ASSUME NEW b
                PROVE  IsFiniteSet(agree(b)) /\ Cardinality(agree(b)) \in 0 .. Cardinality(Nodes)
    OBVIOUS
  <2>1. agree(b) \in SUBSET Nodes
    OBVIOUS
  <2>. HIDE DEF agree
  <2>2. IsFiniteSet(agree(b)) /\ Cardinality(agree(b)) <= Cardinality(Nodes)
    BY <1>3, <2>1, FS_Subset
  <2>. QED BY <1>3, <2>2, FS_CardinalityType
<1>5. best \in {backed(n) : n \in DOMAIN h} \cup {0}
  <2>1. ({backed(n) : n \in DOMAIN h} \cup {0}) \in SUBSET (0 .. Cardinality(Nodes))
    <3>. HIDE DEF agree
    <3>. QED BY <1>3, <1>4
  <2>. DEFINE U == {backed(n) : n \in DOMAIN h} \cup {0}
  <2>2. U # {}
    OBVIOUS
  <2>. HIDE DEF U
  <2>. QED BY <1>3, <2>1, <2>2, LargestIn DEF U
<1>6. PICK k \in D : backed(k) = best
  <2>. HIDE DEF backed
  <2>1. best # 0
    <3>. HIDE DEF best
    <3>. QED BY <1>2
  <2>. QED BY <1>5, <2>1
<1>7. Max(tops) \in tops
  <2>1. PICK cap \in Nat : cap = StartHead + MaxTime + Max(AheadBy \cup {0})
    BY SeenNumbers
  <2>2. \A n \in D : h[n] \in 0 .. cap
    <3>1. \A n \in D : h[n] \in Nat /\ h[n] <= StartHead + MaxTime + Max(AheadBy \cup {0})
      BY NodeAnswerIs
    <3>2. ASSUME NEW n \in D PROVE h[n] \in 0 .. cap
      <4>1. h[n] \in Nat /\ h[n] <= cap
        BY <2>1, <3>1, Zenon
      <4>. QED BY <4>1
    <3>. QED BY <3>2
  <2>. HIDE DEF backed, best
  <2>3. tops \in SUBSET (0 .. cap)
    BY <2>2
  <2>4. h[k] \in tops
    BY <1>6
  <2>. HIDE DEF tops
  <2>. QED BY <2>1, <2>3, <2>4, LargestIn
<1>8. PICK n \in D : Max(tops) = h[n] /\ backed(n) = best
  <2>. HIDE DEF backed, best
  <2>. QED BY <1>7
<1>9. PICK m \in agree(h[n]) : m # Faulty
  <2>1. ASSUME \A m \in agree(h[n]) : m = Faulty PROVE FALSE
    <3>1. agree(h[n]) \in SUBSET {Faulty}
      <4>. HIDE DEF agree
      <4>. QED BY <2>1
    <3>2. IsFiniteSet({Faulty}) /\ Cardinality({Faulty}) = 1
      BY FS_Singleton
    <3>. HIDE DEF agree
    <3>3. Cardinality(agree(h[n])) <= 1
      BY <3>1, <3>2, FS_Subset
    <3>4. Cardinality(agree(h[n])) = best
      BY <1>8
    <3>5. Cardinality(agree(h[n])) \in Nat
      BY <1>4
    <3>. HIDE DEF best
    <3>. QED BY <1>2, <3>3, <3>4, <3>5
  <2>. QED BY <2>1
<1>10. m \in D /\ h[m] <= h[n] /\ h[n] - h[m] <= AgreeWithin
  BY <1>9
<1>. HIDE DEF tops, best, backed, agree
<1>. QED BY <1>2, <1>8, <1>9, <1>10

(* Known(b). A block the chain is known to have reached, but for a minute. *)
Known(b) ==
  /\ b \in Nat /\ head - AgreeWithin <= b
  /\ b <= head \/ (b = head + offset /\ offset <= AgreeWithin)

(* Reported(b). A block some node may report.                              *)
Reported(b) == b \in Nat /\ (b <= head \/ b = head + offset)

(* ChecksKnown. A cross check gives a block the chain is known to have.    *)
LEMMA ChecksKnown ==
  ASSUME ClockSound, NEW b \in CrossChecks, b # NoBlock
  PROVE  Known(b)
<1>1. PICK silent \in SUBSET Silent :
        \E h \in [Nodes \ silent -> UNION {Latest(n) : n \in Nodes}] :
          b = AgreedHead(h) /\ \A n \in Nodes \ silent : h[n] \in Latest(n)
  BY DEF CrossChecks
<1>2. PICK h \in [Nodes \ silent -> UNION {Latest(n) : n \in Nodes}] :
        b = AgreedHead(h) /\ \A n \in Nodes \ silent : h[n] \in Latest(n)
  BY <1>1
<1>3. PICK n \in Nodes \ silent :
        /\ b = h[n]
        /\ \E m \in Nodes \ silent : m # Faulty /\ h[m] <= h[n] /\ h[n] - h[m] <= AgreeWithin
  <2>1. (Nodes \ silent) \in SUBSET Nodes /\ DOMAIN h = Nodes \ silent /\ AgreedHead(h) # NoBlock
    BY <1>2
  <2>. QED BY <1>2, <2>1, AgreedIs, Zenon
<1>4. PICK m \in Nodes \ silent : m # Faulty /\ h[m] <= h[n] /\ h[n] - h[m] <= AgreeWithin
  BY <1>3
<1>5. PICK a : a = h[m]
  OBVIOUS
<1>6. a \in Nat /\ head - AgreeWithin <= a /\ a <= head
  BY <1>2, <1>4, <1>5, NodeAnswerIs, Zenon
<1>7. b \in Latest(n) /\ n \in Nodes
  BY <1>2, <1>3
<1>8. b \in Nat /\ (n # Faulty => b <= head) /\ (n = Faulty => b = head + offset)
  BY <1>7, NodeAnswerIs, Zenon
<1>9. a <= b /\ b - a <= AgreeWithin
  BY <1>3, <1>4, <1>5
<1>10. head \in Int /\ offset \in Int /\ AgreeWithin \in Nat
  BY SeenNumbers DEF ClockSound
<1>11. head - AgreeWithin <= b
  BY <1>6, <1>8, <1>9, <1>10
<1>12. CASE n = Faulty
  <2>1. b = head + offset
    BY <1>8, <1>12
  <2>2. offset <= AgreeWithin
    BY <2>1, <1>6, <1>8, <1>9, <1>10
  <2>. QED BY <1>8, <1>11, <2>1, <2>2 DEF Known
<1>13. CASE n # Faulty
  BY <1>8, <1>11, <1>13 DEF Known
<1>. QED BY <1>12, <1>13

(* ReportsBounded. A reported block, and so one that is known, is within   *)
(* what the faulty endpoint can make up.                                   *)
LEMMA ReportsBounded ==
  ASSUME ClockSound
  PROVE  /\ \A n \in Nodes : \A b \in Latest(n) : Reported(b)
         /\ \A b : Known(b) => Reported(b)
         /\ \A b : Reported(b) => b <= StartHead + MaxTime + Max(AheadBy \cup {0})
<1>1. \A n \in Nodes : \A b \in Latest(n) : Reported(b)
  <2>. SUFFICES ASSUME NEW n \in Nodes, NEW b \in Latest(n) PROVE Reported(b)
    OBVIOUS
  <2>1. /\ b \in Nat /\ (n # Faulty => head - AgreeWithin <= b /\ b <= head)
        /\ (n = Faulty => b = head + offset)
    BY NodeAnswerIs
  <2>. QED BY <2>1 DEF Reported
<1>2. \A b : Known(b) => Reported(b)
  BY DEF Known, Reported
<1>3. ASSUME NEW b, Reported(b) PROVE b <= StartHead + MaxTime + Max(AheadBy \cup {0})
  <2>1. PICK far \in Nat : Max(AheadBy \cup {0}) = far /\ offset \in Int /\ offset <= far
    BY SeenNumbers DEF ClockSound
  <2>2. time \in Int /\ time <= MaxTime /\ head \in Int /\ head <= StartHead + time
    BY SeenNumbers DEF ClockSound
  <2>3. b \in Nat /\ (b <= head \/ b = head + offset)
    BY <1>3 DEF Reported
  <2>. QED BY <2>1, <2>2, <2>3, SeenNumbers
<1>. QED BY <1>1, <1>2, <1>3

-----------------------------------------------------------------------------
(* The fields, and what they say of the chain: the number is one a node    *)
(* has reported; an unconfirmed one was the chain's when it was set, or    *)
(* the faulty endpoint set it; a confirmed one was the chain's, or the     *)
(* faulty endpoint is not far ahead, or no further than the chain can be.  *)
Fields == [number : Nat, movedAt : 0 .. MaxTime, confirmed : BOOLEAN,
           checkedAt : {NoBlock} \cup 0 .. MaxTime, jump : BOOLEAN]

Told(number) == number <= head \/ number <= head + offset

StillFresh(s, at) ==
  /\ s \in Fields /\ s.movedAt <= time /\ Told(s.number)
  /\ ~s.confirmed => s.number <= StartHead + s.movedAt \/ StartHead + offset <= s.number
  /\ s.confirmed => \/ offset <= AgreeWithin + at
                    \/ head + offset <= StartHead + time + AgreeWithin
                    \/ s.number <= StartHead + s.movedAt

Floor(s) == served <= s.number + AgreeWithin

(* AdvanceIs. A block one node reports moves the number or leaves it.      *)
LEMMA AdvanceIs ==
  ASSUME ClockSound, NEW s \in Fields, NEW b \in Nat
  PROVE  /\ Advance(s, b) \in Fields /\ Advance(s, b).confirmed = s.confirmed
         /\ \/ Advance(s, b).number = s.number /\ Advance(s, b).movedAt = s.movedAt
            \/ /\ Advance(s, b).number = b /\ Advance(s, b).movedAt = time /\ b > s.number
               /\ s.confirmed => b <= LoneLimit(s)
<1>0. time \in 0 .. MaxTime
  BY DEF ClockSound
<1>1. LoneLimit(s) \in Int /\ BelievableLimit(s) \in Int /\ s.number \in Nat
  BY <1>0, SeenNumbers DEF LoneLimit, BelievableLimit, Fields
<1>2. CASE Advance(s, b) = s
  BY <1>2 DEF Fields
<1>3. CASE Advance(s, b) = [s EXCEPT !.jump = TRUE]
  BY <1>3 DEF Fields
<1>4. CASE Advance(s, b) = Take(s, b) /\ ~(s.confirmed /\ b > LoneLimit(s))
  <2>1. CASE b > s.number
    <3>1. Advance(s, b) = [s EXCEPT !.number = b, !.movedAt = time]
      BY <1>4, <2>1 DEF Take
    <3>2. s.confirmed => b <= LoneLimit(s)
      BY <1>1, <1>4
    <3>. QED BY <1>0, <2>1, <3>1, <3>2 DEF Fields
  <2>2. CASE ~(b > s.number)
    <3>1. Advance(s, b) = s
      BY <1>4, <2>2 DEF Take
    <3>. QED BY <1>2, <3>1
  <2>. QED BY <2>1, <2>2
<1>5. b > BelievableLimit(s) <=> ~(b <= BelievableLimit(s))
  BY <1>1
<1>6. CASE s.confirmed /\ b > BelievableLimit(s)
  <2>1. Advance(s, b) = s
    BY <1>5, <1>6, Zenon DEF Advance
  <2>. QED BY <1>2, <2>1
<1>7. CASE s.confirmed /\ b <= BelievableLimit(s) /\ b > LoneLimit(s)
  <2>1. Advance(s, b) = [s EXCEPT !.jump = TRUE]
    BY <1>5, <1>7, Zenon DEF Advance
  <2>. QED BY <1>3, <2>1
<1>8. CASE ~(s.confirmed /\ b > BelievableLimit(s))
           /\ ~(s.confirmed /\ b <= BelievableLimit(s) /\ b > LoneLimit(s))
  <2>1. Advance(s, b) = Take(s, b)
    BY <1>8, Zenon DEF Advance
  <2>2. ~(s.confirmed /\ b > LoneLimit(s))
    BY <1>5, <1>8, Zenon
  <2>. QED BY <1>4, <2>1, <2>2
<1>. QED BY <1>6, <1>7, <1>8, Zenon

(* ConfirmIs. A confirmed block moves a confirmed number on, and replaces  *)
(* an unconfirmed one unless that is within a minute ahead of it.          *)
LEMMA ConfirmIs ==
  ASSUME ClockSound, NEW s \in Fields, NEW b \in Nat
  PROVE  /\ Confirm(s, b) \in Fields /\ Confirm(s, b).confirmed
         /\ \/ Confirm(s, b).number = b /\ Confirm(s, b).movedAt = time
               /\ (s.confirmed => b > s.number)
            \/ /\ Confirm(s, b).number = s.number /\ Confirm(s, b).movedAt = s.movedAt
               /\ ~s.confirmed => s.number <= b + AgreeWithin
<1>. DEFINE c == [s EXCEPT !.jump = FALSE]
<1>0. time \in 0 .. MaxTime
  BY DEF ClockSound
<1>1. BelievableLimit(s) \in Int /\ s.number \in Nat /\ AgreeWithin \in Nat
  BY <1>0, SeenNumbers DEF BelievableLimit, Fields
<1>2. c \in Fields /\ c.number = s.number /\ c.movedAt = s.movedAt /\ c.confirmed = s.confirmed
  BY DEF Fields
<1>3. b > BelievableLimit(s) <=> ~(b <= BelievableLimit(s))
  BY <1>1
<1>4. CASE s.confirmed
  <2>1. CASE Confirm(s, b) = c
    BY <1>2, <1>4, <2>1 DEF Fields
  <2>2. CASE Confirm(s, b) = [c EXCEPT !.number = b, !.movedAt = time] /\ b > s.number
    BY <1>0, <1>2, <1>4, <2>2 DEF Fields
  <2>3. CASE b > BelievableLimit(s)
    <3>1. Confirm(s, b) = c
      BY <1>3, <1>4, <2>3, Zenon DEF Confirm
    <3>. QED BY <2>1, <3>1
  <2>4. CASE b <= BelievableLimit(s)
    <3>1. Confirm(s, b) = Take(c, b)
      BY <1>3, <1>4, <2>4, Zenon DEF Confirm
    <3>2. CASE b > c.number
      <4>1. Confirm(s, b) = [c EXCEPT !.number = b, !.movedAt = time]
        BY <3>1, <3>2, Zenon DEF Take
      <4>. QED BY <1>2, <2>2, <3>2, <4>1
    <3>3. CASE ~(b > c.number)
      <4>1. Confirm(s, b) = c
        BY <3>1, <3>3, Zenon DEF Take
      <4>. QED BY <2>1, <4>1
    <3>. QED BY <3>2, <3>3
  <2>. QED BY <1>3, <2>3, <2>4
<1>5. CASE ~s.confirmed
  <2>1. CASE b > s.number \/ s.number > b + AgreeWithin
    <3>1. Confirm(s, b) = [c EXCEPT !.number = b, !.movedAt = time, !.confirmed = TRUE]
      BY <1>5, <2>1, Zenon DEF Confirm
    <3>. QED BY <1>0, <1>2, <1>5, <3>1 DEF Fields
  <2>2. CASE ~(b > s.number \/ s.number > b + AgreeWithin)
    <3>1. Confirm(s, b) = [c EXCEPT !.confirmed = TRUE]
      BY <1>5, <2>2, Zenon DEF Confirm
    <3>2. s.number <= b + AgreeWithin
      BY <1>1, <2>2
    <3>. QED BY <1>2, <1>5, <3>1, <3>2 DEF Fields
  <2>. QED BY <2>1, <2>2
<1>. QED BY <1>4, <1>5

(* AdvanceFresh. A reported block keeps what the fields say of the chain.  *)
LEMMA AdvanceFresh ==
  ASSUME ClockSound, NEW s, NEW at \in Nat, StillFresh(s, at), NEW b, Reported(b), served \in Nat
  PROVE  StillFresh(Advance(s, b), at) /\ (Floor(s) => Floor(Advance(s, b)))
<1>. DEFINE a == Advance(s, b)
<1>. SUFFICES StillFresh(a, at) /\ (Floor(s) => Floor(a))
  OBVIOUS
<1>0. /\ time \in Nat /\ head \in Nat /\ offset \in Int /\ StartHead \in Nat /\ AgreeWithin \in Nat
      /\ head <= StartHead + time /\ StartHead <= head
  BY SeenNumbers DEF ClockSound
<1>1. s \in Fields /\ b \in Nat /\ (b <= head \/ b = head + offset)
  BY DEF StillFresh, Reported
<1>2. PICK n \in Nat, m \in Nat : n = s.number /\ m = s.movedAt /\ m <= time
  BY <1>1 DEF Fields, StillFresh
<1>3. /\ a \in Fields /\ a.confirmed = s.confirmed
      /\ \/ a.number = n /\ a.movedAt = m
         \/ /\ a.number = b /\ a.movedAt = time /\ b > n
            /\ s.confirmed => b <= n + AgreeWithin + (time - m)
  <2>1. LoneLimit(s) = n + AgreeWithin + (time - m)
    BY <1>2 DEF LoneLimit
  <2>2. /\ a \in Fields /\ a.confirmed = s.confirmed
        /\ \/ a.number = s.number /\ a.movedAt = s.movedAt
           \/ /\ a.number = b /\ a.movedAt = time /\ b > s.number
              /\ s.confirmed => b <= LoneLimit(s)
    BY <1>1, AdvanceIs
  <2>. HIDE DEF a
  <2>. QED BY <1>2, <2>1, <2>2
<1>. HIDE DEF a
<1>4. Told(n)
  BY <1>2 DEF StillFresh
<1>5. CASE a.number = n /\ a.movedAt = m
  <2>1. Told(a.number) /\ a.movedAt <= time
    BY <1>2, <1>4, <1>5
  <2>2. CASE s.confirmed
    <3>1. \/ offset <= AgreeWithin + at
          \/ head + offset <= StartHead + time + AgreeWithin
          \/ n <= StartHead + m
      BY <1>2, <2>2 DEF StillFresh
    <3>. QED BY <1>2, <1>3, <1>5, <2>1, <2>2, <3>1 DEF StillFresh, Floor
  <2>3. CASE ~s.confirmed
    <3>1. n <= StartHead + m \/ StartHead + offset <= n
      BY <1>2, <2>3 DEF StillFresh
    <3>. QED BY <1>2, <1>3, <1>5, <2>1, <2>3, <3>1 DEF StillFresh, Floor
  <2>. QED BY <2>2, <2>3
<1>6. CASE /\ a.number = b /\ a.movedAt = time /\ b > n
           /\ s.confirmed => b <= n + AgreeWithin + (time - m)
  <2>1. Told(a.number) /\ a.movedAt <= time
    <3>1. time <= time
      BY <1>0
    <3>. QED BY <1>0, <1>1, <1>6, <3>1 DEF Told
  <2>2. Floor(s) => Floor(a)
    BY <1>0, <1>1, <1>2, <1>6 DEF Floor
  <2>3. CASE s.confirmed
    <3>1. \/ offset <= AgreeWithin + at
          \/ head + offset <= StartHead + time + AgreeWithin
          \/ n <= StartHead + m
      BY <1>2, <2>3 DEF StillFresh
    <3>2. \/ offset <= AgreeWithin + at
          \/ head + offset <= StartHead + time + AgreeWithin
          \/ b <= StartHead + time
      <4>1. CASE b <= head
        BY <1>0, <1>1, <4>1
      <4>2. CASE b = head + offset /\ n <= StartHead + m
        <5>1. head + offset <= n + AgreeWithin + (time - m)
          BY <1>6, <2>3, <4>2
        <5>. QED BY <1>0, <1>2, <4>2, <5>1
      <4>. QED BY <1>1, <3>1, <4>1, <4>2
    <3>. QED BY <1>3, <1>6, <2>1, <2>2, <2>3, <3>2 DEF StillFresh
  <2>4. CASE ~s.confirmed
    <3>1. b <= StartHead + time \/ StartHead + offset <= b
      BY <1>0, <1>1
    <3>. QED BY <1>3, <1>6, <2>1, <2>2, <2>4, <3>1 DEF StillFresh
  <2>. QED BY <2>3, <2>4
<1>. QED BY <1>3, <1>5, <1>6

(* ConfirmFresh. So does a block that is known; the first one dates the    *)
(* confirmation.                                                           *)
LEMMA ConfirmFresh ==
  ASSUME ClockSound, NEW s, NEW at \in Nat, StillFresh(s, at), NEW b, Known(b),
         served \in Nat, served <= head
  PROVE  /\ Confirm(s, b).confirmed
         /\ s.confirmed => StillFresh(Confirm(s, b), at)
         /\ ~s.confirmed => StillFresh(Confirm(s, b), time)
         /\ Floor(s) => Floor(Confirm(s, b))
<1>. DEFINE a == Confirm(s, b)
<1>0. /\ time \in Nat /\ head \in Nat /\ offset \in Int /\ StartHead \in Nat /\ AgreeWithin \in Nat
      /\ head <= StartHead + time /\ StartHead <= head
  BY SeenNumbers DEF ClockSound
<1>1. /\ s \in Fields /\ b \in Nat /\ head - AgreeWithin <= b
      /\ b <= head \/ (b = head + offset /\ offset <= AgreeWithin)
  BY DEF StillFresh, Known
<1>2. PICK n \in Nat, m \in Nat : n = s.number /\ m = s.movedAt /\ m <= time
  BY <1>1 DEF Fields, StillFresh
<1>3. /\ a \in Fields /\ a.confirmed
      /\ \/ a.number = b /\ a.movedAt = time /\ (s.confirmed => b > n)
         \/ /\ a.number = n /\ a.movedAt = m
            /\ ~s.confirmed => n <= b + AgreeWithin
  <2>1. /\ a \in Fields /\ a.confirmed
        /\ \/ a.number = b /\ a.movedAt = time /\ (s.confirmed => b > s.number)
           \/ /\ a.number = s.number /\ a.movedAt = s.movedAt
              /\ ~s.confirmed => s.number <= b + AgreeWithin
    BY <1>1, ConfirmIs
  <2>. HIDE DEF a
  <2>. QED BY <1>2, <2>1
<1>. HIDE DEF a
<1>4. Told(n)
  BY <1>2 DEF StillFresh
<1>5. CASE a.number = b /\ a.movedAt = time /\ (s.confirmed => b > n)
  <2>1. Told(a.number) /\ a.movedAt <= time
    <3>1. time <= time
      BY <1>0
    <3>2. b <= head \/ b <= head + offset
      BY <1>0, <1>1
    <3>. QED BY <1>5, <3>1, <3>2 DEF Told
  <2>2. Floor(a)
    BY <1>0, <1>1, <1>5 DEF Floor
  <2>3. \A t \in Nat : \/ offset <= AgreeWithin + t
                       \/ head + offset <= StartHead + time + AgreeWithin
                       \/ b <= StartHead + time
    BY <1>0, <1>1
  <2>4. \A t \in Nat : StillFresh(a, t)
    BY <1>3, <1>5, <2>1, <2>3 DEF StillFresh
  <2>. QED BY <1>0, <1>3, <2>2, <2>4 DEF a
<1>6. CASE a.number = n /\ a.movedAt = m /\ (~s.confirmed => n <= b + AgreeWithin)
  <2>1. Told(a.number) /\ a.movedAt <= time
    BY <1>2, <1>4, <1>6
  <2>2. Floor(s) => Floor(a)
    BY <1>2, <1>6 DEF Floor
  <2>3. CASE s.confirmed
    <3>1. \/ offset <= AgreeWithin + at
          \/ head + offset <= StartHead + time + AgreeWithin
          \/ n <= StartHead + m
      BY <1>2, <2>3 DEF StillFresh
    <3>2. StillFresh(a, at)
      BY <1>3, <1>6, <2>1, <3>1 DEF StillFresh
    <3>. QED BY <1>3, <2>2, <2>3, <3>2 DEF a
  <2>4. CASE ~s.confirmed
    <3>1. n <= StartHead + m \/ StartHead + offset <= n
      BY <1>2, <2>4 DEF StillFresh
    <3>2. n <= b + AgreeWithin
      BY <1>6, <2>4
    <3>3. \/ offset <= AgreeWithin + time
          \/ head + offset <= StartHead + time + AgreeWithin
          \/ n <= StartHead + m
      BY <1>0, <1>1, <1>2, <3>1, <3>2
    <3>4. StillFresh(a, time)
      BY <1>3, <1>6, <2>1, <3>3 DEF StillFresh
    <3>. QED BY <1>3, <2>2, <2>4, <3>4 DEF a
  <2>. QED BY <2>3, <2>4
<1>. QED BY <1>3, <1>5, <1>6

-----------------------------------------------------------------------------
(* The reads: what each has found out so far.                              *)
ReadFields ==
  [at : {"idle", "checking", "agreed", "asking", "noting"},
   lowest : BlockNumber, highest : BlockNumber, block : BlockNumber \cup {NoBlock},
   real : BOOLEAN, floor : BlockNumber]

ReadSound(r) ==
  /\ read[r].at \in {"checking", "agreed"} => read[r].floor <= served
  /\ read[r].at = "agreed" /\ read[r].block # NoBlock => Known(read[r].block)
  /\ read[r].at \in {"asking", "noting"} => read[r].floor <= read[r].lowest + AgreeWithin
  /\ read[r].at = "noting" =>
       /\ Reported(read[r].block) /\ read[r].lowest <= read[r].block
       /\ read[r].real => read[r].block <= head

SeenInv ==
  /\ ClockSound
  /\ confirmedAt \in 0 .. time /\ StillFresh(seen, confirmedAt)
  /\ served \in Nat /\ served <= head /\ Floor(seen)
  /\ read \in [BlockReaders -> ReadFields]
  /\ \A r \in BlockReaders : ReadSound(r)

(* BlockNumbers. A reported block and the limits are block numbers.        *)
LEMMA BlockNumbers ==
  ASSUME ClockSound
  PROVE  /\ Unbounded \in BlockNumber /\ 0 \in BlockNumber /\ NoBlock \notin Nat
         /\ BlockNumber \subseteq Nat
         /\ \A b : Reported(b) => b \in BlockNumber
         /\ served \in Nat /\ served <= head => served \in BlockNumber
         /\ \A s, at : StillFresh(s, at) => s.number \in BlockNumber /\ Highest(s) \in BlockNumber
<1>1. PICK far \in Nat : Max(AheadBy \cup {0}) = far /\ offset \in Int /\ offset <= far
  BY SeenNumbers DEF ClockSound
<1>2. /\ time \in Nat /\ time <= MaxTime /\ head \in Nat /\ head <= StartHead + time
      /\ StartHead \in Nat /\ AgreeWithin \in Nat /\ WeekOfBlocks \in Nat /\ MaxTime \in Nat
  BY SeenNumbers DEF ClockSound
<1>3. PICK u \in Nat : u = Unbounded /\ u = StartHead + MaxTime + WeekOfBlocks + far + 1
  BY <1>1, <1>2 DEF Unbounded
<1>4. \A x : x \in BlockNumber <=> x \in 0 .. u + MaxTime + WeekOfBlocks
  BY <1>3 DEF BlockNumber
<1>5. ASSUME NEW b, Reported(b) PROVE b \in BlockNumber
  BY <1>1, <1>2, <1>3, <1>4, <1>5 DEF Reported
<1>6. ASSUME NEW s, NEW at, StillFresh(s, at) PROVE s.number \in BlockNumber /\ Highest(s) \in BlockNumber
  <2>1. PICK n \in Nat, m \in Nat : n = s.number /\ m = s.movedAt /\ m <= time
    BY <1>2, <1>6 DEF StillFresh, Fields
  <2>2. n <= head \/ n <= head + offset
    BY <1>6, <2>1 DEF StillFresh, Told
  <2>3. n <= StartHead + MaxTime + far
    BY <1>1, <1>2, <2>2
  <2>4. Highest(s) = n + WeekOfBlocks + (time - m) \/ Highest(s) = u
    BY <1>3, <2>1 DEF Highest, BelievableLimit
  <2>5. n + WeekOfBlocks + (time - m) \in 0 .. u + MaxTime + WeekOfBlocks
    BY <1>2, <1>3, <2>1, <2>3
  <2>6. n \in 0 .. u + MaxTime + WeekOfBlocks /\ u \in 0 .. u + MaxTime + WeekOfBlocks
    BY <1>2, <1>3, <2>3
  <2>. QED BY <1>4, <2>1, <2>4, <2>5, <2>6
<1>7. served \in Nat /\ served <= head => served \in BlockNumber
  BY <1>2, <1>3, <1>4
<1>8. Unbounded \in BlockNumber /\ 0 \in BlockNumber /\ NoBlock \notin Nat
  BY <1>2, <1>3, <1>4 DEF NoBlock
<1>9. BlockNumber \subseteq Nat
  BY <1>4
<1>. QED BY <1>5, <1>6, <1>7, <1>8, <1>9

(* SeenHolds. What the invariant says of the types and of a confirmed      *)
(* number.                                                                 *)
LEMMA SeenHolds == SeenInv => SeenTypeOK /\ SeenIsReal
<1>. SUFFICES ASSUME SeenInv PROVE SeenTypeOK /\ SeenIsReal
  OBVIOUS
<1>0. /\ time \in Nat /\ time <= MaxTime /\ head \in Nat /\ head <= StartHead + time
      /\ StartHead \in Nat /\ AgreeWithin \in Nat /\ MaxTime \in Nat /\ offset \in Int
      /\ StartHead <= head
  BY SeenNumbers DEF SeenInv, ClockSound
<1>1. /\ ClockSound /\ StillFresh(seen, confirmedAt) /\ served \in Nat /\ served <= head
      /\ confirmedAt \in Nat /\ confirmedAt <= time
  BY <1>0 DEF SeenInv
<1>2. seen.number \in BlockNumber /\ served \in BlockNumber
  BY <1>1, BlockNumbers
<1>3. seen \in [number : BlockNumber, movedAt : 0 .. MaxTime, confirmed : BOOLEAN,
               checkedAt : {NoBlock} \cup 0 .. MaxTime, jump : BOOLEAN]
  BY <1>1, <1>2 DEF StillFresh, Fields
<1>4. confirmedAt \in 0 .. MaxTime /\ head \in StartHead .. StartHead + MaxTime
  BY <1>0, <1>1
<1>5. SeenTypeOK
  BY <1>2, <1>3, <1>4 DEF SeenTypeOK, SeenInv, ClockSound, ReadFields
<1>6. ASSUME seen.confirmed PROVE seen.number <= Reachable + confirmedAt
  <2>1. PICK n \in Nat, m \in Nat : n = seen.number /\ m = seen.movedAt /\ m <= time
    BY <1>1 DEF StillFresh, Fields
  <2>2. n <= head \/ n <= head + offset
    BY <1>1, <2>1 DEF StillFresh, Told
  <2>3. \/ offset <= AgreeWithin + confirmedAt
        \/ head + offset <= StartHead + time + AgreeWithin
        \/ n <= StartHead + m
    BY <1>1, <1>6, <2>1 DEF StillFresh
  <2>4. n <= (StartHead + time + AgreeWithin) + confirmedAt
    BY <1>0, <1>1, <2>1, <2>2, <2>3
  <2>. QED BY <2>1, <2>4 DEF Reachable
<1>. QED BY <1>5, <1>6 DEF SeenIsReal

(* InitSeenInv. The invariant holds as dipper starts.                      *)
LEMMA InitSeenInv == SeenInit => SeenInv
<1>. SUFFICES ASSUME SeenInit PROVE SeenInv
  OBVIOUS
<1>0. StartHead \in Nat /\ MaxTime \in Nat /\ AgreeWithin \in Nat /\ time = 0 /\ head = StartHead
  BY SeenNumbers DEF SeenInit
<1>1. ClockSound
  BY <1>0 DEF SeenInit, ClockSound
<1>2. seen \in Fields /\ seen.movedAt = 0 /\ seen.number = 0 /\ ~seen.confirmed
  BY <1>0 DEF SeenInit, Fields
<1>3. StillFresh(seen, confirmedAt)
  BY <1>0, <1>2 DEF StillFresh, Told
<1>4. confirmedAt \in 0 .. time /\ served \in Nat /\ served <= head /\ Floor(seen)
  BY <1>0, <1>2 DEF SeenInit, Floor
<1>5. NoRead \in ReadFields
  BY <1>1, BlockNumbers DEF NoRead, ReadFields
<1>6. read \in [BlockReaders -> ReadFields] /\ \A r \in BlockReaders : read[r].at = "idle"
  BY <1>5 DEF SeenInit, NoRead
<1>. QED BY <1>1, <1>3, <1>4, <1>6 DEF SeenInv, ReadSound

(* The part of the invariant that is not about the reads.                  *)
NumberInv ==
  /\ ClockSound
  /\ confirmedAt \in 0 .. time /\ StillFresh(seen, confirmedAt)
  /\ served \in Nat /\ served <= head /\ Floor(seen)

(* CheckedFresh. A cross check, with or without a result, keeps what the   *)
(* fields say of the chain.                                                *)
LEMMA CheckedFresh ==
  ASSUME ClockSound, NEW s, NEW at \in Nat, StillFresh(s, at), Floor(s),
         NEW agreed, agreed = NoBlock \/ Known(agreed), served \in Nat, served <= head
  PROVE  /\ Floor(CrossChecked(s, agreed))
         /\ s.confirmed => CrossChecked(s, agreed).confirmed /\ StillFresh(CrossChecked(s, agreed), at)
         /\ ~s.confirmed =>
              \/ ~CrossChecked(s, agreed).confirmed /\ StillFresh(CrossChecked(s, agreed), at)
              \/ CrossChecked(s, agreed).confirmed /\ StillFresh(CrossChecked(s, agreed), time)
<1>1. CASE agreed = NoBlock
  <2>1. CrossChecked(s, agreed) = s
    BY <1>1 DEF CrossChecked
  <2>. QED BY <2>1
<1>2. CASE agreed # NoBlock
  <2>1. CrossChecked(s, agreed) = Confirm(s, agreed)
    BY <1>2 DEF CrossChecked
  <2>2. /\ Confirm(s, agreed).confirmed
        /\ s.confirmed => StillFresh(Confirm(s, agreed), at)
        /\ ~s.confirmed => StillFresh(Confirm(s, agreed), time)
        /\ Floor(s) => Floor(Confirm(s, agreed))
    BY <1>2, ConfirmFresh
  <2>. QED BY <2>1, <2>2
<1>. QED BY <1>1, <1>2

(* NumberMoves. The number after a step that neither the chain nor a read  *)
(* takes, given what its fields say before the clock is looked at.         *)
LEMMA NumberMoves ==
  ASSUME NumberInv, UNCHANGED <<time, head, offset, served>>, FirstConfirmed, Floor(seen'),
         seen.confirmed => seen'.confirmed /\ StillFresh(seen', confirmedAt),
         ~seen.confirmed => \/ ~seen'.confirmed /\ StillFresh(seen', confirmedAt)
                            \/ seen'.confirmed /\ StillFresh(seen', time)
  PROVE  NumberInv'
<1>1. time \in Nat /\ confirmedAt \in 0 .. time
  BY SeenNumbers DEF NumberInv, ClockSound
<1>2. confirmedAt' \in 0 .. time /\ StillFresh(seen', confirmedAt')
  <2>1. CASE ~seen.confirmed /\ seen'.confirmed
    <3>1. confirmedAt' = time
      BY <2>1, Zenon DEF FirstConfirmed
    <3>2. time \in 0 .. time
      BY <1>1
    <3>. QED BY <2>1, <3>1, <3>2
  <2>2. CASE ~(~seen.confirmed /\ seen'.confirmed)
    <3>1. confirmedAt' = confirmedAt
      BY <2>2, Zenon DEF FirstConfirmed
    <3>. QED BY <1>1, <2>2, <3>1
  <2>. QED BY <2>1, <2>2
<1>3. ClockSound'
  BY DEF NumberInv, ClockSound
<1>4. StillFresh(seen, confirmedAt)' /\ Floor(seen)'
  BY <1>2 DEF StillFresh, Floor, Told
<1>. QED BY <1>2, <1>3, <1>4 DEF NumberInv

(* NumberStays. The number after a step that leaves it.                    *)
LEMMA NumberStays ==
  ASSUME NumberInv, UNCHANGED <<time, head, offset, seen, served, confirmedAt>>
  PROVE  NumberInv'
BY DEF NumberInv, ClockSound, StillFresh, Floor, Told

(* OtherReads. A read that does not move stays sound.                      *)
LEMMA OtherReads ==
  ASSUME UNCHANGED <<head, offset>>, served \in Nat, served' \in Nat, served <= served',
         NEW q, read[q] \in ReadFields, read'[q] = read[q], BlockNumber \subseteq Nat,
         ReadSound(q)
  PROVE  ReadSound(q)'
<1>1. read[q].floor \in Nat
  BY DEF ReadFields
<1>2. read[q].floor <= served => read[q].floor <= served'
  BY <1>1
<1>3. Known(read[q].block) => Known(read[q].block)'
  BY DEF Known
<1>4. Reported(read[q].block) => Reported(read[q].block)'
  BY DEF Reported
<1>. QED BY <1>2, <1>3, <1>4 DEF ReadSound

(* SeenParts. The invariant is that of the number and that of the reads.   *)
LEMMA SeenParts ==
  SeenInv <=> /\ NumberInv /\ read \in [BlockReaders -> ReadFields]
              /\ \A r \in BlockReaders : ReadSound(r)
BY DEF SeenInv, NumberInv

(* TickKeeps. The clock and the chain move on.                             *)
LEMMA TickKeeps == SeenInv /\ Tick => SeenInv'
<1>. SUFFICES ASSUME SeenInv, Tick PROVE SeenInv'
  OBVIOUS
<1>0. /\ time \in Nat /\ head \in Nat /\ offset \in Int /\ StartHead \in Nat /\ AgreeWithin \in Nat
      /\ head <= StartHead + time /\ StartHead <= head /\ MaxTime \in Nat /\ confirmedAt \in Nat
      /\ confirmedAt <= time
  BY SeenNumbers DEF SeenInv, ClockSound
<1>1. /\ time < MaxTime /\ time' = time + 1 /\ (head' = head \/ head' = head + 1)
      /\ UNCHANGED <<offset, seen, read, served, confirmedAt>>
  BY DEF Tick
<1>2. ClockSound' /\ confirmedAt' \in 0 .. time'
  BY <1>0, <1>1 DEF SeenInv, ClockSound
<1>3. StillFresh(seen, confirmedAt)'
  <2>1. PICK n \in Nat, m \in Nat : n = seen.number /\ m = seen.movedAt /\ m <= time
    BY DEF SeenInv, StillFresh, Fields
  <2>2. seen' \in Fields /\ m <= time' /\ (n <= head' \/ n <= head' + offset)
    BY <1>0, <1>1, <2>1 DEF SeenInv, StillFresh, Told
  <2>3. seen.confirmed => \/ offset <= AgreeWithin + confirmedAt
                          \/ head + offset <= StartHead + time + AgreeWithin
                          \/ n <= StartHead + m
    BY <2>1 DEF SeenInv, StillFresh
  <2>4. head + offset <= StartHead + time + AgreeWithin
          => head' + offset <= StartHead + time' + AgreeWithin
    BY <1>0, <1>1
  <2>5. ~seen.confirmed => n <= StartHead + m \/ StartHead + offset <= n
    BY <2>1 DEF SeenInv, StillFresh
  <2>. QED BY <1>1, <2>1, <2>2, <2>3, <2>4, <2>5 DEF StillFresh, Told
<1>4. served' \in Nat /\ served' <= head' /\ Floor(seen)'
  BY <1>0, <1>1 DEF SeenInv, Floor
<1>5. ASSUME NEW r \in BlockReaders PROVE ReadSound(r)'
  <2>1. read[r].at \notin {"checking", "agreed", "noting"}
    BY DEF Tick
  <2>2. read[r].at = "asking" => read[r].floor <= read[r].lowest + AgreeWithin
    BY DEF SeenInv, ReadSound
  <2>. QED BY <1>1, <2>1, <2>2 DEF ReadSound
<1>. QED BY <1>1, <1>2, <1>3, <1>4, <1>5 DEF SeenInv

(* ReceiptKeeps. A receipt confirms a block.                               *)
LEMMA ReceiptKeeps == SeenInv /\ ReceiptConfirms => SeenInv'
<1>. SUFFICES ASSUME SeenInv, ReceiptConfirms PROVE SeenInv'
  OBVIOUS
<1>1. NumberInv /\ ClockSound /\ StillFresh(seen, confirmedAt) /\ Floor(seen) /\ served \in Nat
      /\ served <= head /\ confirmedAt \in Nat
  BY SeenNumbers DEF SeenInv, NumberInv, ClockSound
<1>2. PICK b \in head - AgreeWithin .. head : seen' = Confirm(seen, b)
  BY DEF ReceiptConfirms
<1>3. Known(b)
  BY <1>1, SeenNumbers DEF Known, ClockSound
<1>4. FirstConfirmed /\ UNCHANGED <<time, head, offset, read, served>>
  BY DEF ReceiptConfirms
<1>5. /\ Confirm(seen, b).confirmed
      /\ seen.confirmed => StillFresh(Confirm(seen, b), confirmedAt)
      /\ ~seen.confirmed => StillFresh(Confirm(seen, b), time)
      /\ Floor(seen) => Floor(Confirm(seen, b))
  BY <1>1, <1>3, ConfirmFresh
<1>6. NumberInv'
  BY <1>1, <1>2, <1>4, <1>5, NumberMoves
<1>7. \A q \in BlockReaders : ReadSound(q)'
  BY <1>1, <1>4, OtherReads, BlockNumbers DEF SeenInv
<1>. QED BY <1>4, <1>6, <1>7 DEF SeenInv, NumberInv

(* BeforeFresh. Making a cross check is noted, and nothing else.           *)
LEMMA BeforeFresh ==
  ASSUME NumberInv
  PROVE  /\ StillFresh(BeforeRead, confirmedAt) /\ Floor(BeforeRead)
         /\ BeforeRead.confirmed = seen.confirmed
<1>1. CASE BeforeRead = seen
  BY <1>1 DEF NumberInv
<1>2. CASE BeforeRead = [seen EXCEPT !.checkedAt = time]
  <2>1. seen \in Fields /\ time \in 0 .. MaxTime
    BY DEF NumberInv, ClockSound, StillFresh
  <2>2. /\ BeforeRead \in Fields /\ BeforeRead.number = seen.number
        /\ BeforeRead.movedAt = seen.movedAt /\ BeforeRead.confirmed = seen.confirmed
    BY <1>2, <2>1 DEF Fields
  <2>. QED BY <2>2 DEF NumberInv, StillFresh, Floor
<1>. QED BY <1>1, <1>2 DEF BeforeRead

(* ReadTimeKeeps. A read of the chain's time, with its cross check.        *)
LEMMA ReadTimeKeeps == SeenInv /\ ReadTime => SeenInv'
<1>. SUFFICES ASSUME SeenInv, ReadTime PROVE SeenInv'
  OBVIOUS
<1>1. /\ NumberInv /\ ClockSound /\ served \in Nat /\ served <= head
      /\ confirmedAt \in Nat /\ time \in Nat
  BY SeenNumbers DEF SeenInv, NumberInv, ClockSound
<1>2. PICK agreed \in IF CrossCheckDue(seen) THEN CrossChecks ELSE {NoBlock} :
        \E b \in UNION {Latest(n) : n \in Nodes} :
          seen' = Advance(CrossChecked(BeforeRead, agreed), b)
  BY DEF ReadTime
<1>3. PICK b \in UNION {Latest(n) : n \in Nodes} :
        seen' = Advance(CrossChecked(BeforeRead, agreed), b)
  BY <1>2
<1>4. agreed = NoBlock \/ Known(agreed)
  <2>1. agreed = NoBlock \/ agreed \in CrossChecks
    OBVIOUS
  <2>. QED BY <1>1, <2>1, ChecksKnown
<1>5. Reported(b)
  BY <1>1, ReportsBounded
<1>. DEFINE c == CrossChecked(BeforeRead, agreed)
<1>6. /\ StillFresh(BeforeRead, confirmedAt) /\ Floor(BeforeRead)
      /\ BeforeRead.confirmed = seen.confirmed
  BY <1>1, BeforeFresh
<1>7. /\ Floor(c)
      /\ seen.confirmed => c.confirmed /\ StillFresh(c, confirmedAt)
      /\ ~seen.confirmed => \/ ~c.confirmed /\ StillFresh(c, confirmedAt)
                            \/ c.confirmed /\ StillFresh(c, time)
  BY <1>1, <1>4, <1>6, CheckedFresh
<1>. HIDE DEF c
<1>8. \A at \in Nat : StillFresh(c, at) => /\ StillFresh(seen', at) /\ Floor(seen')
                                      /\ seen'.confirmed = c.confirmed
  <2>. SUFFICES ASSUME NEW at \in Nat, StillFresh(c, at)
                PROVE  StillFresh(seen', at) /\ Floor(seen') /\ seen'.confirmed = c.confirmed
    OBVIOUS
  <2>1. seen' = Advance(c, b)
    BY <1>3 DEF c
  <2>2. StillFresh(Advance(c, b), at) /\ Floor(Advance(c, b))
    BY <1>1, <1>5, <1>7, AdvanceFresh
  <2>3. c \in Fields /\ b \in Nat
    BY <1>5 DEF StillFresh, Reported
  <2>4. Advance(c, b).confirmed = c.confirmed
    BY <1>1, <2>3, AdvanceIs
  <2>. QED BY <2>1, <2>2, <2>4
<1>9. FirstConfirmed /\ UNCHANGED <<time, head, offset, read, served>>
  BY DEF ReadTime
<1>10. /\ Floor(seen')
       /\ seen.confirmed => seen'.confirmed /\ StillFresh(seen', confirmedAt)
       /\ ~seen.confirmed => \/ ~seen'.confirmed /\ StillFresh(seen', confirmedAt)
                             \/ seen'.confirmed /\ StillFresh(seen', time)
  BY <1>1, <1>7, <1>8
<1>11. NumberInv'
  BY <1>1, <1>9, <1>10, NumberMoves
<1>12. \A q \in BlockReaders : ReadSound(q)'
  BY <1>1, <1>9, OtherReads, BlockNumbers DEF SeenInv
<1>. QED BY <1>9, <1>11, <1>12 DEF SeenInv, NumberInv

(* OneRead. A step of one read, given what it makes of that read.          *)
LEMMA OneRead ==
  ASSUME SeenInv, NumberInv', NEW r \in BlockReaders, NEW f \in ReadFields,
         read' = [read EXCEPT ![r] = f], UNCHANGED <<head, offset>>, served <= served',
         ReadSound(r)'
  PROVE  SeenInv'
<1>1. served \in Nat /\ served' \in Nat /\ ClockSound
  BY DEF SeenInv, NumberInv
<1>2. ASSUME NEW q \in BlockReaders PROVE ReadSound(q)'
  <2>1. CASE q = r
    BY <2>1
  <2>2. CASE q # r
    <3>1. read'[q] = read[q] /\ read[q] \in ReadFields /\ ReadSound(q)
      BY <2>2 DEF SeenInv
    <3>. QED BY <1>1, <3>1, OtherReads, BlockNumbers
  <2>. QED BY <2>1, <2>2
<1>3. read' \in [BlockReaders -> ReadFields]
  BY DEF SeenInv
<1>. QED BY <1>2, <1>3, SeenParts DEF SeenInv, NumberInv

(* StartReadKeeps. A read starts.                                          *)
LEMMA StartReadKeeps ==
  ASSUME SeenInv, NEW r \in BlockReaders, StartRead(r)
  PROVE  SeenInv'
<1>1. /\ NumberInv /\ ClockSound /\ served \in Nat /\ served <= head /\ StillFresh(seen, confirmedAt)
      /\ read[r] \in ReadFields /\ read \in [BlockReaders -> ReadFields]
  BY DEF SeenInv, NumberInv
<1>2. UNCHANGED <<time, head, offset, served, confirmedAt>> /\ seen' = BeforeRead
  BY DEF StartRead
<1>3. NumberInv'
  <2>1. StillFresh(seen', confirmedAt) /\ Floor(seen')
    BY <1>1, <1>2, BeforeFresh
  <2>2. ClockSound' /\ confirmedAt' \in 0 .. time'
    BY <1>1, <1>2 DEF NumberInv, ClockSound
  <2>3. StillFresh(seen, confirmedAt)' /\ Floor(seen)'
    BY <1>2, <2>1 DEF StillFresh, Floor, Told
  <2>. QED BY <1>1, <1>2, <2>2, <2>3 DEF NumberInv
<1>4. served \in BlockNumber /\ seen.number \in BlockNumber /\ Highest(seen) \in BlockNumber
  BY <1>1, BlockNumbers
<1>5. served <= served'
  BY <1>1, <1>2
<1>6. CASE CrossCheckDue(seen)
  <2>. DEFINE f == [[read[r] EXCEPT !.at = "checking"] EXCEPT !.floor = served]
  <2>1. read' = [read EXCEPT ![r] = f]
    BY <1>1, <1>6 DEF StartRead
  <2>2. f \in ReadFields /\ f.at = "checking" /\ f.floor = served
    BY <1>1, <1>4 DEF ReadFields
  <2>. HIDE DEF f
  <2>3. read'[r] = f
    BY <1>1, <2>1
  <2>4. ReadSound(r)'
    BY <1>2, <1>5, <2>2, <2>3 DEF ReadSound
  <2>. QED BY <1>2, <1>3, <1>5, <2>1, <2>2, <2>4, OneRead
<1>7. CASE ~CrossCheckDue(seen)
  <2>. DEFINE f == [Bounded(r, seen) EXCEPT !.floor = served]
  <2>1. read' = [read EXCEPT ![r] = f]
    BY <1>1, <1>7 DEF StartRead
  <2>2. f \in ReadFields /\ f.at = "asking" /\ f.floor = served /\ f.lowest = seen.number
    BY <1>1, <1>4 DEF ReadFields, Bounded
  <2>. HIDE DEF f
  <2>3. read'[r] = f
    BY <1>1, <2>1
  <2>4. served <= seen.number + AgreeWithin
    BY DEF SeenInv, Floor
  <2>5. ReadSound(r)'
    BY <1>2, <2>2, <2>3, <2>4 DEF ReadSound
  <2>. QED BY <1>2, <1>3, <1>5, <2>1, <2>2, <2>5, OneRead
<1>. QED BY <1>6, <1>7

(* CollectKeeps. The nodes have answered.                                  *)
LEMMA CollectKeeps ==
  ASSUME SeenInv, NEW r \in BlockReaders, CollectHeads(r)
  PROVE  SeenInv'
<1>1. /\ NumberInv /\ ClockSound /\ served \in Nat
      /\ read[r] \in ReadFields /\ read \in [BlockReaders -> ReadFields]
  BY DEF SeenInv, NumberInv
<1>2. PICK b \in CrossChecks : read' = [read EXCEPT ![r].at = "agreed", ![r].block = b]
  BY DEF CollectHeads
<1>3. UNCHANGED <<time, head, offset, seen, served, confirmedAt>> /\ read[r].at = "checking"
  BY DEF CollectHeads
<1>4. NumberInv'
  BY <1>1, <1>3, NumberStays
<1>5. b = NoBlock \/ Known(b)
  BY <1>1, ChecksKnown
<1>6. b \in BlockNumber \cup {NoBlock}
  BY <1>1, <1>5, ReportsBounded, BlockNumbers
<1>. DEFINE f == [read[r] EXCEPT !.at = "agreed", !.block = b]
<1>7. read' = [read EXCEPT ![r] = f]
  BY <1>1, <1>2
<1>8. f \in ReadFields /\ f.at = "agreed" /\ f.block = b /\ f.floor = read[r].floor
  BY <1>1, <1>6 DEF ReadFields
<1>9. read[r].floor <= served
  BY <1>3 DEF SeenInv, ReadSound
<1>. HIDE DEF f
<1>10. read'[r] = f
  BY <1>1, <1>7
<1>11. ReadSound(r)'
  <2>1. Known(b) => Known(b)'
    BY <1>3 DEF Known
  <2>. QED BY <1>3, <1>5, <1>8, <1>9, <1>10, <2>1 DEF ReadSound, Known
<1>12. served <= served'
  BY <1>1, <1>3
<1>. QED BY <1>3, <1>4, <1>7, <1>8, <1>11, <1>12, OneRead

(* ConfirmAgreedKeeps. What the nodes agree on is confirmed.               *)
LEMMA ConfirmAgreedKeeps ==
  ASSUME SeenInv, NEW r \in BlockReaders, ConfirmAgreed(r)
  PROVE  SeenInv'
<1>1. /\ NumberInv /\ ClockSound /\ served \in Nat /\ served <= head /\ confirmedAt \in Nat
      /\ StillFresh(seen, confirmedAt) /\ Floor(seen)
      /\ read[r] \in ReadFields /\ read \in [BlockReaders -> ReadFields]
  BY SeenNumbers DEF SeenInv, NumberInv, ClockSound
<1>2. /\ read[r].at = "agreed" /\ seen' = CrossChecked(seen, read[r].block)
      /\ read' = [read EXCEPT ![r] = Bounded(r, seen')]
      /\ FirstConfirmed /\ UNCHANGED <<time, head, offset, served>>
  BY DEF ConfirmAgreed
<1>3. read[r].block = NoBlock \/ Known(read[r].block)
  BY <1>2 DEF SeenInv, ReadSound
<1>. DEFINE c == CrossChecked(seen, read[r].block)
<1>4. /\ Floor(c)
      /\ seen.confirmed => c.confirmed /\ StillFresh(c, confirmedAt)
      /\ ~seen.confirmed => \/ ~c.confirmed /\ StillFresh(c, confirmedAt)
                            \/ c.confirmed /\ StillFresh(c, time)
  BY <1>1, <1>3, CheckedFresh
<1>5. seen' = c
  BY <1>2
<1>. HIDE DEF c
<1>6. NumberInv'
  BY <1>1, <1>2, <1>4, <1>5, NumberMoves
<1>7. seen'.number \in BlockNumber /\ Highest(seen') \in BlockNumber
  BY <1>1, <1>4, <1>5, BlockNumbers
<1>8. Bounded(r, seen') \in ReadFields /\ Bounded(r, seen').at = "asking"
      /\ Bounded(r, seen').lowest = seen'.number /\ Bounded(r, seen').floor = read[r].floor
  BY <1>1, <1>7 DEF ReadFields, Bounded
<1>9. read'[r] = Bounded(r, seen')
  BY <1>1, <1>2
<1>10. read[r].floor <= seen'.number + AgreeWithin
  <2>1. read[r].floor <= served
    BY <1>2 DEF SeenInv, ReadSound
  <2>2. served <= seen'.number + AgreeWithin
    BY <1>4, <1>5 DEF Floor
  <2>3. read[r].floor \in Nat /\ seen'.number \in Nat /\ AgreeWithin \in Nat
    BY <1>1, <1>7, BlockNumbers, SeenNumbers DEF ReadFields
  <2>. QED BY <1>1, <2>1, <2>2, <2>3
<1>11. ReadSound(r)'
  BY <1>8, <1>9, <1>10 DEF ReadSound
<1>12. served <= served'
  BY <1>1, <1>2
<1>. QED BY <1>2, <1>6, <1>8, <1>11, <1>12, OneRead

(* AskKeeps. A node is asked and answers.                                  *)
LEMMA AskKeeps ==
  ASSUME SeenInv, NEW r \in BlockReaders, NEW n \in Nodes, AskNode(r, n)
  PROVE  SeenInv'
<1>1. /\ NumberInv /\ ClockSound /\ served \in Nat
      /\ read[r] \in ReadFields /\ read \in [BlockReaders -> ReadFields]
  BY DEF SeenInv, NumberInv
<1>2. PICK b \in Latest(n) :
        /\ ~Refused(r, b)
        /\ read' = [read EXCEPT ![r].at = "noting", ![r].block = b, ![r].real = (b <= head)]
  BY DEF AskNode
<1>3. UNCHANGED <<time, head, offset, seen, served, confirmedAt>> /\ read[r].at = "asking"
  BY DEF AskNode
<1>4. NumberInv'
  BY <1>1, <1>3, NumberStays
<1>5. Reported(b)
  BY <1>1, ReportsBounded
<1>6. b \in BlockNumber /\ b \in Nat
  BY <1>1, <1>5, BlockNumbers
<1>7. read[r].lowest <= b
  <2>1. read[r].lowest \in Nat
    BY <1>1, BlockNumbers DEF ReadFields
  <2>. QED BY <1>2, <1>6, <2>1 DEF Refused
<1>8. read[r].floor <= read[r].lowest + AgreeWithin
  BY <1>3 DEF SeenInv, ReadSound
<1>. PICK v \in BOOLEAN : v <=> b <= head
  OBVIOUS
<1>. DEFINE f == [read[r] EXCEPT !.at = "noting", !.block = b, !.real = v]
<1>9. read' = [read EXCEPT ![r] = f]
  <2>1. v = (b <= head)
    OBVIOUS
  <2>. QED BY <1>1, <1>2, <2>1
<1>10. /\ f \in ReadFields /\ f.at = "noting" /\ f.block = b /\ f.floor = read[r].floor
       /\ f.lowest = read[r].lowest
  BY <1>1, <1>6 DEF ReadFields
<1>11. f.real => b <= head
  BY <1>1 DEF ReadFields
<1>. HIDE DEF f
<1>12. read'[r] = f
  BY <1>1, <1>9
<1>13. ReadSound(r)'
  <2>1. Reported(b)'
    BY <1>3, <1>5 DEF Reported
  <2>2. f.real => b <= head'
    BY <1>3, <1>11
  <2>. QED BY <1>7, <1>8, <1>10, <1>12, <2>1, <2>2 DEF ReadSound, Reported
<1>14. served <= served'
  BY <1>1, <1>3
<1>. QED BY <1>3, <1>4, <1>9, <1>10, <1>13, <1>14, OneRead

(* NoReadIs. No read is under way.                                         *)
LEMMA NoReadIs ==
  ASSUME ClockSound PROVE NoRead \in ReadFields /\ NoRead.at = "idle"
BY BlockNumbers DEF NoRead, ReadFields

(* FailedKeeps. A read fails.                                              *)
LEMMA FailedKeeps ==
  ASSUME SeenInv, NEW r \in BlockReaders, ReadFailed(r)
  PROVE  SeenInv'
<1>1. /\ NumberInv /\ ClockSound /\ served \in Nat /\ read \in [BlockReaders -> ReadFields]
  BY DEF SeenInv, NumberInv
<1>2. /\ UNCHANGED <<time, head, offset, seen, served, confirmedAt>>
      /\ read' = [read EXCEPT ![r] = NoRead]
  BY DEF ReadFailed
<1>3. NumberInv'
  BY <1>1, <1>2, NumberStays
<1>4. ReadSound(r)'
  BY <1>1, <1>2, NoReadIs DEF ReadSound
<1>5. served <= served'
  BY <1>1, <1>2
<1>. QED BY <1>1, <1>2, <1>3, <1>4, <1>5, OneRead, NoReadIs

(* NoteKeeps. A read has its answer and notes its block.                   *)
LEMMA NoteKeeps ==
  ASSUME SeenInv, NEW r \in BlockReaders, NoteBlock(r)
  PROVE  SeenInv'
<1>1. /\ NumberInv /\ ClockSound /\ served \in Nat /\ served <= head /\ confirmedAt \in Nat
      /\ StillFresh(seen, confirmedAt) /\ Floor(seen) /\ AgreeWithin \in Nat /\ head \in Nat
      /\ read[r] \in ReadFields /\ read \in [BlockReaders -> ReadFields]
  BY SeenNumbers DEF SeenInv, NumberInv, ClockSound
<1>2. PICK b : b = read[r].block
  OBVIOUS
<1>3. /\ read[r].at = "noting" /\ seen' = Advance(seen, b)
      /\ served' = IF read[r].real /\ b <= seen'.number THEN Max({served, b}) ELSE served
      /\ read' = [read EXCEPT ![r] = NoRead]
      /\ UNCHANGED <<time, head, offset, confirmedAt>>
  BY <1>2 DEF NoteBlock
<1>4. Reported(b) /\ (read[r].real => b <= head)
  BY <1>2, <1>3 DEF SeenInv, ReadSound
<1>5. b \in Nat
  BY <1>4 DEF Reported
<1>6. StillFresh(seen', confirmedAt) /\ Floor(seen')
  BY <1>1, <1>3, <1>4, AdvanceFresh
<1>7. PICK k \in Nat : k = seen'.number
  BY <1>6 DEF StillFresh, Fields
<1>8. served' \in Nat /\ served <= served' /\ served' <= head /\ served' <= k + AgreeWithin
  <2>1. served <= k + AgreeWithin
    BY <1>6, <1>7 DEF Floor
  <2>2. CASE read[r].real /\ b <= k
    <3>1. served' = Max({served, b})
      BY <1>3, <1>7, <2>2
    <3>2. PICK cap \in Nat : {served, b} \in SUBSET (0 .. cap)
      <4>1. served + b \in Nat /\ {served, b} \in SUBSET (0 .. served + b)
        BY <1>1, <1>5
      <4>. QED BY <4>1
    <3>3. Max({served, b}) \in {served, b} /\ \A x \in {served, b} : x <= Max({served, b})
      BY <3>2, LargestIn
    <3>4. served' = served \/ served' = b
      BY <3>1, <3>3
    <3>5. served <= served'
      BY <3>1, <3>3
    <3>. QED BY <1>1, <1>4, <1>5, <2>1, <2>2, <3>4, <3>5
  <2>3. CASE ~(read[r].real /\ b <= k)
    <3>1. served' = served
      BY <1>3, <1>7, <2>3, Zenon
    <3>. QED BY <1>1, <2>1, <3>1
  <2>. QED BY <2>2, <2>3
<1>9. NumberInv'
  <2>1. ClockSound' /\ confirmedAt' \in 0 .. time'
    BY <1>1, <1>3 DEF NumberInv, ClockSound
  <2>2. StillFresh(seen, confirmedAt)'
    BY <1>3, <1>6 DEF StillFresh, Told
  <2>3. Floor(seen)' /\ served' <= head'
    BY <1>3, <1>7, <1>8 DEF Floor
  <2>. QED BY <1>8, <2>1, <2>2, <2>3 DEF NumberInv
<1>10. ReadSound(r)'
  BY <1>1, <1>3, NoReadIs DEF ReadSound
<1>. QED BY <1>1, <1>3, <1>8, <1>9, <1>10, OneRead, NoReadIs

(* SeenStepKeeps. Every step keeps the invariant.                          *)
LEMMA SeenStepKeeps == SeenInv /\ [SeenNext]_seenVars => SeenInv'
<1>. SUFFICES ASSUME SeenInv, [SeenNext]_seenVars PROVE SeenInv'
  OBVIOUS
<1>1. CASE UNCHANGED seenVars
  <2>1. NumberInv' /\ UNCHANGED read
    BY <1>1, NumberStays DEF SeenInv, NumberInv, seenVars
  <2>2. \A q \in BlockReaders : ReadSound(q)'
    BY <1>1 DEF SeenInv, ReadSound, Known, Reported, seenVars
  <2>. QED BY <2>1, <2>2 DEF SeenInv, NumberInv
<1>2. CASE \E r \in BlockReaders : ReadStep(r)
  <2>1. PICK r \in BlockReaders : ReadStep(r)
    BY <1>2
  <2>. QED
    BY <2>1, StartReadKeeps, CollectKeeps, ConfirmAgreedKeeps, AskKeeps, FailedKeeps, NoteKeeps
    DEF ReadStep
<1>. QED
  BY <1>1, <1>2, TickKeeps, ReceiptKeeps, ReadTimeKeeps DEF SeenNext

(* SeenNotBack. A read that ends was at a block no older, but for a        *)
(* minute, than those remembered when it started.                          *)
LEMMA SeenNotBack == SeenInv => ReadsNeverGoBack
<1>. SUFFICES ASSUME SeenInv, NEW r \in BlockReaders, read[r].at = "noting"
              PROVE  read[r].block + AgreeWithin >= read[r].floor
  BY DEF ReadsNeverGoBack
<1>1. /\ read[r].lowest <= read[r].block /\ read[r].floor <= read[r].lowest + AgreeWithin
      /\ Reported(read[r].block)
  BY DEF SeenInv, ReadSound
<1>2. /\ read[r].lowest \in Nat /\ read[r].floor \in Nat /\ read[r].block \in Nat
      /\ AgreeWithin \in Nat
  BY <1>1, BlockNumbers, SeenNumbers DEF SeenInv, ReadFields, Reported
<1>. QED BY <1>1, <1>2

-----------------------------------------------------------------------------
(* The EIP-712 domain.                                                     *)

(* The domain in use, with what else the step of an agreement needs.       *)
DomainInv == DomainTypeOK /\ DomainUsable

(* InitDomainInv. The domain read at startup is one dipper can reproduce.  *)
LEMMA InitDomainInv == DomainInit => DomainInv
<1>. SUFFICES ASSUME DomainInit PROVE DomainInv
  OBVIOUS
<1>. USE DEF DomainInit
<1>1. rdContract \in Domains /\ rdShared \in Domains /\ rdBefore \in Domains
  BY DomainAssumption DEF Domains, Shapes
<1>2. rdRow \in [Rcas -> [at : RowStates, hash : Domains \cup {NoHash}]]
  BY DEF RowStates
<1>3. rdTries \in [Rcas -> 0 .. CallRetries] /\ rdLagged \in 0 .. LaggingReads
  BY DomainAssumption
<1>4. rdApart \in [Rcas -> BOOLEAN]
  BY Zenon
<1>5. rdSigned \in [Rcas -> Domains \cup {NoHash}] /\ rdOffer \in [Rcas -> Domains \cup {NoHash}]
  OBVIOUS
<1>6. rdShared.shape = "plain"
  OBVIOUS
<1>. QED BY <1>1, <1>2, <1>3, <1>4, <1>5, <1>6 DEF DomainInv, DomainTypeOK, DomainUsable

(* RefreshKeeps. The contract's upgrades and the refresh task.             *)
LEMMA RefreshKeeps ==
  ASSUME DomainInv,
         Upgrade \/ StopRefresh \/ HearStopRefresh \/ RefreshTick \/ ReadDomain \/ ReadStale
  PROVE  DomainInv'
<1>. USE DEF DomainInv, DomainTypeOK, DomainUsable
<1>1. CASE Upgrade
  <2>1. rdContract' \in Domains
    <3>1. PICK shape \in Shapes : rdContract' = [gen |-> rdContract.gen + 1, shape |-> shape]
      BY <1>1 DEF Upgrade
    <3>2. rdContract.gen + 1 \in 0 .. MaxUpgrades
      <4>1. rdContract.gen \in 0 .. MaxUpgrades
        BY DEF Domains
      <4>. QED BY <1>1, <4>1, DomainAssumption DEF Upgrade
    <3>. QED BY <3>1, <3>2 DEF Domains
  <2>2. rdApart' \in [Rcas -> BOOLEAN]
    BY <1>1, Zenon DEF Upgrade
  <2>. QED BY <1>1, <2>1, <2>2 DEF Upgrade
<1>2. CASE StopRefresh
  BY <1>2 DEF StopRefresh, rdAgreementVars
<1>3. CASE HearStopRefresh
  BY <1>3 DEF HearStopRefresh, rdAgreementVars
<1>4. CASE RefreshTick
  BY <1>4 DEF RefreshTick, rdAgreementVars
<1>5. CASE ReadDomain
  BY <1>5 DEF ReadDomain, SwapDomain, DomainFromReport, AfterRefreshFailure, rdAgreementVars
<1>6. CASE ReadStale
  <2>1. rdLagged' \in 0 .. LaggingReads
    BY <1>6, DomainAssumption DEF ReadStale
  <2>2. /\ rdAt' = "waiting"
        /\ rdShared' = rdShared \/ (rdShared' = rdBefore /\ rdBefore.shape = "plain")
    BY <1>6 DEF ReadStale, SwapDomain, DomainFromReport, AfterRefreshFailure
  <2>. QED BY <1>6, <2>1, <2>2 DEF ReadStale, rdAgreementVars
<1>. QED BY <1>1, <1>2, <1>3, <1>4, <1>5, <1>6

(* AgreementKeeps. What an agreement does with the domain leaves it be.    *)
LEMMA AgreementKeeps == DomainInv /\ AgreementStep => DomainInv'
<1>. SUFFICES ASSUME DomainInv, AgreementStep PROVE DomainInv'
  OBVIOUS
<1>. USE DEF DomainInv, DomainTypeOK, DomainUsable, RowStates
<1>0. PICK a \in Rcas :
        \/ Plan(a) \/ SignProposal(a) \/ SendAgain(a) \/ GiveUpProposal(a)
        \/ ProposalAnswered(a) \/ OfferMined(a) \/ StartCancel(a) \/ CancelMined(a)
  BY DEF AgreementStep
<1>1. CASE Plan(a)
  <2>1. rdApart' \in [Rcas -> BOOLEAN]
    <3>1. PICK v \in BOOLEAN : v <=> rdShared # rdContract
      BY Zenon
    <3>2. rdApart' = [rdApart EXCEPT ![a] = v]
      BY <1>1, <3>1, Zenon DEF Plan
    <3>. QED BY <3>2
  <2>2. rdRow' \in [Rcas -> [at : RowStates, hash : Domains \cup {NoHash}]]
    BY <1>1 DEF Plan, VersionHash
  <2>. QED BY <1>1, <2>1, <2>2 DEF Plan
<1>2. CASE SignProposal(a)
  BY <1>2 DEF SignProposal
<1>3. CASE SendAgain(a)
  <2>1. rdTries' \in [Rcas -> 0 .. CallRetries]
    BY <1>3, DomainAssumption DEF SendAgain
  <2>. QED BY <1>3, <2>1 DEF SendAgain
<1>4. CASE GiveUpProposal(a)
  BY <1>4 DEF GiveUpProposal
<1>5. CASE ProposalAnswered(a)
  BY <1>5 DEF ProposalAnswered
<1>6. CASE OfferMined(a)
  BY <1>6 DEF OfferMined
<1>7. CASE StartCancel(a)
  BY <1>7 DEF StartCancel
<1>8. CASE CancelMined(a)
  BY <1>8 DEF CancelMined
<1>. QED BY <1>0, <1>1, <1>2, <1>3, <1>4, <1>5, <1>6, <1>7, <1>8

(* DomainStepKeeps. Every step keeps the domain in use reproducible.       *)
LEMMA DomainStepKeeps == DomainInv /\ [DomainNext]_rdVars => DomainInv'
<1>1. DomainInv /\ UNCHANGED rdVars => DomainInv'
  BY DEF DomainInv, DomainTypeOK, DomainUsable, rdVars
<1>. QED BY <1>1, RefreshKeeps, AgreementKeeps DEF DomainNext

-----------------------------------------------------------------------------
(* The lists of the escrow reconciler.                                     *)

(* EscNumbers. The constants, as numbers.                                  *)
LEMMA EscNumbers ==
  /\ SweepInterval \in Nat /\ Period \in Nat \ {0} /\ BatchSize \in Nat
  /\ PerSweep \in Nat \ {0} /\ EscHorizon \in Nat /\ EscFaults \in Nat /\ EscChanges \in Nat
  /\ \A p \in Providers : Slot[p] \in Nat
BY EscrowAssumption

(* WithoutIs. A list without one of its entries is one shorter and has no  *)
(* entry it had not before.                                                *)
LEMMA WithoutIs ==
  ASSUME NEW S, NEW list \in Seq(S), NEW e \in Range(list)
  PROVE  /\ Without(list, e) \in Seq(S) /\ Len(Without(list, e)) = Len(list) - 1
         /\ Range(Without(list, e)) \subseteq Range(list)
<1>1. PICK n \in Nat : n = Len(list) /\ list \in [1 .. n -> S]
  OBVIOUS
<1>2. PICK i \in 1 .. n : i = CHOOSE k \in 1 .. Len(list) : list[k] = e
  <2>1. \E k \in 1 .. n : list[k] = e
    BY <1>1 DEF Range
  <2>. QED BY <1>1, <2>1
<1>. DEFINE l == [list EXCEPT ![i] = Last(list)]
<1>3. n >= 1 /\ Last(list) = list[n] /\ list[n] \in S
  BY <1>1, <1>2 DEF Last
<1>4. l \in [1 .. n -> S] /\ \A k \in 1 .. n : l[k] = list[k] \/ l[k] = list[n]
  BY <1>1, <1>2, <1>3
<1>5. l \in Seq(S) /\ Len(l) = n
  BY <1>4
<1>6. Without(list, e) = SubSeq(l, 1, n - 1)
  BY <1>1, <1>2, <1>5 DEF Without, Front
<1>. HIDE DEF l
<1>7. SubSeq(l, 1, n - 1) \in Seq(S) /\ Len(SubSeq(l, 1, n - 1)) = n - 1
      /\ \A k \in 1 .. n - 1 : SubSeq(l, 1, n - 1)[k] = l[k]
  BY <1>3, <1>5
<1>8. Range(SubSeq(l, 1, n - 1)) \subseteq Range(list)
  <2>. SUFFICES ASSUME NEW x \in Range(SubSeq(l, 1, n - 1)) PROVE x \in Range(list)
    OBVIOUS
  <2>1. PICK k \in 1 .. n - 1 : x = SubSeq(l, 1, n - 1)[k]
    BY <1>1, <1>7 DEF Range
  <2>2. x = list[k] \/ x = list[n]
    BY <1>4, <1>7, <2>1
  <2>. QED BY <1>1, <1>3, <2>2 DEF Range
<1>. QED BY <1>1, <1>6, <1>7, <1>8

(* KeptIs. What is kept of a list are entries of it.                       *)
LEMMA KeptIs ==
  ASSUME NEW T, NEW list \in Seq(T), NEW S
  PROVE  Kept(list, S) \in Seq(T)
<1>1. PICK n \in Nat : n = Len(list) /\ list \in [1 .. n -> T]
  OBVIOUS
<1>. DEFINE Step(f, k) ==
              IF k = 0 THEN <<>>
              ELSE IF list[k] \in S THEN Append(f[k - 1], list[k]) ELSE f[k - 1]
            Has(m) == \E f \in [0 .. m -> Seq(T)] : \A k \in 0 .. m : f[k] = Step(f, k)
            Bad == {m \in 0 .. n : ~Has(m)}
<1>2. Has(0)
  <2>. DEFINE g == [k \in 0 .. 0 |-> <<>>]
  <2>1. g \in [0 .. 0 -> Seq(T)] /\ \A k \in 0 .. 0 : g[k] = Step(g, k)
    OBVIOUS
  <2>. QED BY <2>1
<1>3. ASSUME NEW m \in 0 .. n - 1, Has(m) PROVE Has(m + 1)
  <2>1. PICK f \in [0 .. m -> Seq(T)] : \A k \in 0 .. m : f[k] = Step(f, k)
    BY <1>3
  <2>2. PICK last \in Seq(T) : last = IF list[m + 1] \in S THEN Append(f[m], list[m + 1]) ELSE f[m]
    <3>1. f[m] \in Seq(T) /\ list[m + 1] \in T
      BY <1>1
    <3>2. Append(f[m], list[m + 1]) \in Seq(T)
      BY <3>1
    <3>. QED BY <3>1, <3>2
  <2>. DEFINE g == [k \in 0 .. m + 1 |-> IF k <= m THEN f[k] ELSE last]
  <2>3. g \in [0 .. m + 1 -> Seq(T)]
    OBVIOUS
  <2>4. ASSUME NEW k \in 0 .. m + 1 PROVE g[k] = Step(g, k)
    <3>1. CASE k = 0
      <4>1. f[0] = <<>>
        BY <2>1
      <4>. QED BY <3>1, <4>1
    <3>2. CASE k \in 1 .. m
      <4>1. g[k] = f[k] /\ g[k - 1] = f[k - 1] /\ k # 0
        BY <3>2
      <4>2. k \in 0 .. m
        BY <3>2
      <4>3. f[k] = Step(f, k)
        BY <2>1, <4>2, Zenon
      <4>. HIDE DEF g
      <4>. QED BY <4>1, <4>3
    <3>3. CASE k = m + 1
      <4>1. g[k] = last /\ g[k - 1] = f[m] /\ k # 0
        BY <3>3
      <4>. HIDE DEF g
      <4>. QED BY <2>2, <3>3, <4>1
    <3>. QED BY <3>1, <3>2, <3>3
  <2>. QED BY <2>3, <2>4
<1>. HIDE DEF Has
<1>4. Has(n)
  <2>. SUFFICES ASSUME Bad # {} PROVE FALSE
    OBVIOUS
  <2>1. PICK m \in Bad : \A x \in Bad : m <= x
    <3>1. Bad \in SUBSET Nat
      OBVIOUS
    <3>. HIDE DEF Bad
    <3>. QED BY <3>1, SmallestIn
  <2>2. m # 0
    BY <1>2
  <2>3. m - 1 \in 0 .. n - 1 /\ m - 1 \notin Bad /\ (m - 1) + 1 = m
    BY <2>1, <2>2
  <2>4. Has((m - 1) + 1)
    BY <1>3, <2>3
  <2>. QED BY <2>3, <2>4
<1>5. PICK f \in [0 .. n -> Seq(T)] : \A k \in 0 .. n : f[k] = Step(f, k)
  BY <1>4 DEF Has
<1>. DEFINE kept == CHOOSE g : g = [k \in 0 .. Len(list) |->
                IF k = 0 THEN <<>>
                ELSE IF list[k] \in S THEN Append(g[k - 1], list[k]) ELSE g[k - 1]]
<1>6. f = [k \in 0 .. Len(list) |->
             IF k = 0 THEN <<>>
             ELSE IF list[k] \in S THEN Append(f[k - 1], list[k]) ELSE f[k - 1]]
  BY <1>1, <1>5
<1>7. kept = [k \in 0 .. Len(list) |->
                IF k = 0 THEN <<>>
                ELSE IF list[k] \in S THEN Append(kept[k - 1], list[k]) ELSE kept[k - 1]]
  BY <1>6, Zenon
<1>8. Kept(list, S) = kept[Len(list)]
  BY Zenon DEF Kept
<1>. HIDE DEF kept
<1>. DEFINE Odd == {k \in 0 .. n : kept[k] \notin Seq(T)}
<1>9. Odd = {}
  <2>. SUFFICES ASSUME Odd # {} PROVE FALSE
    OBVIOUS
  <2>1. PICK m \in Odd : \A x \in Odd : m <= x
    <3>1. Odd \in SUBSET Nat
      OBVIOUS
    <3>. HIDE DEF Odd
    <3>. QED BY <3>1, SmallestIn
  <2>2. m # 0
    <3>1. kept[0] = <<>>
      BY <1>1, <1>7
    <3>2. <<>> \in Seq(T)
      OBVIOUS
    <3>. QED BY <2>1, <3>1, <3>2
  <2>3. m - 1 \in 0 .. n /\ m - 1 \notin Odd
    BY <2>1, <2>2
  <2>4. kept[m - 1] \in Seq(T) /\ list[m] \in T
    BY <1>1, <2>1, <2>2, <2>3
  <2>5. kept[m] = IF list[m] \in S THEN Append(kept[m - 1], list[m]) ELSE kept[m - 1]
    BY <1>1, <1>7, <2>1, <2>2
  <2>6. kept[m] \in Seq(T)
    BY <2>4, <2>5
  <2>. QED BY <2>1, <2>6
<1>. QED BY <1>1, <1>8, <1>9

(* OrderedIs. A finite set can be listed.                                  *)
LEMMA OrderedIs ==
  ASSUME NEW S, IsFiniteSet(S)
  PROVE  SetToSeq(S) \in Seq(S)
<1>1. PICK n \in Nat : n = Cardinality(S) /\ ExistsBijection(1 .. n, S)
  BY FS_CardinalityType
<1>2. PICK f \in Bijection(1 .. n, S) : TRUE
  BY <1>1 DEF ExistsBijection
<1>3. f \in [1 .. n -> S] /\ IsInjective(f)
  BY <1>2 DEF Bijection, Injection, IsInjective
<1>4. SetToSeq(S) \in [1 .. n -> S]
  BY <1>1, <1>3, Zenon DEF SetToSeq
<1>. QED BY <1>4

(* SlotBetween. A slot between two times is seen by a window around it.    *)
LEMMA SlotBetween ==
  ASSUME NEW p \in Providers, NEW from \in Nat, NEW to \in Nat, NEW t \in from + 1 .. to,
         RebalanceDue(p, t - 1, t)
  PROVE  RebalanceDue(p, from, to)
<1>1. PICK s \in Nat, d \in Nat \ {0} : s = Slot[p] /\ d = Period
  BY EscNumbers
<1>2. PICK a \in Nat, b \in Nat, x \in Nat, y \in Nat :
        a = from + s /\ x = (t - 1) + s /\ y = t + s /\ b = to + s
        /\ a <= x /\ x < y /\ y <= b
  <2>1. from + s \in Nat /\ (t - 1) + s \in Nat /\ t + s \in Nat /\ to + s \in Nat
        /\ from + s <= (t - 1) + s /\ (t - 1) + s < t + s /\ t + s <= to + s
    OBVIOUS
  <2>. QED BY <2>1
<1>3. \A u \in Nat : u \div d \in Nat /\ d * (u \div d) <= u /\ u < d * (u \div d) + d
  <2>1. \A u \in Nat : u \div d \in Nat /\ u % d \in 0 .. d - 1 /\ u = d * (u \div d) + (u % d)
    OBVIOUS
  <2>2. \A u \in Nat : d * (u \div d) \in Nat
    BY <2>1
  <2>. QED BY <2>1, <2>2
<1>4. ASSUME NEW u \in Nat, NEW v \in Nat, u <= v PROVE u \div d <= v \div d
  <2>1. PICK q \in Nat, r \in Nat : q = u \div d /\ r = v \div d
    BY <1>3
  <2>2. d * q <= u /\ v < d * r + d
    BY <1>3, <2>1
  <2>3. ASSUME r < q PROVE FALSE
    <3>1. PICK j \in Nat : q = r + 1 + j
      <4>1. q - r - 1 \in Nat /\ q = r + 1 + (q - r - 1)
        BY <2>3
      <4>. QED BY <4>1
    <3>2. d * q = d * r + d + d * j /\ d * j \in Nat /\ d * r \in Nat
      BY <3>1
    <3>. QED BY <1>4, <2>2, <3>2
  <2>. QED BY <2>1, <2>3
<1>5. PICK i \in Nat, j \in Nat, k \in Nat, l \in Nat :
        i = a \div d /\ j = x \div d /\ k = y \div d /\ l = b \div d
  BY <1>3
<1>6. i <= j /\ j <= k /\ k <= l
  <2>1. a \div d <= x \div d /\ x \div d <= y \div d /\ y \div d <= b \div d
    BY <1>2, <1>4
  <2>. QED BY <1>5, <2>1
<1>7. j # k
  BY <1>1, <1>2, <1>5 DEF RebalanceDue
<1>8. i # l
  BY <1>6, <1>7
<1>9. to > from
  OBVIOUS
<1>. QED BY <1>1, <1>2, <1>5, <1>8, <1>9 DEF RebalanceDue

Counted == [provider : Providers, count : Nat]

(* SumsAre. The agreements of the first providers add up.                  *)
LEMMA SumsAre ==
  ASSUME NEW counts \in Seq(Counted)
  PROVE  /\ \A k \in 0 .. Len(counts) : Sums(counts)[k] \in Nat
         /\ Sums(counts)[0] = 0
         /\ \A k \in 1 .. Len(counts) : Sums(counts)[k] = Sums(counts)[k - 1] + counts[k].count
<1>1. PICK m \in Nat : m = Len(counts) /\ \A k \in 1 .. m : counts[k].count \in Nat
  <2>1. Len(counts) \in Nat /\ \A k \in 1 .. Len(counts) : counts[k] \in Counted
    OBVIOUS
  <2>2. \A c \in Counted : c.count \in Nat
    BY DEF Counted
  <2>. QED BY <2>1, <2>2
<1>. DEFINE d == [n \in Nat |-> IF n + 1 \in 1 .. m THEN counts[n + 1].count ELSE 0]
<1>2. d \in [Nat -> Nat]
  BY <1>1
<1>3. \A k \in 1 .. m : d[k - 1] = counts[k].count
  OBVIOUS
<1>. HIDE DEF d
<1>4. PICK f \in [0 .. m -> Nat] : f[0] = 0 /\ \A k \in 1 .. m : f[k] = f[k - 1] + d[k - 1]
  BY <1>2, SumExists
<1>5. f = [k \in 0 .. Len(counts) |-> IF k = 0 THEN 0 ELSE f[k - 1] + counts[k].count]
  BY <1>1, <1>3, <1>4
<1>. DEFINE sum == Sums(counts)
<1>6. sum = [k \in 0 .. Len(counts) |-> IF k = 0 THEN 0 ELSE sum[k - 1] + counts[k].count]
  BY <1>5, Zenon DEF Sums
<1>. HIDE DEF sum
<1>7. sum[0] = 0 /\ \A k \in 1 .. m : sum[k] = sum[k - 1] + counts[k].count
  <2>1. \A k \in 0 .. m : sum[k] = IF k = 0 THEN 0 ELSE sum[k - 1] + counts[k].count
    BY <1>1, <1>6, Zenon
  <2>2. 0 \in 0 .. m /\ \A k \in 1 .. m : k \in 0 .. m /\ k # 0
    OBVIOUS
  <2>. QED BY <2>1, <2>2, Zenon
<1>8. \A k \in 1 .. m : sum[k] = sum[k - 1] + d[k - 1]
  BY <1>3, <1>7
<1>9. \A k \in 0 .. m : sum[k] \in Nat
  BY <1>2, <1>7, <1>8, SumTyped
<1>. QED BY <1>1, <1>7, <1>9 DEF sum

(* LocatedIs. Every position is one of a provider's agreements.            *)
LEMMA LocatedIs ==
  ASSUME NEW counts \in Seq(Counted), NEW pos \in Nat, pos < Total(counts)
  PROVE  Located(counts, pos).provider \in Providers /\ Located(counts, pos).index \in Nat
<1>1. PICK m \in Nat : m = Len(counts) /\ \A k \in 1 .. m : counts[k].provider \in Providers
  <2>1. Len(counts) \in Nat /\ \A k \in 1 .. Len(counts) : counts[k] \in Counted
    OBVIOUS
  <2>2. \A c \in Counted : c.provider \in Providers
    BY DEF Counted
  <2>. QED BY <2>1, <2>2
<1>. DEFINE sum == Sums(counts)
<1>2. (\A k \in 0 .. m : sum[k] \in Nat) /\ sum[0] = 0 /\ pos < sum[m]
  BY <1>1, SumsAre DEF Total
<1>. HIDE DEF sum
<1>. DEFINE Past == {k \in 0 .. m : pos < sum[k]}
<1>3. PICK k \in Past : \A x \in Past : k <= x
  <2>1. Past \in SUBSET Nat /\ m \in Past
    BY <1>2
  <2>. HIDE DEF Past
  <2>. QED BY <2>1, SmallestIn
<1>4. k \in 1 .. m
  BY <1>2, <1>3
<1>5. k - 1 \in 0 .. m /\ k - 1 \notin Past
  BY <1>3, <1>4
<1>6. sum[k - 1] <= pos /\ pos < sum[k]
  BY <1>2, <1>3, <1>5
<1>7. \E i \in 1 .. Len(counts) : Sums(counts)[i - 1] <= pos /\ pos < Sums(counts)[i]
  BY <1>1, <1>4, <1>6 DEF sum
<1>. DEFINE i == CHOOSE i \in 1 .. Len(counts) : Sums(counts)[i - 1] <= pos /\ pos < Sums(counts)[i]
<1>8. i \in 1 .. Len(counts) /\ Sums(counts)[i - 1] <= pos /\ pos < Sums(counts)[i]
  BY <1>7, Zenon
<1>9. Located(counts, pos) = [provider |-> counts[i].provider, index |-> pos - Sums(counts)[i - 1]]
  BY Zenon DEF Located
<1>. HIDE DEF i
<1>10. i - 1 \in 0 .. m
  BY <1>1, <1>8
<1>11. Sums(counts)[i - 1] \in Nat
  BY <1>2, <1>10 DEF sum
<1>12. pos - Sums(counts)[i - 1] \in Nat
  BY <1>8, <1>11
<1>. QED BY <1>1, <1>8, <1>9, <1>12

-----------------------------------------------------------------------------
(* The escrow reconciler. The numbers and the manager's lists.             *)
BooksSound ==
  /\ escNow \in 0 .. EscHorizon
  /\ listed \in Seq(Providers)
  /\ books \in [Providers -> Seq(EscAgreements)]
  /\ over \subseteq EscAgreements /\ thawing \subseteq Providers
  /\ agreementCursor \in Nat
  /\ escFaults \in 0 .. EscFaults /\ escChanges \in 0 .. EscChanges

(* The schedule. A first window is remembered as long as the last one.     *)
ScheduleSound ==
  /\ covered \in Nowhere .. escNow /\ firstFrom \in Nowhere .. escNow
  /\ covered = Nowhere <=> firstFrom = Nowhere
  /\ owed \subseteq Providers
  /\ doneAt \in [Providers -> Nowhere .. escNow]
  /\ trackedAt \in [Providers -> Nowhere .. escNow]

SweepFields ==
  [at : {"idle", "list", "count", "scan", "release", "due", "reconcile"},
   count : Nat, next : Nat, got : Seq(Providers), complete : BOOLEAN,
   counts : Seq(Counted), found : Seq(EscAgreements) \cup Seq(Providers),
   failed : SUBSET Providers]

(* A sweep. What it has found are agreements, or the providers it sends    *)
(* for, and a scan has positions to check.                                 *)
SweepSound(s) ==
  /\ s \in SweepFields
  /\ s.at \in {"idle", "list", "count"} => s.found = <<>>
  /\ s.at # "reconcile" => s.found \in Seq(EscAgreements)
  /\ s.at = "reconcile" => s.found \in Seq(Providers)
  /\ s.at = "scan" => Total(s.counts) > 0

(* A list read to its end without a sign of a change has every provider    *)
(* the manager tracks: an entry moves into one already read only when the  *)
(* list becomes shorter, and then its last entry cannot be read.           *)
ListRead(s) ==
  s.complete =>
    /\ s.at = "list" =>
         /\ s.next <= s.count /\ Len(listed) <= s.count
         /\ Len(listed) = s.count => \A i \in 1 .. s.next : listed[i] \in Range(s.got)
         /\ s.next = s.count => Range(listed) \subseteq Range(s.got)
    /\ s.at \in {"count", "scan", "release", "due"} => Range(listed) \subseteq Range(s.got)

(* A provider reconciled by this sweep is reconciled for all that was      *)
(* handed out.                                                             *)
Reconciled(s) ==
  s.at = "reconcile" =>
    \A k \in 1 .. s.next :
      k <= Len(s.found) => s.found[k] \in s.failed \/ doneAt[s.found[k]] >= covered

(* A slot that came since the first window is owed or done.                *)
SlotsKept ==
  covered # Nowhere /\ midSweep = {} =>
    \A p \in Range(listed) : \A t \in 1 .. covered :
      /\ firstFrom < t /\ trackedAt[p] < t /\ RebalanceDue(p, t - 1, t)
      => p \in owed \/ doneAt[p] >= t

EscrowInv ==
  /\ BooksSound /\ ScheduleSound /\ SweepSound(sweep)
  /\ midSweep = {} => ListRead(sweep)
  /\ Reconciled(sweep) /\ SlotsKept

(* EscrowHolds. It gives the type invariant and NoSlotSkipped.             *)
LEMMA EscrowHolds == EscrowInv => EscrowTypeOK /\ NoSlotSkipped
<1>. SUFFICES ASSUME EscrowInv PROVE EscrowTypeOK /\ NoSlotSkipped
  OBVIOUS
<1>1. EscrowTypeOK
  <2>1. Range(listed) \subseteq Providers
    BY DEF EscrowInv, BooksSound, Range
  <2>2. sweep.at \in {"idle", "list", "count", "scan", "release", "due", "reconcile"}
        /\ sweep.found \in Seq(EscAgreements) \cup Seq(Providers)
    BY DEF EscrowInv, SweepSound, SweepFields
  <2>. QED BY <2>1, <2>2 DEF EscrowInv, BooksSound, ScheduleSound, EscrowTypeOK
<1>2. NoSlotSkipped
  <2>. SUFFICES ASSUME covered # Nowhere, midSweep = {}, NEW p \in Range(listed),
                       LastSlot(p, Max({firstFrom, trackedAt[p]}), covered) # Nowhere
                PROVE  p \in owed
                         \/ doneAt[p] >= LastSlot(p, Max({firstFrom, trackedAt[p]}), covered)
    BY Zenon DEF NoSlotSkipped
  <2>1. p \in Providers
    BY DEF EscrowInv, BooksSound, Range
  <2>2. PICK c \in Nat, f \in Nat, k \in Int : c = covered /\ f = firstFrom /\ k = trackedAt[p]
    <3>1. covered \in -1 .. escNow /\ firstFrom \in -1 .. escNow /\ escNow \in Nat
          /\ covered # -1 /\ firstFrom # -1 /\ trackedAt \in [Providers -> -1 .. escNow]
      BY DEF EscrowInv, BooksSound, ScheduleSound, Nowhere
    <3>2. covered \in Nat /\ firstFrom \in Nat /\ trackedAt[p] \in Int
      BY <2>1, <3>1
    <3>. QED BY <3>2
  <2>3. PICK m \in Nat : m = Max({f, k}) /\ f <= m /\ k <= m
    BY <2>2, MaxOfTwo
  <2>. DEFINE slots == {t \in m + 1 .. c : RebalanceDue(p, t - 1, t)}
  <2>4. LastSlot(p, m, c) = IF slots = {} THEN Nowhere ELSE Max(slots)
    BY DEF LastSlot
  <2>5. LastSlot(p, m, c) # Nowhere
    BY <2>2, <2>3
  <2>6. slots # {} /\ slots \in SUBSET (0 .. c)
    BY <2>4, <2>5
  <2>7. Max(slots) \in slots
    <3>. HIDE DEF slots
    <3>. QED BY <2>6, LargestIn
  <2>8. PICK t \in m + 1 .. c : t = LastSlot(p, m, c) /\ RebalanceDue(p, t - 1, t)
    BY <2>4, <2>6, <2>7
  <2>9. t \in 1 .. covered /\ firstFrom < t /\ trackedAt[p] < t
    BY <2>2, <2>3
  <2>10. p \in owed \/ doneAt[p] >= t
    BY <2>8, <2>9 DEF EscrowInv, SlotsKept
  <2>. QED BY <2>2, <2>3, <2>8, <2>10
<1>. QED BY <1>1, <1>2

(* NoSweepSound. No sweep is under way.                                    *)
LEMMA NoSweepSound ==
  /\ SweepSound(NoSweep) /\ NoSweep.at = "idle"
  /\ ListRead(NoSweep) /\ Reconciled(NoSweep) /\ ListRead(NoSweep)' /\ Reconciled(NoSweep)'
<1>1. NoSweep \in SweepFields
  BY DEF NoSweep, SweepFields
<1>2. NoSweep.at = "idle" /\ NoSweep.found = <<>>
  BY DEF NoSweep
<1>3. SweepSound(NoSweep)
  BY <1>1, <1>2 DEF SweepSound
<1>. QED BY <1>2, <1>3 DEF ListRead, Reconciled

(* InitEscrowInv. It holds at the start.                                   *)
LEMMA InitEscrowInv == EscrowInit => EscrowInv
<1>. SUFFICES ASSUME EscrowInit PROVE EscrowInv
  OBVIOUS
<1>. USE DEF EscrowInit
<1>1. PICK p \in Providers, held \in {{}, EscAgreements} :
        /\ listed = SetToSeq(Providers \ {p})
        /\ books = [q \in Providers |-> IF q = Head(listed) THEN SetToSeq(held) ELSE <<>>]
  OBVIOUS
<1>2. listed \in Seq(Providers)
  <2>1. IsFiniteSet(Providers \ {p})
    BY EscrowAssumption, FS_Subset
  <2>2. listed \in Seq(Providers \ {p})
    BY <1>1, <2>1, OrderedIs
  <2>. QED BY <2>2
<1>3. books \in [Providers -> Seq(EscAgreements)]
  <2>1. IsFiniteSet(held)
    BY EscrowAssumption, FS_EmptySet
  <2>2. SetToSeq(held) \in Seq(held)
    BY <2>1, OrderedIs
  <2>3. PICK h \in Seq(EscAgreements) : h = SetToSeq(held)
    BY <2>2
  <2>4. books = [q \in Providers |-> IF q = Head(listed) THEN h ELSE <<>>]
    BY <1>1, <2>3
  <2>5. <<>> \in Seq(EscAgreements)
    OBVIOUS
  <2>. QED BY <2>4, <2>5
<1>4. BooksSound
  <2>1. escNow \in 0 .. EscHorizon /\ escFaults \in 0 .. EscFaults
        /\ escChanges \in 0 .. EscChanges /\ agreementCursor \in Nat
    BY EscNumbers
  <2>. QED BY <1>2, <1>3, <2>1 DEF BooksSound
<1>5. ScheduleSound
  BY DEF ScheduleSound, Nowhere
<1>6. SlotsKept
  BY DEF SlotsKept
<1>. QED BY <1>4, <1>5, <1>6, NoSweepSound DEF EscrowInv

(* ScheduleStands. A step that leaves the schedule and the sweep alone, and*)
(* tracks no more providers.                                               *)
LEMMA ScheduleStands ==
  ASSUME EscrowInv, BooksSound', Range(listed') \subseteq Range(listed),
         UNCHANGED <<escNow, schedule, sweep, firstFrom, trackedAt, midSweep, doneAt>>,
         midSweep = {} => ListRead(sweep)'
  PROVE  EscrowInv'
<1>1. ScheduleSound'
  BY DEF EscrowInv, ScheduleSound, schedule
<1>2. SweepSound(sweep)'
  BY DEF EscrowInv, SweepSound
<1>3. Reconciled(sweep)'
  BY DEF EscrowInv, Reconciled, schedule
<1>4. SlotsKept'
  BY DEF EscrowInv, SlotsKept, schedule
<1>. QED BY <1>1, <1>2, <1>3, <1>4 DEF EscrowInv

(* ShorterRead. An entry less leaves what was read of the list.            *)
LEMMA ShorterRead ==
  ASSUME listed \in Seq(Providers), listed' \in Seq(Providers), UNCHANGED sweep,
         Range(listed') \subseteq Range(listed), Len(listed') = Len(listed) - 1,
         ListRead(sweep), sweep \in SweepFields
  PROVE  ListRead(sweep)'
<1>. SUFFICES ASSUME sweep.complete PROVE ListRead(sweep)'
  BY DEF ListRead
<1>1. sweep.at = "list" =>
        /\ sweep.next <= sweep.count /\ Len(listed) <= sweep.count
        /\ sweep.next = sweep.count => Range(listed) \subseteq Range(sweep.got)
  BY DEF ListRead
<1>2. sweep.at \in {"count", "scan", "release", "due"} => Range(listed) \subseteq Range(sweep.got)
  BY DEF ListRead
<1>3. PICK n \in Nat, c \in Nat : n = Len(listed) /\ c = sweep.count
  BY DEF SweepFields
<1>4. sweep.at = "list" => Len(listed') <= sweep.count /\ Len(listed') # sweep.count
  BY <1>1, <1>3
<1>. QED BY <1>1, <1>2, <1>4 DEF ListRead

(* ManagerKeeps. What happens to the manager's lists.                      *)
LEMMA ManagerKeeps ==
  ASSUME EscrowInv,
         \/ \E a \in EscAgreements : AgreementEnds(a)
         \/ \E p \in Providers : ThawEnds(p) \/ Dropped(p) \/ Tracked(p)
  PROVE  EscrowInv'
<1>0. /\ escChanges' \in 0 .. EscChanges
      /\ UNCHANGED <<escNow, schedule, agreementCursor, sweep, boot, firstFrom, doneAt, escFaults>>
  <2>1. ManagerStep
    BY DEF AgreementEnds, ThawEnds, Dropped, Tracked
  <2>2. escChanges < EscChanges /\ escChanges' = escChanges + 1
    BY <2>1 DEF ManagerStep
  <2>3. escChanges \in 0 .. EscChanges
    BY DEF EscrowInv, BooksSound
  <2>. QED BY <2>1, <2>2, <2>3, EscNumbers DEF ManagerStep
<1>1. CASE \E a \in EscAgreements : AgreementEnds(a)
  <2>1. BooksSound'
    BY <1>0, <1>1 DEF EscrowInv, BooksSound, AgreementEnds
  <2>2. UNCHANGED <<listed, trackedAt, midSweep>>
    BY <1>1 DEF AgreementEnds
  <2>3. midSweep = {} => ListRead(sweep)'
    BY <1>0, <2>2 DEF EscrowInv, ListRead
  <2>. QED BY <1>0, <2>1, <2>2, <2>3, ScheduleStands
<1>2. CASE \E p \in Providers : ThawEnds(p)
  <2>1. BooksSound'
    BY <1>0, <1>2 DEF EscrowInv, BooksSound, ThawEnds
  <2>2. UNCHANGED <<listed, trackedAt, midSweep>>
    BY <1>2 DEF ThawEnds
  <2>3. midSweep = {} => ListRead(sweep)'
    BY <1>0, <2>2 DEF EscrowInv, ListRead
  <2>. QED BY <1>0, <2>1, <2>2, <2>3, ScheduleStands
<1>3. ASSUME NEW p \in Providers, Dropped(p) PROVE EscrowInv'
  <2>0. UNCHANGED <<over, trackedAt, midSweep>> /\ p \in Range(listed)
    BY <1>3 DEF Dropped
  <2>1. CASE books[p] # <<>>
    <3>1. books' = [books EXCEPT ![p] = Without(@, Head(@))] /\ UNCHANGED <<listed, thawing>>
      BY <1>3, <2>1 DEF Dropped
    <3>2. PICK b \in Seq(EscAgreements) : b = books[p] /\ b # <<>>
      BY <2>1 DEF EscrowInv, BooksSound
    <3>3. Head(b) \in Range(b)
      <4>1. Head(b) = b[1] /\ 1 \in DOMAIN b
        BY <3>2
      <4>. QED BY <4>1 DEF Range
    <3>4. PICK w \in Seq(EscAgreements) : w = Without(b, Head(b))
      BY <3>3, WithoutIs
    <3>5. books' = [books EXCEPT ![p] = w]
      BY <3>1, <3>2, <3>4 DEF EscrowInv, BooksSound
    <3>6. BooksSound'
      BY <1>0, <2>0, <3>1, <3>5 DEF EscrowInv, BooksSound
    <3>7. midSweep = {} => ListRead(sweep)'
      BY <1>0, <3>1 DEF EscrowInv, ListRead
    <3>. QED BY <1>0, <2>0, <3>1, <3>6, <3>7, ScheduleStands
  <2>2. CASE books[p] = <<>>
    <3>1. listed' = Without(listed, p) /\ thawing' = thawing \ {p} /\ UNCHANGED books
      BY <1>3, <2>2 DEF Dropped
    <3>2. listed \in Seq(Providers) /\ sweep \in SweepFields
      BY DEF EscrowInv, BooksSound, SweepSound
    <3>3. listed' \in Seq(Providers) /\ Len(listed') = Len(listed) - 1
          /\ Range(listed') \subseteq Range(listed)
      BY <2>0, <3>1, <3>2, WithoutIs
    <3>4. BooksSound'
      BY <1>0, <2>0, <3>1, <3>3 DEF EscrowInv, BooksSound
    <3>5. midSweep = {} => ListRead(sweep)'
      BY <1>0, <3>2, <3>3, ShorterRead DEF EscrowInv
    <3>. QED BY <1>0, <2>0, <3>3, <3>4, <3>5, ScheduleStands
  <2>. QED BY <2>1, <2>2
<1>4. ASSUME NEW p \in Providers, Tracked(p) PROVE EscrowInv'
  <2>1. /\ listed' = Append(listed, p) /\ trackedAt' = [trackedAt EXCEPT ![p] = escNow]
        /\ midSweep' = IF sweep.at = "idle" THEN midSweep ELSE midSweep \cup {p}
        /\ UNCHANGED <<books, over, thawing>>
    BY <1>4 DEF Tracked
  <2>2. listed \in Seq(Providers)
    BY DEF EscrowInv, BooksSound
  <2>3. listed' \in Seq(Providers) /\ Range(listed') = Range(listed) \cup {p}
    <3>1. PICK n \in Nat : n = Len(listed)
      BY <2>2
    <3>2. /\ listed' \in Seq(Providers) /\ Len(listed') = n + 1
          /\ \A k \in 1 .. n : listed'[k] = listed[k]
          /\ listed'[n + 1] = p
      BY <2>1, <2>2, <3>1
    <3>3. DOMAIN listed = 1 .. n /\ DOMAIN listed' = 1 .. n + 1
      BY <2>2, <3>1, <3>2
    <3>4. ASSUME NEW x \in Range(listed') PROVE x \in Range(listed) \cup {p}
      <4>1. PICK k \in 1 .. n + 1 : x = listed'[k]
        BY <3>3 DEF Range
      <4>2. k \in 1 .. n \/ k = n + 1
        OBVIOUS
      <4>. QED BY <3>2, <3>3, <4>1, <4>2 DEF Range
    <3>5. ASSUME NEW x \in Range(listed) \cup {p} PROVE x \in Range(listed')
      <4>1. \E k \in 1 .. n + 1 : x = listed'[k]
        <5>1. CASE x = p
          BY <3>2, <5>1
        <5>2. CASE x \in Range(listed)
          <6>1. PICK k \in 1 .. n : x = listed[k]
            BY <3>3, <5>2 DEF Range
          <6>2. k \in 1 .. n + 1
            OBVIOUS
          <6>. QED BY <3>2, <6>1, <6>2
        <5>. QED BY <5>1, <5>2
      <4>. QED BY <3>3, <4>1 DEF Range
    <3>. QED BY <3>2, <3>4, <3>5
  <2>4. BooksSound'
    BY <1>0, <2>1, <2>3 DEF EscrowInv, BooksSound
  <2>5. trackedAt' \in [Providers -> Nowhere .. escNow]
    <3>1. escNow \in Nowhere .. escNow
      BY DEF EscrowInv, BooksSound, Nowhere
    <3>. QED BY <2>1, <3>1 DEF EscrowInv, ScheduleSound
  <2>6. ScheduleSound'
    BY <1>0, <2>5 DEF EscrowInv, ScheduleSound, schedule
  <2>7. SweepSound(sweep)'
    BY <1>0 DEF EscrowInv, SweepSound
  <2>8. Reconciled(sweep)'
    BY <1>0 DEF EscrowInv, Reconciled, schedule
  <2>9. midSweep' = {} => sweep.at = "idle" /\ midSweep = {}
    BY <2>1
  <2>10. midSweep' = {} => ListRead(sweep)'
    BY <1>0, <2>9 DEF ListRead
  <2>11. SlotsKept'
    <3>. SUFFICES ASSUME covered' # Nowhere, midSweep' = {}, NEW q \in Range(listed'),
                         NEW t \in 1 .. covered', firstFrom' < t, trackedAt'[q] < t,
                         RebalanceDue(q, t - 1, t)
                  PROVE  q \in owed' \/ doneAt'[q] >= t
      BY DEF SlotsKept, RebalanceDue
    <3>0. UNCHANGED <<covered, owed, firstFrom, doneAt>>
      BY <1>0 DEF schedule
    <3>1. CASE q = p
      <4>1. trackedAt'[p] = escNow
        BY <2>1 DEF EscrowInv, ScheduleSound
      <4>2. covered \in -1 .. escNow /\ escNow \in Nat
        BY DEF EscrowInv, BooksSound, ScheduleSound, Nowhere
      <4>3. escNow < t /\ t <= covered
        BY <3>0, <3>1, <4>1, <4>2
      <4>. QED BY <4>2, <4>3
    <3>2. CASE q # p
      <4>1. q \in Range(listed) /\ trackedAt'[q] = trackedAt[q]
        <5>1. q \in Range(listed)
          BY <2>3, <3>2
        <5>2. q \in Providers
          BY <2>2, <5>1 DEF Range
        <5>. QED BY <2>1, <3>2, <5>1, <5>2 DEF EscrowInv, ScheduleSound
      <4>. QED BY <2>9, <3>0, <4>1 DEF EscrowInv, SlotsKept
    <3>. QED BY <3>1, <3>2
  <2>. QED BY <2>4, <2>6, <2>7, <2>8, <2>10, <2>11 DEF EscrowInv
<1>. QED BY <1>1, <1>2, <1>3, <1>4

(* TimeKeeps. Time goes on.                                                *)
LEMMA TimeKeeps == EscrowInv /\ EscTick => EscrowInv'
<1>. SUFFICES ASSUME EscrowInv, EscTick PROVE EscrowInv'
  OBVIOUS
<1>0. PICK n \in Nat : n = escNow /\ escNow' = n + 1 /\ n + 1 \in 0 .. EscHorizon
  BY EscNumbers DEF EscTick, EscrowInv, BooksSound
<1>1. UNCHANGED <<manager, schedule, agreementCursor, sweep, boot, firstFrom, trackedAt,
                  midSweep, doneAt, escFaults, escChanges>>
  BY DEF EscTick
<1>2. BooksSound'
  BY <1>0, <1>1 DEF EscrowInv, BooksSound, manager
<1>3. ScheduleSound'
  <2>1. -1 .. n \subseteq -1 .. n + 1
    BY <1>0
  <2>. QED BY <1>0, <1>1, <2>1 DEF EscrowInv, ScheduleSound, schedule, Nowhere
<1>4. SweepSound(sweep)'
  BY <1>1 DEF EscrowInv, SweepSound
<1>5. Reconciled(sweep)' /\ (midSweep' = {} => ListRead(sweep)')
  BY <1>1 DEF EscrowInv, Reconciled, ListRead, schedule, manager
<1>6. SlotsKept'
  BY <1>1 DEF EscrowInv, SlotsKept, schedule, manager
<1>. QED BY <1>2, <1>3, <1>4, <1>5, <1>6 DEF EscrowInv

(* StopKeeps. A stop forgets the schedule with the sweep.                  *)
LEMMA StopKeeps == EscrowInv /\ EscRestart => EscrowInv'
<1>. SUFFICES ASSUME EscrowInv, EscRestart PROVE EscrowInv'
  OBVIOUS
<1>1. /\ sweep' = NoSweep /\ agreementCursor' = 0 /\ covered' = Nowhere /\ owed' = {}
      /\ firstFrom' = Nowhere /\ UNCHANGED <<escNow, manager, trackedAt, midSweep, doneAt, escChanges>>
  BY DEF EscRestart
<1>2. escFaults' \in 0 .. EscFaults
  BY EscNumbers DEF EscRestart, EscFails, EscrowInv, BooksSound
<1>3. BooksSound'
  BY <1>1, <1>2 DEF EscrowInv, BooksSound, manager
<1>4. ScheduleSound'
  <2>1. Nowhere \in Nowhere .. escNow
    BY DEF EscrowInv, BooksSound, Nowhere
  <2>. QED BY <1>1, <2>1 DEF EscrowInv, ScheduleSound
<1>5. SlotsKept'
  BY <1>1 DEF SlotsKept
<1>6. SweepSound(sweep')
  BY <1>1, NoSweepSound
<1>7. SweepSound(sweep)'
  BY <1>6 DEF SweepSound
<1>8. ListRead(sweep)' /\ Reconciled(sweep)'
  BY <1>1, NoSweepSound DEF ListRead, Reconciled
<1>. QED BY <1>3, <1>4, <1>5, <1>7, <1>8 DEF EscrowInv

(* SweepOnly. A step of the sweep before it sends for the providers.       *)
LEMMA SweepOnly ==
  ASSUME EscrowInv, BooksSound', SweepSound(sweep'), sweep'.at # "reconcile",
         UNCHANGED <<escNow, schedule, firstFrom, trackedAt, midSweep, doneAt, listed>>,
         midSweep = {} => ListRead(sweep')
  PROVE  EscrowInv'
<1>1. ScheduleSound'
  BY DEF EscrowInv, ScheduleSound, schedule
<1>2. SweepSound(sweep)'
  BY DEF SweepSound
<1>3. Reconciled(sweep)'
  BY DEF Reconciled
<1>4. SlotsKept'
  BY DEF EscrowInv, SlotsKept, schedule
<1>5. midSweep' = {} => ListRead(sweep)'
  BY DEF ListRead
<1>. QED BY <1>1, <1>2, <1>3, <1>4, <1>5 DEF EscrowInv

(* FaultsIn. A step that works or fails.                                   *)
LEMMA FaultsIn ==
  ASSUME EscrowInv, EscWorks \/ EscFails
  PROVE  escFaults' \in 0 .. EscFaults
BY EscNumbers DEF EscrowInv, BooksSound, EscWorks, EscFails

(* StartSweepKeeps. A sweep starts with the length of the list.            *)
LEMMA StartSweepKeeps == EscrowInv /\ StartSweep => EscrowInv'
<1>. SUFFICES ASSUME EscrowInv, StartSweep PROVE EscrowInv'
  OBVIOUS
<1>1. UNCHANGED <<escNow, escChanges, trackedAt, midSweep, manager, schedule, agreementCursor,
                  firstFrom, doneAt>>
  BY DEF StartSweep, EscQuiet
<1>2. escFaults' \in 0 .. EscFaults
  BY FaultsIn DEF StartSweep
<1>3. BooksSound'
  BY <1>1, <1>2 DEF EscrowInv, BooksSound, manager
<1>4. CASE UNCHANGED sweep
  <2>1. sweep.at = "idle"
    BY DEF StartSweep
  <2>. QED BY <1>1, <1>3, <1>4, <2>1, SweepOnly DEF EscrowInv, manager
<1>5. CASE sweep' = [NoSweep EXCEPT !.at = "list", !.count = Len(listed)]
  <2>1. PICK n \in Nat : n = Len(listed) /\ listed \in [1 .. n -> Providers]
    BY DEF EscrowInv, BooksSound
  <2>2. sweep' = [at |-> "list", count |-> n, next |-> 0, got |-> <<>>, complete |-> TRUE,
                  counts |-> <<>>, found |-> <<>>, failed |-> {}]
    BY <1>5, <2>1 DEF NoSweep
  <2>3. SweepSound(sweep')
    BY <2>2 DEF SweepSound, SweepFields
  <2>4. sweep'.at = "list" /\ sweep'.next = 0 /\ sweep'.count = n
    BY <2>2
  <2>5. n = 0 => Range(listed) = {}
    BY <2>1 DEF Range
  <2>6. ListRead(sweep')
    <3>1. sweep'.next = sweep'.count => Range(listed) \subseteq Range(sweep'.got)
      BY <2>4, <2>5
    <3>2. sweep'.next <= sweep'.count /\ Len(listed) <= sweep'.count
      BY <2>1, <2>4
    <3>3. \A i \in 1 .. sweep'.next : FALSE
      BY <2>4
    <3>. QED BY <2>4, <3>1, <3>2, <3>3 DEF ListRead
  <2>. QED BY <1>1, <1>3, <2>3, <2>4, <2>6, SweepOnly DEF manager
<1>. QED BY <1>4, <1>5 DEF StartSweep

(* AppendIs. One more entry.                                               *)
LEMMA AppendIs ==
  ASSUME NEW S, NEW list \in Seq(S), NEW e \in S
  PROVE  /\ Append(list, e) \in Seq(S) /\ e \in Range(Append(list, e))
         /\ Range(list) \subseteq Range(Append(list, e))
<1>1. PICK n \in Nat : n = Len(list)
  OBVIOUS
<1>. DEFINE longer == Append(list, e)
<1>2. /\ longer \in Seq(S) /\ Len(longer) = n + 1
      /\ \A k \in 1 .. n : longer[k] = list[k]
      /\ longer[n + 1] = e
  BY <1>1
<1>3. DOMAIN list = 1 .. n /\ DOMAIN longer = 1 .. n + 1
  BY <1>1, <1>2
<1>. HIDE DEF longer
<1>4. e \in Range(longer)
  BY <1>2, <1>3 DEF Range
<1>5. ASSUME NEW x \in Range(list) PROVE x \in Range(longer)
  <2>1. PICK k \in 1 .. n : x = list[k]
    BY <1>3 DEF Range
  <2>2. k \in 1 .. n + 1 /\ x = longer[k]
    BY <1>2, <2>1
  <2>. QED BY <1>3, <2>2 DEF Range
<1>. QED BY <1>2, <1>4, <1>5 DEF longer

(* ReadProviderKeeps. The list is read entry by entry.                     *)
LEMMA ReadProviderKeeps == EscrowInv /\ ReadProvider => EscrowInv'
<1>. SUFFICES ASSUME EscrowInv, ReadProvider PROVE EscrowInv'
  OBVIOUS
<1>1. UNCHANGED <<escNow, escChanges, trackedAt, midSweep, manager, schedule, agreementCursor,
                  firstFrom, doneAt>>
  BY DEF ReadProvider, EscQuiet
<1>2. escFaults' \in 0 .. EscFaults
  BY FaultsIn DEF ReadProvider
<1>3. BooksSound'
  BY <1>1, <1>2 DEF EscrowInv, BooksSound, manager
<1>4. sweep \in SweepFields /\ sweep.at = "list" /\ sweep.found = <<>>
  BY DEF EscrowInv, SweepSound, ReadProvider
<1>5. PICK n \in Nat : n = Len(listed) /\ listed \in [1 .. n -> Providers]
  BY DEF EscrowInv, BooksSound
<1>6. PICK j \in Nat, c \in Nat, got \in Seq(Providers) :
        j = sweep.next /\ c = sweep.count /\ got = sweep.got
  BY <1>4 DEF SweepFields
<1>7. CASE j = c /\ sweep' = [sweep EXCEPT !.at = "count", !.next = 0]
  <2>1. sweep' \in SweepFields
    BY <1>4, <1>7 DEF SweepFields
  <2>2. sweep'.at = "count" /\ sweep'.found = <<>> /\ sweep'.got = got
        /\ sweep'.complete = sweep.complete
    BY <1>4, <1>6, <1>7 DEF SweepFields
  <2>3. SweepSound(sweep')
    BY <2>1, <2>2 DEF SweepSound
  <2>4. midSweep = {} => ListRead(sweep')
    <3>1. midSweep = {} /\ sweep.complete => Range(listed) \subseteq Range(got)
      BY <1>4, <1>6, <1>7 DEF EscrowInv, ListRead
    <3>. QED BY <2>2, <3>1 DEF ListRead
  <2>. QED BY <1>1, <1>3, <2>2, <2>3, <2>4, SweepOnly DEF manager
<1>8. CASE j + 1 <= c /\ j + 1 <= n /\ listed[j + 1] \in Range(got)
           /\ sweep' = [sweep EXCEPT !.next = j + 1, !.complete = FALSE]
  <2>0. PICK i \in Nat : i = j + 1
    OBVIOUS
  <2>b. sweep' = [sweep EXCEPT !.next = i, !.complete = FALSE]
    BY <1>8, <2>0
  <2>1. sweep' \in SweepFields
    BY <1>4, <2>b DEF SweepFields
  <2>2. sweep'.at = "list" /\ sweep'.found = <<>> /\ sweep'.complete = FALSE
    BY <1>4, <1>8 DEF SweepFields
  <2>3. SweepSound(sweep') /\ ListRead(sweep')
    BY <2>1, <2>2 DEF SweepSound, ListRead
  <2>. QED BY <1>1, <1>3, <2>2, <2>3, SweepOnly DEF manager
<1>9. CASE j + 1 <= c /\ j + 1 <= n
           /\ sweep' = [sweep EXCEPT !.next = j + 1, !.got = Append(got, listed[j + 1])]
  <2>1. PICK e \in Providers, more \in Seq(Providers) :
          /\ e = listed[j + 1] /\ more = Append(got, listed[j + 1])
          /\ e \in Range(more) /\ Range(got) \subseteq Range(more)
    <3>1. listed[j + 1] \in Providers
      BY <1>5, <1>9
    <3>2. PICK e \in Providers : e = listed[j + 1]
      BY <3>1
    <3>3. Append(got, e) \in Seq(Providers) /\ e \in Range(Append(got, e))
          /\ Range(got) \subseteq Range(Append(got, e))
      BY AppendIs
    <3>. QED BY <3>2, <3>3
  <2>a. PICK next \in Nat : next = j + 1
    OBVIOUS
  <2>b. sweep' = [sweep EXCEPT !.next = next, !.got = more]
    BY <1>9, <2>1, <2>a
  <2>2. sweep' \in SweepFields
    BY <1>4, <2>b DEF SweepFields
  <2>3. sweep'.at = "list" /\ sweep'.found = <<>> /\ sweep'.got = more /\ sweep'.next = j + 1
        /\ sweep'.count = c /\ sweep'.complete = sweep.complete
    BY <1>4, <1>6, <1>9, <2>1 DEF SweepFields
  <2>4. SweepSound(sweep')
    BY <2>2, <2>3 DEF SweepSound
  <2>5. ASSUME midSweep = {} PROVE ListRead(sweep')
    <3>. SUFFICES ASSUME sweep.complete PROVE ListRead(sweep')
      BY <2>3 DEF ListRead
    <3>1. n <= c /\ (n = c => \A i \in 1 .. j : listed[i] \in Range(got))
      BY <1>4, <1>5, <1>6, <2>5 DEF EscrowInv, ListRead
    <3>2. n = c => \A i \in 1 .. j + 1 : listed[i] \in Range(more)
      <4>. SUFFICES ASSUME n = c, NEW i \in 1 .. j + 1 PROVE listed[i] \in Range(more)
        OBVIOUS
      <4>1. i \in 1 .. j \/ i = j + 1
        OBVIOUS
      <4>. QED BY <2>1, <3>1, <4>1
    <3>3. j + 1 = c => Range(listed) \subseteq Range(more)
      <4>. SUFFICES ASSUME j + 1 = c, NEW x \in Range(listed) PROVE x \in Range(more)
        OBVIOUS
      <4>1. n = c
        BY <1>9, <3>1
      <4>2. PICK i \in 1 .. n : x = listed[i]
        BY <1>5 DEF Range
      <4>. QED BY <3>2, <4>1, <4>2
    <3>. QED BY <1>5, <1>9, <2>3, <3>1, <3>2, <3>3 DEF ListRead
  <2>. QED BY <1>1, <1>3, <2>3, <2>4, <2>5, SweepOnly DEF manager
<1>10. CASE sweep' = [[sweep EXCEPT !.at = "count", !.next = 0] EXCEPT !.complete = FALSE]
  <2>1. sweep' \in SweepFields
    BY <1>4, <1>10 DEF SweepFields
  <2>2. sweep'.at = "count" /\ sweep'.found = <<>> /\ sweep'.complete = FALSE
    BY <1>4, <1>10 DEF SweepFields
  <2>3. SweepSound(sweep') /\ ListRead(sweep')
    BY <2>1, <2>2 DEF SweepSound, ListRead
  <2>. QED BY <1>1, <1>3, <2>2, <2>3, SweepOnly DEF manager
<1>. QED BY <1>5, <1>6, <1>7, <1>8, <1>9, <1>10 DEF ReadProvider

(* ReadOn. A step of the sweep after the list leaves what it read.         *)
LEMMA ReadOn ==
  ASSUME EscrowInv, midSweep = {}, sweep.at \in {"count", "scan", "release", "due"},
         sweep'.at \in {"count", "scan", "release", "due"},
         sweep'.got = sweep.got, sweep'.complete = sweep.complete
  PROVE  ListRead(sweep')
<1>1. sweep.complete => Range(listed) \subseteq Range(sweep.got)
  BY DEF EscrowInv, ListRead
<1>. QED BY <1>1 DEF ListRead

(* CountKeeps. The agreements of the providers are counted.                *)
LEMMA CountKeeps == EscrowInv /\ CountAgreements => EscrowInv'
<1>. SUFFICES ASSUME EscrowInv, CountAgreements PROVE EscrowInv'
  OBVIOUS
<1>1. UNCHANGED <<escNow, escChanges, trackedAt, midSweep, manager, schedule, agreementCursor,
                  firstFrom, doneAt>>
  BY DEF CountAgreements, EscQuiet
<1>2. escFaults' \in 0 .. EscFaults
  BY FaultsIn DEF CountAgreements
<1>3. BooksSound'
  BY <1>1, <1>2 DEF EscrowInv, BooksSound, manager
<1>4. sweep \in SweepFields /\ sweep.at = "count" /\ sweep.found = <<>>
  BY DEF EscrowInv, SweepSound, CountAgreements
<1>. DEFINE Counts(ps) == [k \in 1 .. Len(ps) |-> [provider |-> ps[k], count |-> Len(books[ps[k]])]]
<1>5. PICK ps \in Seq(Providers) :
        sweep' = IF Total(Counts(ps)) = 0 THEN NoAgreements
                 ELSE [sweep EXCEPT !.at = "scan", !.counts = Counts(ps)]
  <2>1. sweep.got \in Seq(Providers)
    BY <1>4 DEF SweepFields
  <2>2. CASE sweep' = IF Total(Counts(sweep.got)) = 0 THEN NoAgreements
                      ELSE [sweep EXCEPT !.at = "scan", !.counts = Counts(sweep.got)]
    BY <2>1, <2>2
  <2>3. ASSUME NEW p,
               sweep' = IF Total(Counts(Kept(sweep.got, Providers \ {p}))) = 0 THEN NoAgreements
                        ELSE [sweep EXCEPT !.at = "scan",
                                           !.counts = Counts(Kept(sweep.got, Providers \ {p}))]
        PROVE  \E ps \in Seq(Providers) :
                 sweep' = IF Total(Counts(ps)) = 0 THEN NoAgreements
                          ELSE [sweep EXCEPT !.at = "scan", !.counts = Counts(ps)]
    <3>1. Kept(sweep.got, Providers \ {p}) \in Seq(Providers)
      BY <2>1, KeptIs
    <3>. HIDE DEF Counts
    <3>. QED BY <2>3, <3>1
  <2>. QED BY <2>2, <2>3, Zenon DEF CountAgreements
<1>6. PICK counts \in Seq(Counted) : counts = Counts(ps)
  <2>1. \A k \in 1 .. Len(ps) : [provider |-> ps[k], count |-> Len(books[ps[k]])] \in Counted
    <3>. SUFFICES ASSUME NEW k \in 1 .. Len(ps)
                  PROVE  [provider |-> ps[k], count |-> Len(books[ps[k]])] \in Counted
      OBVIOUS
    <3>1. ps[k] \in Providers
      OBVIOUS
    <3>2. books[ps[k]] \in Seq(EscAgreements)
      BY <3>1 DEF EscrowInv, BooksSound
    <3>3. Len(books[ps[k]]) \in Nat
      BY <3>2
    <3>. QED BY <3>1, <3>3 DEF Counted
  <2>2. Counts(ps) \in [1 .. Len(ps) -> Counted] /\ Len(ps) \in Nat
    BY <2>1
  <2>. HIDE DEF Counts
  <2>. QED BY <2>2
<1>. HIDE DEF Counts
<1>7. CASE sweep' = NoAgreements
  <2>1. sweep' = [sweep EXCEPT !.at = "due"]
    BY <1>7 DEF NoAgreements
  <2>2. sweep' \in SweepFields
    BY <1>4, <2>1 DEF SweepFields
  <2>3. sweep'.at = "due" /\ sweep'.found = <<>> /\ sweep'.got = sweep.got
        /\ sweep'.complete = sweep.complete
    BY <1>4, <2>1 DEF SweepFields
  <2>4. SweepSound(sweep')
    BY <2>2, <2>3 DEF SweepSound
  <2>5. midSweep = {} => ListRead(sweep')
    BY <1>4, <2>3, ReadOn
  <2>. QED BY <1>1, <1>3, <2>3, <2>4, <2>5, SweepOnly DEF manager
<1>8. CASE Total(counts) # 0 /\ sweep' = [sweep EXCEPT !.at = "scan", !.counts = counts]
  <2>2. sweep' \in SweepFields
    BY <1>4, <1>8 DEF SweepFields
  <2>3. sweep'.at = "scan" /\ sweep'.found = <<>> /\ sweep'.got = sweep.got
        /\ sweep'.complete = sweep.complete /\ sweep'.counts = counts
    BY <1>4, <1>8 DEF SweepFields
  <2>4. Total(counts) > 0
    <3>1. Total(counts) \in Nat
      <4>1. Len(counts) \in 0 .. Len(counts)
        OBVIOUS
      <4>. QED BY <4>1, SumsAre DEF Total
    <3>. QED BY <1>8, <3>1
  <2>5. SweepSound(sweep')
    BY <2>2, <2>3, <2>4 DEF SweepSound
  <2>6. midSweep = {} => ListRead(sweep')
    BY <1>4, <2>3, ReadOn
  <2>. QED BY <1>1, <1>3, <2>3, <2>5, <2>6, SweepOnly DEF manager
<1>. QED BY <1>5, <1>6, <1>7, <1>8

(* CheckKeeps. One position after the other is checked.                    *)
LEMMA CheckKeeps == EscrowInv /\ CheckAgreement => EscrowInv'
<1>. SUFFICES ASSUME EscrowInv, CheckAgreement PROVE EscrowInv'
  OBVIOUS
<1>. DEFINE total == Total(sweep.counts)
            start == agreementCursor % total
            where == Located(sweep.counts, (start + sweep.next) % total)
            book  == books[where.provider]
            id    == book[where.index + 1]
            moved == [sweep EXCEPT !.next = @ + 1]
<1>1. UNCHANGED <<escNow, escChanges, trackedAt, midSweep, manager, schedule, firstFrom, doneAt>>
      /\ sweep.at = "scan"
  BY DEF CheckAgreement, EscQuiet
<1>2. escFaults' \in 0 .. EscFaults
  BY FaultsIn DEF CheckAgreement
<1>3. sweep \in SweepFields /\ sweep.found \in Seq(EscAgreements) /\ total > 0
  BY <1>1 DEF EscrowInv, SweepSound
<1>4. sweep.counts \in Seq(Counted) /\ sweep.next \in Nat
  BY <1>3 DEF SweepFields
<1>5. total \in Nat \ {0}
  <2>1. Len(sweep.counts) \in 0 .. Len(sweep.counts)
    BY <1>4
  <2>2. total \in Nat
    BY <1>4, <2>1, SumsAre DEF Total
  <2>. HIDE DEF total
  <2>. QED BY <1>3, <2>2
<1>6. agreementCursor \in Nat
  BY DEF EscrowInv, BooksSound
<1>7. start \in Nat /\ (start + sweep.next) % total \in 0 .. total - 1
  <2>. HIDE DEF total
  <2>1. start \in 0 .. total - 1
    BY <1>5, <1>6
  <2>2. PICK x \in Nat : x = start + sweep.next
    BY <1>4, <1>5, <2>1
  <2>3. x % total \in 0 .. total - 1
    BY <1>5, <2>2
  <2>. QED BY <2>1, <2>2, <2>3
<1>8. where.provider \in Providers /\ where.index \in Nat
  <2>1. PICK pos \in Nat : pos = (start + sweep.next) % total /\ pos < total
    <3>. HIDE DEF total, start
    <3>. QED BY <1>5, <1>7
  <2>2. Located(sweep.counts, pos).provider \in Providers
        /\ Located(sweep.counts, pos).index \in Nat
    BY <1>4, <2>1, LocatedIs
  <2>. QED BY <2>1, <2>2
<1>9. book \in Seq(EscAgreements)
  BY <1>8 DEF EscrowInv, BooksSound
<1>10. where.index < Len(book) => id \in EscAgreements
  <2>. HIDE DEF where, book
  <2>. QED BY <1>8, <1>9
<1>11. \/ agreementCursor' = agreementCursor
           /\ \/ sweep' = moved
              \/ id \in EscAgreements /\ sweep' = [moved EXCEPT !.found = Append(@, id)]
       \/ agreementCursor' = CursorAfter(start, sweep.next, total)
          /\ sweep' = [sweep EXCEPT !.at = "release", !.next = 0]
  <2>1. \/ /\ UNCHANGED agreementCursor
           /\ IF where.index < Len(book)
              THEN \/ sweep' = IF id \in over /\ id \notin Range(sweep.found)
                               THEN [moved EXCEPT !.found = Append(@, id)] ELSE moved
                   \/ sweep' = moved
              ELSE sweep' = moved
        \/ agreementCursor' = CursorAfter(start, sweep.next, total)
           /\ sweep' = [sweep EXCEPT !.at = "release", !.next = 0]
    BY DEF CheckAgreement
  <2>. HIDE DEF where, book, id, moved, start, total
  <2>. QED BY <1>10, <2>1
<1>12. PICK i \in Nat : i = sweep.next + 1
  BY <1>4
<1>13. moved = [sweep EXCEPT !.next = i]
  BY <1>3, <1>12 DEF SweepFields
<1>14. moved \in SweepFields /\ moved.at = "scan" /\ moved.found = sweep.found
       /\ moved.got = sweep.got /\ moved.complete = sweep.complete /\ moved.counts = sweep.counts
  <2>1. [sweep EXCEPT !.next = i] \in SweepFields
    BY <1>3 DEF SweepFields
  <2>. QED BY <1>1, <1>3, <1>13, <2>1 DEF SweepFields
<1>15. agreementCursor' \in Nat
  <2>1. CursorAfter(start, sweep.next, total) = (start + sweep.next) % total
    BY DEF CursorAfter
  <2>. HIDE DEF total, start, where, book, id, moved
  <2>2. (start + sweep.next) % total \in Nat
    BY <1>5, <1>7
  <2>. QED BY <1>6, <1>11, <2>1, <2>2
<1>16. BooksSound'
  BY <1>1, <1>2, <1>15 DEF EscrowInv, BooksSound, manager
<1>17. CASE sweep' = moved
  <2>1. SweepSound(sweep')
    <3>. HIDE DEF moved
    <3>. QED BY <1>3, <1>14, <1>17 DEF SweepSound, total
  <2>2. midSweep = {} => ListRead(sweep')
    <3>. HIDE DEF moved
    <3>. QED BY <1>1, <1>14, <1>17, ReadOn
  <2>. HIDE DEF moved
  <2>. QED BY <1>1, <1>14, <1>16, <1>17, <2>1, <2>2, SweepOnly DEF manager
<1>18. CASE id \in EscAgreements /\ sweep' = [moved EXCEPT !.found = Append(@, id)]
  <2>1. PICK f \in Seq(EscAgreements) : f = Append(sweep.found, id)
    <3>. HIDE DEF id, total
    <3>1. id \in EscAgreements /\ sweep.found \in Seq(EscAgreements)
      BY <1>3, <1>18
    <3>2. Append(sweep.found, id) \in Seq(EscAgreements)
      BY <3>1, AppendIs
    <3>. QED BY <3>2
  <2>. HIDE DEF moved, id
  <2>2. sweep' = [moved EXCEPT !.found = f]
    BY <1>14, <1>18, <2>1 DEF SweepFields
  <2>3. sweep' \in SweepFields
    <3>1. f \in Seq(EscAgreements) \cup Seq(Providers)
      OBVIOUS
    <3>. QED BY <1>14, <2>2, <3>1 DEF SweepFields
  <2>4. sweep'.at = "scan" /\ sweep'.found = f
       /\ sweep'.got = sweep.got /\ sweep'.complete = sweep.complete /\ sweep'.counts = sweep.counts
    BY <1>14, <2>2 DEF SweepFields
  <2>5. SweepSound(sweep')
    BY <1>3, <2>3, <2>4 DEF SweepSound, total
  <2>6. midSweep = {} => ListRead(sweep')
    BY <1>1, <2>4, ReadOn
  <2>. QED BY <1>1, <1>16, <2>4, <2>5, <2>6, SweepOnly DEF manager
<1>19. CASE sweep' = [sweep EXCEPT !.at = "release", !.next = 0]
  <2>1. sweep' \in SweepFields
    BY <1>3, <1>19 DEF SweepFields
  <2>2. sweep'.at = "release" /\ sweep'.found = sweep.found
       /\ sweep'.got = sweep.got /\ sweep'.complete = sweep.complete
    BY <1>3, <1>19 DEF SweepFields
  <2>3. SweepSound(sweep')
    BY <1>3, <2>1, <2>2 DEF SweepSound
  <2>4. midSweep = {} => ListRead(sweep')
    BY <1>1, <2>2, ReadOn
  <2>. QED BY <1>1, <1>16, <2>2, <2>3, <2>4, SweepOnly DEF manager
<1>. HIDE DEF moved, id, start, total
<1>. QED BY <1>11, <1>17, <1>18, <1>19

(* ReleaseKeeps. The agreements found are released one by one.             *)
LEMMA ReleaseKeeps == EscrowInv /\ ReleaseAgreement => EscrowInv'
<1>. SUFFICES ASSUME EscrowInv, ReleaseAgreement PROVE EscrowInv'
  OBVIOUS
<1>1. UNCHANGED <<escNow, escChanges, trackedAt, midSweep, schedule, agreementCursor,
                  firstFrom, doneAt, listed, over, thawing>>
      /\ sweep.at = "release"
  BY DEF ReleaseAgreement, EscQuiet, manager
<1>2. escFaults' \in 0 .. EscFaults
  BY FaultsIn DEF ReleaseAgreement
<1>3. sweep \in SweepFields /\ sweep.found \in Seq(EscAgreements)
  BY <1>1 DEF EscrowInv, SweepSound
<1>4. books \in [Providers -> Seq(EscAgreements)]
  BY DEF EscrowInv, BooksSound
<1>5. books' \in [Providers -> Seq(EscAgreements)]
  <2>1. CASE UNCHANGED books
    BY <1>4, <2>1
  <2>2. ASSUME NEW a, books' = [p \in Providers |-> IF a \in Range(books[p])
                                                    THEN Without(books[p], a) ELSE books[p]]
        PROVE  books' \in [Providers -> Seq(EscAgreements)]
    <3>1. ASSUME NEW p \in Providers
          PROVE  (IF a \in Range(books[p]) THEN Without(books[p], a) ELSE books[p])
                   \in Seq(EscAgreements)
      <4>1. books[p] \in Seq(EscAgreements)
        BY <1>4
      <4>2. a \in Range(books[p]) => Without(books[p], a) \in Seq(EscAgreements)
        BY <4>1, WithoutIs
      <4>. QED BY <4>1, <4>2
    <3>. QED BY <2>2, <3>1
  <2>3. \/ UNCHANGED books
        \/ \E a : books' = [p \in Providers |-> IF a \in Range(books[p])
                                                THEN Without(books[p], a) ELSE books[p]]
    BY DEF ReleaseAgreement, manager
  <2>. QED BY <2>1, <2>2, <2>3
<1>6. BooksSound'
  BY <1>1, <1>2, <1>5 DEF EscrowInv, BooksSound
<1>7. CASE sweep' = NoSweep
  BY <1>1, <1>6, <1>7, NoSweepSound, SweepOnly
<1>8. CASE sweep' = [sweep EXCEPT !.at = "due"]
  <2>1. sweep' \in SweepFields
    BY <1>3, <1>8 DEF SweepFields
  <2>2. sweep'.at = "due" /\ sweep'.found = sweep.found
       /\ sweep'.got = sweep.got /\ sweep'.complete = sweep.complete
    BY <1>3, <1>8 DEF SweepFields
  <2>3. SweepSound(sweep')
    BY <1>3, <2>1, <2>2 DEF SweepSound
  <2>4. midSweep = {} => ListRead(sweep')
    BY <1>1, <2>2, ReadOn
  <2>. QED BY <1>1, <1>6, <2>2, <2>3, <2>4, SweepOnly
<1>9. CASE sweep' = [sweep EXCEPT !.next = @ + 1]
  <2>0. PICK i \in Nat : i = sweep.next + 1
    BY <1>3 DEF SweepFields
  <2>b. sweep' = [sweep EXCEPT !.next = i]
    BY <1>3, <1>9, <2>0 DEF SweepFields
  <2>1. sweep' \in SweepFields
    BY <1>3, <2>b DEF SweepFields
  <2>2. sweep'.at = "release" /\ sweep'.found = sweep.found
       /\ sweep'.got = sweep.got /\ sweep'.complete = sweep.complete
    BY <1>1, <1>3, <2>b DEF SweepFields
  <2>3. SweepSound(sweep')
    BY <1>3, <2>1, <2>2 DEF SweepSound
  <2>4. midSweep = {} => ListRead(sweep')
    BY <1>1, <2>2, ReadOn
  <2>. QED BY <1>1, <1>6, <2>2, <2>3, <2>4, SweepOnly
<1>. QED BY <1>7, <1>8, <1>9 DEF ReleaseAgreement

(* WindowIs. The window of a sweep, which ends by now and goes on from what*)
(* was handed out.                                                         *)
LEMMA WindowIs ==
  ASSUME EscrowInv, NEW now \in 0 .. escNow
  PROVE  /\ WindowFrom(now) \in Nat /\ WindowTo(now) \in 0 .. escNow
         /\ WindowFrom(now) <= WindowTo(now)
         /\ covered # Nowhere => WindowFrom(now) = covered
<1>1. escNow \in Nat /\ covered \in -1 .. escNow /\ SweepInterval \in Nat
  BY EscNumbers DEF EscrowInv, BooksSound, ScheduleSound, Nowhere
<1>2. PICK f \in Nat : f = WindowFrom(now) /\ f <= escNow /\ (covered # Nowhere => f = covered)
  <2>1. CASE covered = Nowhere
    <3>1. now - SweepInterval \in Int
      BY <1>1
    <3>2. PICK f \in Nat : f = Max({0, now - SweepInterval}) /\ f <= escNow
      BY <1>1, <3>1, MaxOfTwo
    <3>. QED BY <2>1, <3>2 DEF WindowFrom
  <2>2. CASE covered # Nowhere
    <3>1. WindowFrom(now) = covered
      BY <2>2 DEF WindowFrom
    <3>2. covered \in Nat /\ covered <= escNow
      BY <1>1, <2>2 DEF Nowhere
    <3>. QED BY <3>1, <3>2
  <2>. QED BY <2>1, <2>2
<1>3. WindowTo(now) = IF now >= f THEN now ELSE f
  <2>1. now \in Int /\ f \in Int
    BY <1>1
  <2>. QED BY <1>2, <2>1, MaxOfTwo DEF WindowTo
<1>. QED BY <1>1, <1>2, <1>3

(* FirstOf. The first entries of a list.                                   *)
LEMMA FirstOf ==
  ASSUME NEW S, NEW list \in Seq(S), NEW m \in Int, m <= Len(list)
  PROVE  SubSeq(list, 1, m) \in Seq(S)
<1>1. 1 \in Int /\ \A k \in 1 .. m : list[k] \in S
  OBVIOUS
<1>. QED BY <1>1, SubSeqProperties, Zenon

(* DueIs. What a sweep sends for are providers it read.                    *)
LEMMA DueIs ==
  ASSUME NEW got \in Seq(Providers), NEW unread, NEW S, NEW T, sweep \in SweepFields,
         NEW queue, queue = Kept(Kept(got, unread), S) \o Kept(Kept(got, unread), T)
  PROVE  /\ queue \in Seq(Providers)
         /\ BatchSize > 0 => SubSeq(queue, 1, Min({Budget, Len(queue)})) \in Seq(Providers)
<1>1. Kept(got, unread) \in Seq(Providers)
  BY KeptIs
<1>2. Kept(Kept(got, unread), S) \in Seq(Providers) /\ Kept(Kept(got, unread), T) \in Seq(Providers)
  BY <1>1, KeptIs
<1>3. queue \in Seq(Providers)
  BY <1>2
<1>4. Budget \in Int
  <2>1. sweep.found \in Seq(EscAgreements) \cup Seq(Providers)
    BY DEF SweepFields
  <2>2. Len(sweep.found) \in Nat
    BY <2>1
  <2>. QED BY <2>2, EscNumbers DEF Budget
<1>5. PICK l \in Nat : l = Len(queue)
  BY <1>3
<1>6. PICK m \in Int : m = Min({Budget, l}) /\ m <= l
  <2>1. PICK b \in Int : b = Budget
    BY <1>4
  <2>2. Min({b, l}) = IF b <= l THEN b ELSE l
    BY SmallerOfTwo
  <2>. QED BY <2>1, <2>2
<1>7. SubSeq(queue, 1, m) \in Seq(Providers)
  BY <1>3, <1>5, <1>6, FirstOf
<1>. QED BY <1>3, <1>5, <1>6, <1>7

(* HandedKeeps. The schedule hands out a window: the slots in it are owed. *)
LEMMA HandedKeeps ==
  ASSUME EscrowInv, sweep.at = "due", NEW now \in 0 .. escNow,
         owed' = OwedWith({p \in Range(sweep.got) :
                             RebalanceDue(p, WindowFrom(now), WindowTo(now))}),
         covered' = HandedOut(now),
         firstFrom' = IF firstFrom = Nowhere /\ sweep.complete THEN WindowFrom(now) ELSE firstFrom,
         UNCHANGED <<escNow, trackedAt, midSweep, doneAt, listed>>
  PROVE  ScheduleSound' /\ SlotsKept'
<1>. DEFINE slots == {p \in Range(sweep.got) : RebalanceDue(p, WindowFrom(now), WindowTo(now))}
<1>1. PICK f \in Nat, w \in Nat : f = WindowFrom(now) /\ w = WindowTo(now) /\ f <= w /\ w <= escNow
                                  /\ (covered # Nowhere => f = covered)
  <2>1. escNow \in Nat
    BY DEF EscrowInv, BooksSound
  <2>. QED BY <2>1, WindowIs
<1>2. sweep \in SweepFields
  BY DEF EscrowInv, SweepSound
<1>3. Range(sweep.got) \subseteq Providers
  <2>1. sweep.got \in Seq(Providers)
    BY <1>2 DEF SweepFields
  <2>. QED BY <2>1 DEF Range
<1>4. covered' = IF sweep.complete THEN w ELSE covered
  BY <1>1 DEF HandedOut
<1>5. firstFrom' = IF firstFrom = Nowhere /\ sweep.complete THEN f ELSE firstFrom
  BY <1>1
<1>6. owed' = (IF sweep.complete THEN owed \cap Range(sweep.got) ELSE owed) \cup slots
  BY DEF OwedWith
<1>7. ScheduleSound'
  <2>1. owed' \subseteq Providers
    BY <1>3, <1>6 DEF EscrowInv, ScheduleSound
  <2>2. /\ covered \in -1 .. escNow /\ firstFrom \in -1 .. escNow /\ escNow \in Nat
        /\ covered = -1 <=> firstFrom = -1
    BY DEF EscrowInv, BooksSound, ScheduleSound, Nowhere
  <2>3. f <= escNow
    BY <1>1, <2>2
  <2>4. CASE sweep.complete
    <3>1. covered' = w /\ firstFrom' = IF firstFrom = -1 THEN f ELSE firstFrom
      BY <1>4, <1>5, <2>4 DEF Nowhere
    <3>2. covered' \in -1 .. escNow /\ firstFrom' \in -1 .. escNow
          /\ covered' # -1 /\ firstFrom' # -1
      BY <1>1, <2>2, <2>3, <3>1
    <3>. QED BY <2>1, <3>2 DEF EscrowInv, ScheduleSound, Nowhere
  <2>5. CASE ~sweep.complete
    <3>1. covered' = covered /\ firstFrom' = firstFrom
      BY <1>4, <1>5, <2>5
    <3>. QED BY <2>1, <3>1 DEF EscrowInv, ScheduleSound
  <2>. QED BY <2>4, <2>5
<1>8. SlotsKept'
  <2>. SUFFICES ASSUME covered' # Nowhere, midSweep = {}, NEW p \in Range(listed),
                       NEW t \in 1 .. covered', firstFrom' < t, trackedAt[p] < t,
                       RebalanceDue(p, t - 1, t)
                PROVE  p \in owed' \/ doneAt[p] >= t
    BY DEF SlotsKept, RebalanceDue
  <2>1. CASE ~sweep.complete
    <3>1. covered' = covered /\ firstFrom' = firstFrom /\ owed \subseteq owed'
      BY <1>4, <1>5, <1>6, <2>1
    <3>. QED BY <3>1 DEF EscrowInv, SlotsKept
  <2>2. CASE sweep.complete
    <3>1. p \in Range(sweep.got)
      BY <2>2 DEF EscrowInv, ListRead
    <3>2. covered' = w
      BY <1>4, <2>2
    <3>3. CASE t > f
      <4>1. t \in f + 1 .. w
        BY <3>2, <3>3
      <4>2. RebalanceDue(p, f, w)
        BY <1>3, <3>1, <4>1, SlotBetween
      <4>3. p \in slots
        BY <1>1, <3>1, <4>2
      <4>. HIDE DEF slots
      <4>. QED BY <1>6, <4>3
    <3>4. CASE ~(t > f)
      <4>1. covered # Nowhere
        <5>. SUFFICES ASSUME covered = Nowhere PROVE FALSE
          OBVIOUS
        <5>1. firstFrom = Nowhere
          BY DEF EscrowInv, ScheduleSound
        <5>2. firstFrom' = f
          BY <1>5, <2>2, <5>1
        <5>. QED BY <3>4, <5>2
      <4>2. f = covered
        BY <1>1, <4>1
      <4>3. t \in 1 .. covered
        BY <3>2, <3>4, <4>2
      <4>4. firstFrom' = firstFrom
        <5>1. firstFrom # Nowhere
          BY <4>1 DEF EscrowInv, ScheduleSound
        <5>. QED BY <1>5, <5>1
      <4>5. p \in owed \/ doneAt[p] >= t
        BY <4>1, <4>3, <4>4 DEF EscrowInv, SlotsKept
      <4>. QED BY <1>6, <2>2, <3>1, <4>5
    <3>. QED BY <3>3, <3>4
  <2>. QED BY <2>1, <2>2
<1>. QED BY <1>7, <1>8

(* ReadDueKeeps. The providers due are read.                               *)
LEMMA ReadDueKeeps == EscrowInv /\ ReadDue => EscrowInv'
<1>. SUFFICES ASSUME EscrowInv, ReadDue PROVE EscrowInv'
  OBVIOUS
<1>1. UNCHANGED <<escNow, escChanges, trackedAt, midSweep, manager, agreementCursor, doneAt>>
      /\ sweep.at = "due"
  BY DEF ReadDue, EscQuiet
<1>2. escFaults' \in 0 .. EscFaults
  <2>1. EscWorks \/ EscFails
    BY DEF ReadDue
  <2>. QED BY <2>1, FaultsIn
<1>3. BooksSound'
  BY <1>1, <1>2 DEF EscrowInv, BooksSound, manager
<1>4. sweep \in SweepFields /\ sweep.got \in Seq(Providers)
  BY DEF EscrowInv, SweepSound, SweepFields
<1>5. CASE sweep' = NoSweep /\ UNCHANGED <<schedule, firstFrom>>
  BY <1>1, <1>3, <1>5, NoSweepSound, SweepOnly DEF manager
<1>6. ASSUME NEW now \in {escNow, Max({0, escNow - 1})}, NEW unread,
             LET slots  == {p \in Range(sweep.got) :
                              RebalanceDue(p, WindowFrom(now), WindowTo(now))}
                 known  == Kept(sweep.got, Providers \ unread)
                 queue  == Kept(known, thawing) \o Kept(known, OwedWith(slots) \ thawing)
                 due    == IF BatchSize > 0
                           THEN SubSeq(queue, 1, Min({Budget, Len(queue)})) ELSE queue
             IN /\ owed' = OwedWith(slots)
                /\ covered' = HandedOut(now)
                /\ firstFrom' = IF firstFrom = Nowhere /\ sweep.complete
                                THEN WindowFrom(now) ELSE firstFrom
                /\ sweep' = IF due = <<>> THEN NoSweep
                            ELSE [NoSweep EXCEPT !.at = "reconcile", !.found = due]
      PROVE  EscrowInv'
  <2>. DEFINE slots  == {p \in Range(sweep.got) :
                           RebalanceDue(p, WindowFrom(now), WindowTo(now))}
              known  == Kept(sweep.got, Providers \ unread)
              queue  == Kept(known, thawing) \o Kept(known, OwedWith(slots) \ thawing)
              due    == IF BatchSize > 0
                        THEN SubSeq(queue, 1, Min({Budget, Len(queue)})) ELSE queue
  <2>1. now \in 0 .. escNow
    <3>1. escNow \in Nat
      BY DEF EscrowInv, BooksSound
    <3>2. Max({0, escNow - 1}) \in 0 .. escNow
      <4>1. escNow - 1 \in Int
        BY <3>1
      <4>. QED BY <3>1, <4>1, MaxOfTwo
    <3>. QED BY <1>6, <3>1, <3>2
  <2>2. /\ owed' = OwedWith(slots)
        /\ covered' = HandedOut(now)
        /\ firstFrom' = IF firstFrom = Nowhere /\ sweep.complete
                        THEN WindowFrom(now) ELSE firstFrom
        /\ sweep' = IF due = <<>> THEN NoSweep
                    ELSE [NoSweep EXCEPT !.at = "reconcile", !.found = due]
    BY <1>6, Zenon
  <2>3. ScheduleSound' /\ SlotsKept'
    BY <1>1, <2>1, <2>2, HandedKeeps DEF manager
  <2>4. due \in Seq(Providers)
    <3>. HIDE DEF slots
    <3>1. queue \in Seq(Providers)
          /\ (BatchSize > 0 => SubSeq(queue, 1, Min({Budget, Len(queue)})) \in Seq(Providers))
      BY <1>4, DueIs, Zenon
    <3>. HIDE DEF queue
    <3>. QED BY <3>1
  <2>. HIDE DEF due
  <2>5. CASE due = <<>>
    <3>1. sweep' = NoSweep
      BY <2>2, <2>5
    <3>2. SweepSound(sweep)'
      BY <3>1, NoSweepSound DEF SweepSound
    <3>3. ListRead(sweep)' /\ Reconciled(sweep)'
      BY <3>1, NoSweepSound DEF ListRead, Reconciled
    <3>. QED BY <1>3, <2>3, <3>2, <3>3 DEF EscrowInv
  <2>6. CASE due # <<>>
    <3>1. sweep' = [at |-> "reconcile", count |-> 0, next |-> 0, got |-> <<>>, complete |-> TRUE,
                    counts |-> <<>>, found |-> due, failed |-> {}]
      BY <2>2, <2>6 DEF NoSweep
    <3>2. sweep' \in SweepFields
      <4>1. due \in Seq(EscAgreements) \cup Seq(Providers)
        BY <2>4
      <4>. QED BY <3>1, <4>1 DEF SweepFields
    <3>3. sweep'.at = "reconcile" /\ sweep'.found = due /\ sweep'.next = 0
      BY <3>1
    <3>4. SweepSound(sweep)'
      BY <2>4, <3>2, <3>3 DEF SweepSound
    <3>5. ListRead(sweep)'
      BY <3>3 DEF ListRead
    <3>6. \A k \in 1 .. 0 : FALSE
      OBVIOUS
    <3>7. Reconciled(sweep)'
      BY <3>3, <3>6 DEF Reconciled
    <3>. QED BY <1>3, <2>3, <3>4, <3>5, <3>7 DEF EscrowInv
  <2>. QED BY <2>5, <2>6
<1>. QED BY <1>5, <1>6, Zenon DEF ReadDue

(* ReconcileKeeps. The providers due are reconciled one by one, and the    *)
(* schedule is settled.                                                    *)
LEMMA ReconcileKeeps == EscrowInv /\ ReconcileProvider => EscrowInv'
<1>. SUFFICES ASSUME EscrowInv, ReconcileProvider PROVE EscrowInv'
  OBVIOUS
<1>1. UNCHANGED <<escNow, escChanges, trackedAt, midSweep, listed, books, over, covered,
                  agreementCursor, firstFrom>>
      /\ sweep.at = "reconcile"
  BY DEF ReconcileProvider, EscQuiet
<1>2. escFaults' \in 0 .. EscFaults
  BY FaultsIn DEF ReconcileProvider
<1>3. sweep \in SweepFields /\ sweep.found \in Seq(Providers) /\ sweep.next \in Nat
      /\ sweep.failed \subseteq Providers
  BY <1>1 DEF EscrowInv, SweepSound, SweepFields
<1>4. PICK n \in Nat, l \in Nat : n = sweep.next /\ l = Len(sweep.found)
                                  /\ sweep.found \in [1 .. l -> Providers]
  BY <1>3
<1>5. \A k \in 1 .. n : k <= l => sweep.found[k] \in sweep.failed
                                   \/ doneAt[sweep.found[k]] >= covered
  BY <1>1, <1>4 DEF EscrowInv, Reconciled
<1>6. PICK now \in Nat : now = escNow
  BY DEF EscrowInv, BooksSound
<1>c. covered \in -1 .. now /\ doneAt \in [Providers -> -1 .. now]
  BY <1>6 DEF EscrowInv, ScheduleSound, Nowhere
<1>7. CASE /\ n = l
           /\ owed' = Settled(Range(sweep.found) \ sweep.failed, sweep.failed)
           /\ sweep' = NoSweep
           /\ UNCHANGED <<thawing, doneAt>>
  <2>1. owed' = (owed \ (Range(sweep.found) \ sweep.failed)) \cup sweep.failed
    BY <1>7 DEF Settled
  <2>2. BooksSound'
    BY <1>1, <1>2, <1>7 DEF EscrowInv, BooksSound
  <2>3. ScheduleSound'
    BY <1>1, <1>3, <1>7, <2>1 DEF EscrowInv, ScheduleSound
  <2>4. SweepSound(sweep)'
    BY <1>7, NoSweepSound DEF SweepSound
  <2>5. ListRead(sweep)' /\ Reconciled(sweep)'
    BY <1>7, NoSweepSound DEF ListRead, Reconciled
  <2>6. SlotsKept'
    <3>. SUFFICES ASSUME covered # Nowhere, midSweep = {}, NEW p \in Range(listed),
                         NEW t \in 1 .. covered, firstFrom < t, trackedAt[p] < t,
                         RebalanceDue(p, t - 1, t)
                  PROVE  p \in owed' \/ doneAt[p] >= t
      BY <1>1, <1>7 DEF SlotsKept, RebalanceDue
    <3>1. p \in owed \/ doneAt[p] >= t
      BY DEF EscrowInv, SlotsKept
    <3>2. CASE p \in Range(sweep.found) \ sweep.failed
      <4>1. PICK k \in 1 .. l : p = sweep.found[k]
        BY <1>4, <3>2 DEF Range
      <4>2. doneAt[p] >= covered /\ p \in Providers
        BY <1>4, <1>5, <1>7, <3>2, <4>1
      <4>3. doneAt[p] \in -1 .. now
        BY <1>c, <4>2
      <4>. QED BY <1>c, <4>2, <4>3
    <3>. QED BY <2>1, <3>1, <3>2
  <2>. QED BY <2>2, <2>3, <2>4, <2>5, <2>6 DEF EscrowInv
<1>8. CASE n < l /\ UNCHANGED owed
           /\ LET p == sweep.found[sweep.next + 1]
                  sent == [sweep EXCEPT !.next = @ + 1]
              IN \/ /\ sweep' = sent
                    /\ thawing' = thawing \ {p}
                    /\ doneAt' = [doneAt EXCEPT ![p] = escNow]
                 \/ /\ sweep' = [sent EXCEPT !.failed = @ \cup {p}]
                    /\ UNCHANGED <<thawing, doneAt>>
  <2>1. PICK i \in 1 .. l : i = n + 1
    BY <1>8
  <2>2. PICK p \in Providers : p = sweep.found[i] /\ p = sweep.found[sweep.next + 1]
    BY <1>4, <2>1
  <2>3. [sweep EXCEPT !.next = @ + 1] = [sweep EXCEPT !.next = i]
    BY <1>3, <1>4, <2>1 DEF SweepFields
  <2>4. \/ /\ sweep' = [sweep EXCEPT !.next = i] /\ thawing' = thawing \ {p}
           /\ doneAt' = [doneAt EXCEPT ![p] = escNow]
        \/ /\ sweep' = [[sweep EXCEPT !.next = i] EXCEPT !.failed = @ \cup {p}]
           /\ UNCHANGED <<thawing, doneAt>>
    BY <1>8, <2>2, <2>3
  <2>5. i \in Nat
    OBVIOUS
  <2>6. PICK sent \in SweepFields : sent = [sweep EXCEPT !.next = i]
    BY <1>3, <2>5 DEF SweepFields
  <2>7. sent.at = "reconcile" /\ sent.next = i /\ sent.found = sweep.found
        /\ sent.failed = sweep.failed
    BY <1>1, <1>3, <2>5, <2>6 DEF SweepFields
  <2>8. PICK failed \in SUBSET Providers :
           /\ sweep' = [sent EXCEPT !.failed = failed] /\ sweep.failed \subseteq failed
           /\ \/ doneAt' = [doneAt EXCEPT ![p] = escNow] /\ thawing' = thawing \ {p}
              \/ UNCHANGED <<thawing, doneAt>> /\ p \in failed
    <3>1. CASE sweep' = sent /\ thawing' = thawing \ {p}
               /\ doneAt' = [doneAt EXCEPT ![p] = escNow]
      <4>1. sweep' = [sent EXCEPT !.failed = sweep.failed]
        BY <2>7, <3>1 DEF SweepFields
      <4>. QED BY <1>3, <3>1, <4>1
    <3>2. CASE sweep' = [sent EXCEPT !.failed = @ \cup {p}] /\ UNCHANGED <<thawing, doneAt>>
      <4>1. sweep' = [sent EXCEPT !.failed = sweep.failed \cup {p}]
        BY <2>7, <3>2 DEF SweepFields
      <4>2. sweep.failed \cup {p} \in SUBSET Providers
        BY <1>3
      <4>. QED BY <3>2, <4>1, <4>2
    <3>. QED BY <2>4, <2>6, <3>1, <3>2
  <2>9. sweep' \in SweepFields
    BY <2>8 DEF SweepFields
  <2>10. sweep'.at = "reconcile" /\ sweep'.next = i /\ sweep'.found = sweep.found
         /\ sweep'.failed = failed
    BY <2>7, <2>8 DEF SweepFields
  <2>11. \A q \in Providers : doneAt'[q] \in -1 .. now /\ doneAt'[q] >= doneAt[q]
    BY <1>6, <1>c, <2>8
  <2>12. doneAt' \in [Providers -> -1 .. now]
    BY <1>6, <1>c, <2>8
  <2>13. p \in failed \/ doneAt'[p] >= covered
    BY <1>6, <1>c, <2>8
  <2>14. BooksSound'
    <3>1. thawing' \subseteq Providers
      BY <2>8 DEF EscrowInv, BooksSound
    <3>. QED BY <1>1, <1>2, <3>1 DEF EscrowInv, BooksSound
  <2>15. ScheduleSound'
    BY <1>1, <1>6, <1>8, <2>12 DEF EscrowInv, ScheduleSound, Nowhere
  <2>16. SweepSound(sweep)'
    BY <1>3, <2>9, <2>10 DEF SweepSound
  <2>17. ListRead(sweep)'
    BY <2>10 DEF ListRead
  <2>18. Reconciled(sweep)'
    <3>1. ASSUME NEW k \in 1 .. i, k <= l
          PROVE  sweep.found[k] \in failed \/ doneAt'[sweep.found[k]] >= covered
      <4>1. CASE k = i
        BY <2>2, <2>13, <4>1
      <4>2. CASE k \in 1 .. n
        <5>1. PICK q \in Providers : q = sweep.found[k]
          BY <1>4, <3>1
        <5>2. q \in failed \/ doneAt[q] >= covered
          BY <1>5, <2>8, <3>1, <4>2, <5>1
        <5>3. doneAt[q] \in -1 .. now /\ doneAt'[q] \in -1 .. now /\ doneAt'[q] >= doneAt[q]
          BY <1>c, <2>11
        <5>4. q \in failed \/ doneAt'[q] >= covered
          BY <1>c, <5>2, <5>3
        <5>. QED BY <5>1, <5>4
      <4>. QED BY <2>1, <4>1, <4>2
    <3>. QED BY <1>1, <1>4, <2>10, <3>1 DEF Reconciled
  <2>19. SlotsKept'
    <3>. SUFFICES ASSUME covered # Nowhere, midSweep = {}, NEW q \in Range(listed),
                         NEW t \in 1 .. covered, firstFrom < t, trackedAt[q] < t,
                         RebalanceDue(q, t - 1, t)
                  PROVE  q \in owed \/ doneAt'[q] >= t
      BY <1>1, <1>8 DEF SlotsKept, RebalanceDue
    <3>1. q \in owed \/ doneAt[q] >= t
      BY DEF EscrowInv, SlotsKept
    <3>2. q \in Providers
      BY DEF EscrowInv, BooksSound, Range
    <3>3. doneAt[q] \in -1 .. now /\ doneAt'[q] \in -1 .. now /\ doneAt'[q] >= doneAt[q]
      BY <1>c, <2>11, <3>2
    <3>. QED BY <1>c, <3>1, <3>3
  <2>. QED BY <2>14, <2>15, <2>16, <2>17, <2>18, <2>19 DEF EscrowInv
<1>. QED BY <1>4, <1>7, <1>8, Zenon DEF ReconcileProvider

(* EscrowStepKeeps. Every step keeps the invariant.                        *)
LEMMA EscrowStepKeeps == EscrowInv /\ [EscrowNext]_escVars => EscrowInv'
<1>1. EscrowInv /\ UNCHANGED escVars => EscrowInv'
  <2>. SUFFICES ASSUME EscrowInv, UNCHANGED escVars PROVE EscrowInv'
    OBVIOUS
  <2>1. UNCHANGED <<escNow, listed, books, over, thawing, covered, owed, agreementCursor, sweep,
                    firstFrom, trackedAt, midSweep, doneAt, escFaults, escChanges>>
    BY DEF escVars, manager, schedule
  <2>2. BooksSound'
    BY <2>1 DEF EscrowInv, BooksSound
  <2>3. midSweep = {} => ListRead(sweep)'
    BY <2>1 DEF EscrowInv, ListRead
  <2>. QED BY <2>1, <2>2, <2>3, ScheduleStands DEF schedule
<1>. QED
  BY <1>1, ManagerKeeps, TimeKeeps, StopKeeps, StartSweepKeeps, ReadProviderKeeps, CountKeeps,
     CheckKeeps, ReleaseKeeps, ReadDueKeeps, ReconcileKeeps
     DEF EscrowNext, SweepStep

-----------------------------------------------------------------------------
(* The sender among the parts.                                             *)

(* TxAlone. A step of the whole is a step of the sender or none of its.    *)
LEMMA TxAlone == [ChainNext]_allVars => [TxNext]_txVars
<1>. SUFFICES ASSUME [ChainNext]_allVars PROVE [TxNext]_txVars
  OBVIOUS
<1>1. CASE UNCHANGED allVars
  BY <1>1 DEF allVars, clientVars
<1>2. CASE TxPart(TxNext)
  BY <1>2 DEF TxPart, Client
<1>3. CASE PoolPart(PoolNext) \/ SeenPart(SeenNext)
  BY <1>3 DEF PoolPart, SeenPart
<1>4. CASE CursorPart(CursorNext) \/ PollPart(PollNext) \/ ClockPart(ClockNext)
  <2>1. UNCHANGED clientVars
    BY <1>4 DEF CursorPart, PollPart, ClockPart, Listener
  <2>. QED
    BY <2>1 DEF clientVars
<1>5. CASE DomainPart(DomainNext) \/ EscrowPart(EscrowNext)
  <2>1. UNCHANGED clientVars
    BY <1>5 DEF DomainPart, EscrowPart, Upkeep
  <2>. QED
    BY <2>1 DEF clientVars
<1>. QED
  BY <1>1, <1>2, <1>3, <1>4, <1>5 DEF ChainNext

(* ChainSlotsSafe. Every behaviour the runs explore, with any number of    *)
(* calls, faults and endpoints, keeps the sender's slots safe.             *)
THEOREM ChainSlotsSafe == ChainSpec => []SlotsSafe
<1>1. ChainSpec => TxSpec
  <2>1. ChainInit => TxInit
    BY DEF ChainInit
  <2>. QED
    BY <2>1, TxAlone, PTL DEF ChainSpec, TxSpec
<1>. QED
  BY <1>1, SenderSlots, PTL DEF SlotsSafe

-----------------------------------------------------------------------------
(* The listener's drain, its waits and its clock among the parts.          *)

(* ListenerAlone. A step of the whole is, for the drain, for the poll loop *)
(* and for the chain time, a step of their own or none.                    *)
LEMMA ListenerAlone ==
  [ChainNext]_allVars =>
    [CursorNext]_cursorVars /\ [PollNext]_pollVars /\ [ClockNext]_clockVars
<1>. SUFFICES ASSUME [ChainNext]_allVars
              PROVE  [CursorNext]_cursorVars /\ [PollNext]_pollVars /\ [ClockNext]_clockVars
  OBVIOUS
<1>1. CASE UNCHANGED listenerVars
  BY <1>1 DEF listenerVars
<1>2. CASE UNCHANGED allVars
  BY <1>1, <1>2 DEF allVars
<1>3. CASE TxPart(TxNext) \/ PoolPart(PoolNext) \/ SeenPart(SeenNext)
  BY <1>1, <1>3 DEF TxPart, PoolPart, SeenPart, Client
<1>4. CASE CursorPart(CursorNext)
  BY <1>4 DEF CursorPart, Listener
<1>5. CASE PollPart(PollNext)
  BY <1>5 DEF PollPart, Listener
<1>6. CASE ClockPart(ClockNext)
  BY <1>6 DEF ClockPart, Listener
<1>7. CASE DomainPart(DomainNext) \/ EscrowPart(EscrowNext)
  BY <1>1, <1>7 DEF DomainPart, EscrowPart, Upkeep
<1>. QED
  BY <1>2, <1>3, <1>4, <1>5, <1>6, <1>7 DEF ChainNext

(* ChainListenerOnTime. For any intervals, backoffs and tolerances: a      *)
(* notification is not lost, lost cancels are swept in time, the sweeps    *)
(* back off while the broker is down, and the stored chain time is never   *)
(* far ahead, never goes back and follows the first right answer.          *)
THEOREM ChainListenerOnTime == ChainSpec => ListenerOnTime
<1>. DEFINE Inv == PollInv /\ ClockInv
            OnTime == /\ PollTypeOK' /\ ClockTypeOK'
                      /\ OpenPolledFast' /\ LostCancelsSwept' /\ SweepsBackOff
                      /\ NotExpiredEarly' /\ ClockForward /\ ClockCatchesUp
<1>1. ChainInit => Inv
  BY InitPollInv, InitClockInv DEF ChainInit
<1>2. Inv /\ [ChainNext]_allVars => Inv'
  BY ListenerAlone, PollStepKeeps, ClockStepKeeps
<1>3. PollInv => PollTypeOK /\ OpenPolledFast /\ LostCancelsSwept
  BY PollHold
<1>4. ClockInv => ClockTypeOK /\ NotExpiredEarly
  BY DEF ClockInv
<1>5. Inv /\ [ChainNext]_allVars => SweepsBackOff /\ ClockForward /\ ClockCatchesUp
  BY ListenerAlone, PollStepsBackOff, ClockStepsForward
<1>6. (PollInv => PollTypeOK /\ OpenPolledFast /\ LostCancelsSwept)'
  BY <1>3, PTL
<1>7. Inv' => /\ PollTypeOK' /\ OpenPolledFast' /\ LostCancelsSwept'
             /\ ClockTypeOK' /\ NotExpiredEarly'
  BY <1>6 DEF ClockInv
<1>8. Inv /\ [ChainNext]_allVars => OnTime
  BY <1>2, <1>5, <1>7
<1>9. Inv /\ [ChainNext]_allVars => [(part \in {"poll", "clock"}) => OnTime]_allVars
  BY <1>8
<1>. QED
  BY <1>1, <1>2, <1>9, PTL DEF ChainSpec, ListenerOnTime

(* ChainCursorSafe. For any agreements, pages, buffer, chain and number of *)
(* faults: the listener's cursor never goes back and passes no change in   *)
(* silence, and the check of a change is queued once.                      *)
THEOREM ChainCursorSafe == ChainSpec => CursorSafe
<1>. DEFINE Safe == CursorTypeOK' /\ NothingLost' /\ CheckedOnce' /\ CursorForward
<1>1. ChainInit => CursorInv
  BY InitCursorInv DEF ChainInit
<1>2. CursorInv /\ [ChainNext]_allVars => CursorInv'
  BY ListenerAlone, CursorStepKeeps
<1>3. (CursorInv => CursorTypeOK /\ NothingLost /\ CheckedOnce)'
  BY CursorHolds, PTL
<1>4. CursorInv /\ [ChainNext]_allVars => Safe
  BY <1>2, <1>3, ListenerAlone, CursorStepsForward
<1>5. CursorInv /\ [ChainNext]_allVars => [(part = "cursor") => Safe]_allVars
  BY <1>4
<1>. QED
  BY <1>1, <1>2, <1>5, PTL DEF ChainSpec, CursorSafe

-----------------------------------------------------------------------------
(* The client's reads among the parts.                                     *)

(* ReadsAlone. A step of the whole is, for the pool and for the newest     *)
(* block, a step of their own or none.                                     *)
LEMMA ReadsAlone == [ChainNext]_allVars => [PoolNext]_poolVars /\ [SeenNext]_seenVars
<1>. SUFFICES ASSUME [ChainNext]_allVars PROVE [PoolNext]_poolVars /\ [SeenNext]_seenVars
  OBVIOUS
<1>1. CASE UNCHANGED clientVars
  BY <1>1 DEF clientVars
<1>2. CASE UNCHANGED allVars
  BY <1>1, <1>2 DEF allVars
<1>3. CASE TxPart(TxNext)
  BY <1>3 DEF TxPart
<1>4. CASE PoolPart(PoolNext)
  BY <1>4 DEF PoolPart, Client
<1>5. CASE SeenPart(SeenNext)
  BY <1>5 DEF SeenPart, Client
<1>6. CASE CursorPart(CursorNext) \/ PollPart(PollNext) \/ ClockPart(ClockNext)
  BY <1>1, <1>6 DEF CursorPart, PollPart, ClockPart, Listener
<1>7. CASE DomainPart(DomainNext) \/ EscrowPart(EscrowNext)
  BY <1>1, <1>7 DEF DomainPart, EscrowPart, Upkeep
<1>. QED
  BY <1>2, <1>3, <1>4, <1>5, <1>6, <1>7 DEF ChainNext

(* ChainReadsSafe. For any number of endpoints, calls, retries and         *)
(* readers, and any faulty endpoint: a call asks every endpoint before it  *)
(* gives up, keeps its budget and tells of a refusal; a read is not older  *)
(* than an earlier one, and a confirmed block is one the chain had.        *)
THEOREM ChainReadsSafe == ChainSpec => ReadsSafe
<1>. DEFINE Inv == PoolInv /\ SeenInv
            Safe == /\ PoolTypeOK' /\ SeenTypeOK'
                    /\ WalksTheWholeRing' /\ WalkWithinBudget' /\ RefusalNamed
                    /\ SeenIsReal' /\ ReadsNeverGoBack
<1>1. ChainInit => Inv
  BY InitPoolInv, InitSeenInv DEF ChainInit
<1>2. Inv /\ [ChainNext]_allVars => Inv'
  BY ReadsAlone, PoolStepKeeps, SeenStepKeeps
<1>3. (PoolInv => PoolTypeOK /\ WalksTheWholeRing /\ WalkWithinBudget)'
  BY PoolHolds, PTL
<1>4. (SeenInv => SeenTypeOK /\ SeenIsReal)'
  BY SeenHolds, PTL
<1>5. Inv /\ [ChainNext]_allVars => RefusalNamed /\ ReadsNeverGoBack
  BY ReadsAlone, RefusalKept, SeenNotBack
<1>6. Inv /\ [ChainNext]_allVars => Safe
  BY <1>2, <1>3, <1>4, <1>5
<1>7. Inv /\ [ChainNext]_allVars => [(part \in {"pool", "seen"}) => Safe]_allVars
  BY <1>6
<1>. QED
  BY <1>1, <1>2, <1>7, PTL DEF ChainSpec, ReadsSafe

-----------------------------------------------------------------------------
(* The domain and the escrow among the parts.                              *)

(* UpkeepAlone. A step of the whole is, for the domain and for the escrow, *)
(* a step of their own or none.                                            *)
LEMMA UpkeepAlone == [ChainNext]_allVars => [DomainNext]_rdVars /\ [EscrowNext]_escVars
<1>. SUFFICES ASSUME [ChainNext]_allVars PROVE [DomainNext]_rdVars /\ [EscrowNext]_escVars
  OBVIOUS
<1>1. CASE UNCHANGED upkeepVars
  BY <1>1 DEF upkeepVars
<1>2. CASE UNCHANGED allVars
  BY <1>1, <1>2 DEF allVars
<1>3. CASE TxPart(TxNext) \/ PoolPart(PoolNext) \/ SeenPart(SeenNext)
  BY <1>1, <1>3 DEF TxPart, PoolPart, SeenPart, Client
<1>4. CASE CursorPart(CursorNext) \/ PollPart(PollNext) \/ ClockPart(ClockNext)
  BY <1>1, <1>4 DEF CursorPart, PollPart, ClockPart, Listener
<1>5. CASE DomainPart(DomainNext)
  BY <1>5 DEF DomainPart, Upkeep
<1>6. CASE EscrowPart(EscrowNext)
  BY <1>6 DEF EscrowPart, Upkeep
<1>. QED
  BY <1>2, <1>3, <1>4, <1>5, <1>6 DEF ChainNext

(* ChainUpkeepKept. For any upgrades and agreements, any providers, slots, *)
(* batch and sweep sizes and any number of failures: the domain in use is  *)
(* one dipper can reproduce, and a rebalance whose slot came is owed until *)
(* it is done.                                                             *)
THEOREM ChainUpkeepKept == ChainSpec => []UpkeepKept
<1>. DEFINE Inv == DomainInv /\ EscrowInv
<1>1. ChainInit => Inv
  BY InitDomainInv, InitEscrowInv DEF ChainInit
<1>2. Inv /\ [ChainNext]_allVars => Inv'
  BY UpkeepAlone, DomainStepKeeps, EscrowStepKeeps
<1>3. Inv => UpkeepKept
  BY EscrowHolds DEF DomainInv, UpkeepKept
<1>. QED
  BY <1>1, <1>2, <1>3, PTL DEF ChainSpec
=============================================================================
