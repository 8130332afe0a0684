--------------------------- MODULE Services_proofs ---------------------------
(***************************************************************************)
(* Proofs about the parts of MCServices, each by itself and for every      *)
(* value of its constants: the process that runs the services (Process),   *)
(* the caches of network data (NetworkCaches), who is offered an agreement *)
(* and at which price (Selection), the watcher of the indexers' terms      *)
(* (DipsInfoWatch), the settings (Configuration), the calls of a job       *)
(* (OutboundCalls) and its retries (OfferRetries), and the check of the    *)
(* indexers' progress (LivenessCheck).                                     *)
(***************************************************************************)
EXTENDS Process, NetworkCaches, Selection, DipsInfoWatch, Configuration, OutboundCalls,
        OfferRetries, LivenessCheck, FiniteSetTheorems, WellFoundedInduction, TLAPS

(* SmallestIn. A set of numbers that is not empty has a smallest one.      *)
LEMMA SmallestIn ==
  ASSUME NEW S \in SUBSET Nat, S # {}
  PROVE  \E m \in S : \A x \in S : m <= x
<1>. DEFINE R == OpToRel(<, Nat)
<1>1. IsWellFoundedOn(R, Nat)
  BY NatLessThanWellFounded
<1>2. PICK m \in S : \A x \in S : ~(<<x, m>> \in R)
  <2>. HIDE DEF R
  <2>. QED BY <1>1, WFMin
<1>3. \A x \in S : ~(x < m)
  BY <1>2 DEF OpToRel
<1>. QED BY <1>3

(* LargestIn. A set of numbers below a bound that is not empty has a       *)
(* largest one.                                                            *)
LEMMA LargestIn ==
  ASSUME NEW n \in Nat, NEW S \in SUBSET (0 .. n), S # {}
  PROVE  \E m \in S : \A x \in S : x <= m
<1>. DEFINE T == {n - x : x \in S}
<1>1. T \in SUBSET Nat /\ T # {}
  <2>1. PICK s \in S : TRUE
    OBVIOUS
  <2>2. n - s \in T
    OBVIOUS
  <2>3. \A x \in S : n - x \in Nat
    OBVIOUS
  <2>. QED BY <2>2, <2>3
<1>2. PICK t \in T : \A y \in T : t <= y
  <2>. HIDE DEF T
  <2>. QED BY <1>1, SmallestIn
<1>3. PICK m \in S : t = n - m
  BY <1>2
<1>4. \A x \in S : n - m <= n - x
  BY <1>2, <1>3
<1>. QED BY <1>4

(* SmallerOfTwo. The minimum of two numbers.                               *)
LEMMA SmallerOfTwo ==
  ASSUME NEW m \in Int, NEW n \in Int
  PROVE  Min({m, n}) = IF m <= n THEN m ELSE n
<1>1. \A x \in {m, n} : (\A y \in {m, n} : x <= y) => x = IF m <= n THEN m ELSE n
  OBVIOUS
<1>2. \E x \in {m, n} : \A y \in {m, n} : x <= y
  OBVIOUS
<1>. QED
  BY <1>1, <1>2 DEF Min

(* DivIs. What the division of numbers is.                                 *)
LEMMA DivIs ==
  ASSUME NEW x \in Nat, NEW p \in Nat \ {0}
  PROVE  x \div p \in Nat /\ p * (x \div p) <= x /\ x < p * (x \div p) + p
  OBVIOUS

(* RoundsUp. A division rounded up, times the divisor, is at least what    *)
(* was divided, by less than the divisor.                                  *)
LEMMA RoundsUp ==
  ASSUME NEW a \in Nat, NEW p \in Nat \ {0}
  PROVE  /\ (a + p - 1) \div p \in Nat /\ ((a + p - 1) \div p) * p >= a
         /\ ((a + p - 1) \div p) * p <= a + p - 1
<1>1. a + p - 1 \in Nat
  OBVIOUS
<1>. DEFINE x == a + p - 1
            q == x \div p
<1>2. q \in Nat /\ x < p * q + p /\ p * q <= x
  <2>. HIDE DEF x
  <2>. QED BY <1>1, DivIs DEF x
<1>3. p * q \in Int /\ q * p = p * q
  BY <1>2
<1>4. a <= p * q /\ p * q <= a + p - 1
  <2>. HIDE DEF q
  <2>. QED BY <1>2, <1>3
<1>. QED BY <1>2, <1>3, <1>4

(* TimesMore. What is greater stays so when it is multiplied.              *)
LEMMA TimesMore ==
  ASSUME NEW a \in Int, NEW b \in Int, NEW g \in Nat, a <= b
  PROVE  a * g \in Int /\ b * g \in Int /\ a * g <= b * g
<1>1. PICK d \in Nat : b = a + d
  <2>1. b - a \in Nat /\ b = a + (b - a)
    OBVIOUS
  <2>. QED BY <2>1
<1>2. b * g = a * g + d * g
  BY <1>1
<1>3. d * g \in Nat /\ a * g \in Int /\ b * g \in Int
  OBVIOUS
<1>. QED BY <1>2, <1>3

(* TimesSum. The product with a sum is the sum of the products.            *)
LEMMA TimesSum ==
  ASSUME NEW a \in Int, NEW b \in Int, NEW g \in Int
  PROVE  (a + b - 1) * g = a * g + b * g - g
<1>1. (a + (b - 1)) * g = a * g + (b - 1) * g /\ (b - 1) * g = b * g - g
  OBVIOUS
<1>2. a + (b - 1) = a + b - 1 /\ a * g \in Int /\ b * g \in Int
  OBVIOUS
<1>. QED BY <1>1, <1>2

(* LargerOfTwo. The maximum of two numbers.                                *)
LEMMA LargerOfTwo ==
  ASSUME NEW m \in Int, NEW n \in Int
  PROVE  Max({m, n}) = IF m >= n THEN m ELSE n
<1>1. \A x \in {m, n} : (\A y \in {m, n} : x >= y) => x = IF m >= n THEN m ELSE n
  OBVIOUS
<1>2. \E x \in {m, n} : \A y \in {m, n} : x >= y
  OBVIOUS
<1>. QED
  BY <1>1, <1>2 DEF Max

(* SumExists. What is added up step by step has a sum after each step.     *)
LEMMA SumExists ==
  ASSUME NEW N \in Nat, NEW d \in [Nat -> Nat]
  PROVE  \E f \in [0 .. N -> Nat] : f[0] = 0 /\ \A n \in 1 .. N : f[n] = f[n - 1] + d[n - 1]
<1>. DEFINE Sums(m) == \E f \in [0 .. m -> Nat] :
                         f[0] = 0 /\ \A n \in 1 .. m : f[n] = f[n - 1] + d[n - 1]
            Bad == {m \in Nat : ~Sums(m)}
<1>1. Sums(0)
  <2>. DEFINE g == [n \in 0 .. 0 |-> 0]
  <2>1. g \in [0 .. 0 -> Nat] /\ g[0] = 0 /\ \A n \in 1 .. 0 : g[n] = g[n - 1] + d[n - 1]
    OBVIOUS
  <2>. QED BY <2>1
<1>2. ASSUME NEW m \in Nat, Sums(m)
      PROVE  Sums(m + 1)
  <2>1. PICK f \in [0 .. m -> Nat] : f[0] = 0 /\ \A n \in 1 .. m : f[n] = f[n - 1] + d[n - 1]
    BY <1>2
  <2>. DEFINE g == [n \in 0 .. m + 1 |-> IF n <= m THEN f[n] ELSE f[m] + d[m]]
  <2>2. g \in [0 .. m + 1 -> Nat] /\ g[0] = 0
    <3>1. ASSUME NEW n \in 0 .. m + 1
          PROVE  (IF n <= m THEN f[n] ELSE f[m] + d[m]) \in Nat
      <4>1. f[m] \in Nat /\ d[m] \in Nat
        OBVIOUS
      <4>2. n <= m => f[n] \in Nat
        OBVIOUS
      <4>. QED BY <4>1, <4>2
    <3>2. g[0] = 0
      BY <2>1
    <3>3. g \in [0 .. m + 1 -> Nat]
      BY <3>1
    <3>. QED BY <3>2, <3>3
  <2>3. ASSUME NEW n \in 1 .. m + 1
        PROVE  g[n] = g[n - 1] + d[n - 1]
    <3>1. CASE n = m + 1
      <4>1. g[m + 1] = f[m] + d[m] /\ g[m] = f[m]
        OBVIOUS
      <4>2. n - 1 = m
        BY <3>1
      <4>. QED BY <3>1, <4>1, <4>2
    <3>2. CASE n \in 1 .. m
      BY <2>1, <3>2
    <3>. QED BY <3>1, <3>2
  <2>. QED BY <2>2, <2>3
<1>. HIDE DEF Sums
<1>3. Bad = {}
  <2>. SUFFICES ASSUME Bad # {}
                PROVE  FALSE
    OBVIOUS
  <2>1. PICK m \in Bad : \A x \in Bad : m <= x
    <3>1. Bad \in SUBSET Nat
      OBVIOUS
    <3>. HIDE DEF Bad
    <3>. QED BY <3>1, SmallestIn
  <2>2. m # 0
    BY <1>1
  <2>3. m - 1 \in Nat /\ m - 1 \notin Bad
    BY <2>1, <2>2
  <2>4. Sums((m - 1) + 1)
    BY <1>2, <2>3
  <2>. QED BY <2>4
<1>. QED BY <1>3 DEF Sums

(* SumTyped. A sum of numbers is a number.                                 *)
LEMMA SumTyped ==
  ASSUME NEW N \in Nat, NEW d \in [Nat -> Nat], NEW f,
         f[0] = 0, \A n \in 1 .. N : f[n] = f[n - 1] + d[n - 1]
  PROVE  \A n \in 0 .. N : f[n] \in Nat
<1>. DEFINE Bad == {n \in 0 .. N : f[n] \notin Nat}
<1>3. Bad = {}
  <2>. SUFFICES ASSUME Bad # {}
                PROVE  FALSE
    OBVIOUS
  <2>1. PICK m \in Bad : \A x \in Bad : m <= x
    <3>1. Bad \in SUBSET Nat
      OBVIOUS
    <3>. HIDE DEF Bad
    <3>. QED BY <3>1, SmallestIn
  <2>2. m \in 1 .. N /\ m - 1 \in 0 .. N
    BY <2>1
  <2>3. f[m - 1] \in Nat
    BY <2>1, <2>2
  <2>4. d[m - 1] \in Nat
    BY <2>2
  <2>5. f[m] = f[m - 1] + d[m - 1]
    BY <2>2
  <2>. QED BY <2>1, <2>3, <2>4, <2>5
<1>. QED BY <1>3

(* SumCovers. What is added up is at least each of its parts.              *)
LEMMA SumCovers ==
  ASSUME NEW N \in Nat, NEW d \in [Nat -> Nat], NEW f,
         f[0] = 0, \A n \in 1 .. N : f[n] = f[n - 1] + d[n - 1],
         NEW k \in 0 .. N - 1
  PROVE  f[N] >= d[k]
<1>1. \A n \in 0 .. N : f[n] \in Nat
  BY SumTyped
<1>. DEFINE Bad == {n \in k + 1 .. N : f[n] < d[k]}
<1>2. Bad = {}
  <2>. SUFFICES ASSUME Bad # {}
                PROVE  FALSE
    OBVIOUS
  <2>1. PICK m \in Bad : \A x \in Bad : m <= x
    <3>1. Bad \in SUBSET Nat
      OBVIOUS
    <3>. HIDE DEF Bad
    <3>. QED BY <3>1, SmallestIn
  <2>2. m \in 1 .. N /\ m - 1 \in 0 .. N /\ m \in k + 1 .. N /\ f[m] < d[k]
    BY <2>1
  <2>3. f[m - 1] \in Nat /\ d[m - 1] \in Nat /\ d[k] \in Nat
    BY <1>1, <2>2
  <2>4. f[m] = f[m - 1] + d[m - 1]
    BY <2>2
  <2>5. CASE m = k + 1
    <3>1. m - 1 = k
      BY <2>5
    <3>. QED BY <2>2, <2>3, <2>4, <3>1
  <2>6. CASE m # k + 1
    <3>1. m - 1 \in k + 1 .. N /\ m - 1 \notin Bad
      BY <2>1, <2>2, <2>6
    <3>2. ~(f[m - 1] < d[k])
      BY <3>1
    <3>. QED BY <2>2, <2>3, <2>4, <3>2
  <2>. QED BY <2>5, <2>6
<1>3. N \in k + 1 .. N /\ N \notin Bad
  BY <1>2
<1>4. ~(f[N] < d[k])
  BY <1>3
<1>5. f[N] \in Nat /\ d[k] \in Nat
  BY <1>1
<1>. QED BY <1>4, <1>5

-----------------------------------------------------------------------------
(* The process that runs the services.                                     *)

HandlerPlaces == {"register", "check", "parked", "stop", "flush", "close", "end"}

(* The handler task and the start-up are records with these fields.        *)
RecordsTyped ==
  /\ prHandler \in [at : HandlerPlaces, step : 1 .. Len(StopOrder) + 1, age : 0 .. 1,
                    all : BOOLEAN, error : BOOLEAN]
  /\ prBoot \in [step : {"config", "domain", "database", "urls", "iisa", "networks", "role",
                         "size", "bind", "up"},
                 attempt : 0 .. Max({DomainRetries, UrlRetries, IisaTries - 1})]

(* The supervisor joins a task that ended, and remembers one that failed.  *)
JoinsSound ==
  /\ \A t \in prJoined : prTask[t] # "run"
  /\ ~prFirst => \A t \in prJoined : prTask[t] = "ok"
  /\ prJoined # {} => prRequested

(* Nobody is woken before the request, and the request has a cause: a      *)
(* signal, a failure that was seen, or one the handler will end with.      *)
RequestCaused ==
  /\ prHeard # {} \/ prPending # {} => prRequested
  /\ prRequested => prSignal \/ prFirst \/ prHandler.error
  /\ WaitsAt(prHandler.at) => ~prSignal /\ ~prHandler.error
  /\ prTask[Handler] = "ok" => ~prHandler.error

(* What the stop sequence has passed with everything stopped has stopped.  *)
SequenceSound ==
  /\ prHandler.at \notin {"flush", "close", "end"} => prHandler.step <= Len(StopOrder)
  /\ prHandler.at \in {"flush", "close", "end"} => prHandler.step = Len(StopOrder) + 1
  /\ prHandler.at = "close" => prHandler.all
  /\ prHandler.all => \A i \in 1 .. prHandler.step - 1 : prTask[StopOrder[i]] # "run"

(* The teardown's clock is the deadline's.                                 *)
ClockSound == prSince = IF prDeadline = -1 THEN 0 ELSE prDeadline

ProcessInv == /\ ProcessTypeOK
              /\ RecordsTyped
              /\ JoinsSound
              /\ RequestCaused
              /\ SequenceSound
              /\ ClockSound
              /\ CleanExitIsClean
              /\ PoolClosedAlone

-----------------------------------------------------------------------------
(* The services and the parts of the invariant.                            *)

(* ServicesAre. The services are those the sequence stops; the handler is  *)
(* none of them.                                                           *)
LEMMA ServicesAre ==
  /\ Services = {StopOrder[i] : i \in 1 .. Len(StopOrder)}
  /\ Handler \notin Services /\ Handler \in Tasks /\ Services \subseteq Tasks
  /\ Len(StopOrder) \in Nat \ {0}
<1>1. StopOrder \in Seq(STRING) /\ Len(StopOrder) > 0 /\ Handler \notin Range(StopOrder)
  BY ProcessAssumption DEF Handler
<1>2. DOMAIN StopOrder = 1 .. Len(StopOrder) /\ Len(StopOrder) \in Nat
  BY <1>1
<1>. QED
  BY <1>1, <1>2 DEF Services, Tasks, Range

(* MaxBounds. The bound on attempts is at least each number of retries.    *)
LEMMA MaxBounds ==
  LET M == Max({DomainRetries, UrlRetries, IisaTries - 1})
  IN M \in Nat /\ \A r \in {0, DomainRetries, UrlRetries, IisaTries - 1} : r <= M /\ r \in Nat
<1>. DEFINE a == DomainRetries
            b == UrlRetries
            d == IisaTries - 1
<1>1. a \in Nat /\ b \in Nat /\ d \in Nat
  <2>1. DomainRetries \in Nat /\ UrlRetries \in Nat /\ IisaTries \in Nat \ {0}
    BY ProcessAssumption, Zenon
  <2>. QED
    BY <2>1
<1>. HIDE DEF a, b, d
<1>2. \E x \in {a, b, d} : \A y \in {a, b, d} : x >= y
  BY <1>1
<1>3. Max({a, b, d}) \in {a, b, d} /\ \A y \in {a, b, d} : Max({a, b, d}) >= y
  BY <1>2 DEF Max
<1>4. Max({a, b, d}) \in Nat /\ \A r \in {0, a, b, d} : r <= Max({a, b, d}) /\ r \in Nat
  BY <1>1, <1>3
<1>. QED
  BY <1>4 DEF a, b, d

(* The type invariant, without the two records.                            *)
RestTyped ==
  /\ prTask \in [Tasks -> {"run", "ok", "err"}]
  /\ prJoined \subseteq Tasks /\ prAsked \subseteq Services
  /\ prRequested \in BOOLEAN /\ prFirst \in BOOLEAN /\ prSignal \in BOOLEAN
  /\ prHeard \subseteq prWaiters /\ prWaiters \subseteq {"supervisor", Handler}
  /\ prPending \subseteq {"supervisor", Handler}
  /\ prSup \in {"top", "register", "check", "parked", "bounded"}
  /\ prDeadline \in -1 .. TeardownGrace /\ prSince \in Nat
  /\ prPool \in {"open", "closing", "closed"}
  /\ prExit \in {"none", "ok", "failed"}

(* TypeIs. The type invariant, from its parts.                             *)
LEMMA TypeIs ==
  /\ RecordsTyped /\ RestTyped => ProcessTypeOK
  /\ ProcessTypeOK => RestTyped
  /\ (RecordsTyped /\ RestTyped)' => ProcessTypeOK'
BY DEF RecordsTyped, RestTyped, ProcessTypeOK, HandlerPlaces

(* FieldsTyped. The fields of the handler.                                 *)
LEMMA FieldsTyped ==
  ASSUME RecordsTyped
  PROVE  /\ prHandler.at \in HandlerPlaces /\ prHandler.step \in 1 .. Len(StopOrder) + 1
         /\ prHandler.step \in Nat \ {0}
         /\ prHandler.age \in 0 .. 1
         /\ prHandler.all \in BOOLEAN /\ prHandler.error \in BOOLEAN
BY ServicesAre DEF RecordsTyped

(* HandlerIs. What a change of the handler's record changes.               *)
LEMMA HandlerIs ==
  ASSUME RecordsTyped, NEW at \in HandlerPlaces, NEW step \in 1 .. Len(StopOrder) + 1,
         NEW all \in BOOLEAN, UNCHANGED prBoot,
         prHandler' = [prHandler EXCEPT !.at = at, !.step = step, !.age = 0, !.all = all]
  PROVE  /\ RecordsTyped'
         /\ prHandler'.at = at /\ prHandler'.step = step /\ prHandler'.all = all
         /\ prHandler'.error = prHandler.error
<1>1. 0 \in 0 .. 1
  OBVIOUS
<1>. QED
  BY <1>1 DEF RecordsTyped

(* InitProcessInv. The invariant holds as the process starts.              *)
LEMMA InitProcessInv == ProcessInit => ProcessInv
<1>. SUFFICES ASSUME ProcessInit PROVE ProcessInv
  OBVIOUS
<1>. USE DEF ProcessInit
<1>1. RecordsTyped
  BY MaxBounds, ServicesAre DEF RecordsTyped, HandlerPlaces
<1>2. RestTyped
  <2>1. TeardownGrace \in Nat
    BY ProcessAssumption, Zenon
  <2>2. prDeadline \in -1 .. TeardownGrace
    BY <2>1
  <2>3. prTask \in [Tasks -> {"run", "ok", "err"}]
    OBVIOUS
  <2>. QED
    BY <2>2, <2>3 DEF RestTyped
<1>3. JoinsSound /\ RequestCaused /\ ClockSound /\ CleanExitIsClean /\ PoolClosedAlone
  BY ServicesAre
  DEF JoinsSound, RequestCaused, ClockSound, CleanExitIsClean, PoolClosedAlone
<1>4. SequenceSound
  BY ServicesAre DEF SequenceSound
<1>. QED
  BY <1>1, <1>2, <1>3, <1>4, TypeIs DEF ProcessInv

-----------------------------------------------------------------------------
(* One lemma for each action.                                              *)

(* A step of the start-up.                                                 *)
LEMMA BootKeeps ==
  ASSUME ProcessInv, Boot
  PROVE  ProcessInv'
<1>. USE DEF ProcessInv
<1>1. PICK step, next \in {"config", "domain", "database", "urls", "iisa", "networks", "role",
                           "size", "bind", "up"},
           retries \in {0, DomainRetries, UrlRetries, IisaTries - 1}, ok \in BOOLEAN :
        BootTry(step, next, retries, ok)
  <2>1. CASE \E found \in {"some", "none", "error"} : FetchUrls(found)
    <3>1. PICK found \in {"some", "none", "error"} : FetchUrls(found)
      BY <2>1
    <3>2. (found = "some" \/ (found = "none" /\ AllowEmpty)) \in BOOLEAN
      OBVIOUS
    <3>. QED
      BY <3>1, <3>2, Zenon DEF FetchUrls
  <2>2. CASE \E ok \in BOOLEAN :
               \/ LoadConfig(ok) \/ FetchDomain(ok) \/ ConnectDb(ok) \/ CheckIisa(ok)
               \/ LoadNetworks(ok) \/ CheckRole(ok) \/ SizePool(ok) \/ BindHealthServer(ok)
    BY <2>2, Zenon DEF LoadConfig, FetchDomain, ConnectDb, CheckIisa, LoadNetworks, CheckRole,
         SizePool, BindHealthServer
  <2>. QED
    BY <2>1, <2>2, Zenon DEF Boot
<1>2. /\ prExit = "none" /\ prExit' \in {"none", "failed"}
      /\ UNCHANGED <<prTask, prJoined, prAsked, prShared, supVars, prHandler, prPool, prSignal>>
  BY <1>1 DEF BootTry
<1>3. RecordsTyped'
  <2>1. CASE prBoot' = [step |-> next, attempt |-> 0]
    BY <1>2, <2>1, MaxBounds DEF RecordsTyped
  <2>2. CASE prBoot.attempt < retries /\ prBoot' = [prBoot EXCEPT !.attempt = @ + 1]
    <3>1. prBoot.attempt \in Nat /\ prBoot.attempt + 1 \in
            0 .. Max({DomainRetries, UrlRetries, IisaTries - 1})
      BY <2>2, MaxBounds DEF RecordsTyped
    <3>. QED
      BY <1>2, <2>2, <3>1 DEF RecordsTyped
  <2>3. CASE UNCHANGED prBoot
    BY <1>2, <2>3 DEF RecordsTyped
  <2>. QED
    BY <1>1, <2>1, <2>2, <2>3 DEF BootTry
<1>4. RestTyped'
  BY <1>2, TypeIs DEF RestTyped, prShared, supVars
<1>5. JoinsSound' /\ RequestCaused' /\ SequenceSound' /\ ClockSound' /\ PoolClosedAlone'
  BY <1>2 DEF JoinsSound, RequestCaused, SequenceSound, ClockSound, PoolClosedAlone, prShared,
              supVars, WaitsAt
<1>6. CleanExitIsClean'
  BY <1>2 DEF CleanExitIsClean
<1>. QED
  BY <1>3, <1>4, <1>5, <1>6, TypeIs

(* NotifyAllKeeps. Waking the waiters of a request.                        *)
LEMMA NotifyAllKeeps ==
  ASSUME ProcessInv, NEW who \in {"supervisor", Handler}, NotifyAll(who)
  PROVE  ProcessInv'
<1>. USE DEF ProcessInv
<1>1. /\ prExit = "none" /\ who \in prPending /\ prHeard' = prWaiters
      /\ prPending' = prPending \ {who}
      /\ UNCHANGED <<prBoot, prTask, prJoined, prAsked, prRequested, prWaiters, prSup,
                     prDeadline, prSince, prFirst, prHandler, prPool, prSignal, prExit>>
  BY DEF NotifyAll, Up, supVars
<1>2. RecordsTyped'
  BY <1>1 DEF RecordsTyped
<1>3. RestTyped'
  BY <1>1, TypeIs DEF RestTyped
<1>4. JoinsSound' /\ SequenceSound' /\ ClockSound' /\ PoolClosedAlone' /\ CleanExitIsClean'
  BY <1>1 DEF JoinsSound, SequenceSound, ClockSound, PoolClosedAlone, CleanExitIsClean
<1>5. RequestCaused'
  BY <1>1 DEF RequestCaused, WaitsAt
<1>. QED
  BY <1>2, <1>3, <1>4, <1>5, TypeIs

(* A task ends: what was joined or has been stopped had ended before.      *)
LEMMA ServiceEndsKeeps ==
  ASSUME ProcessInv, NEW s \in Services, NEW how \in {"ok", "err"}, ServiceEnds(s, how)
  PROVE  ProcessInv'
<1>. USE DEF ProcessInv
<1>1. /\ prExit = "none" /\ prTask[s] = "run" /\ prTask' = [prTask EXCEPT ![s] = how]
      /\ UNCHANGED <<prBoot, prJoined, prAsked, prRequested, prHeard, prWaiters, prPending,
                     prSup, prDeadline, prSince, prFirst, prHandler, prPool, prSignal, prExit>>
  BY DEF ServiceEnds, Up, prShared, supVars
<1>2. RecordsTyped'
  BY <1>1 DEF RecordsTyped
<1>3. RestTyped'
  BY <1>1, TypeIs DEF RestTyped
<1>4. /\ \A t \in Tasks : prTask[t] # "run" => prTask'[t] = prTask[t]
      /\ \A t \in Tasks : prTask[t] # "run" => prTask'[t] # "run"
      /\ prTask'[Handler] = prTask[Handler] /\ prJoined \subseteq Tasks
  BY <1>1, ServicesAre, TypeIs DEF RestTyped
<1>5. JoinsSound'
  BY <1>1, <1>4 DEF JoinsSound
<1>6. RequestCaused' /\ ClockSound' /\ CleanExitIsClean'
  BY <1>1, <1>4 DEF RequestCaused, ClockSound, CleanExitIsClean, WaitsAt
<1>7. SequenceSound'
  <2>1. \A i \in 1 .. prHandler.step - 1 : StopOrder[i] \in Tasks
    BY ServicesAre, FieldsTyped
  <2>. QED
    BY <1>1, <1>4, <2>1 DEF SequenceSound
<1>8. PoolClosedAlone'
  BY <1>1, <1>4, ServicesAre DEF PoolClosedAlone
<1>. QED
  BY <1>2, <1>3, <1>5, <1>6, <1>7, <1>8, TypeIs

(* A signal comes, or none could be registered: then the handler will end  *)
(* with an error.                                                          *)
LEMMA SignalComesKeeps ==
  ASSUME ProcessInv, NEW ok \in BOOLEAN, SignalComes(ok)
  PROVE  ProcessInv'
<1>. USE DEF ProcessInv
<1>1. /\ prExit = "none" /\ prTask[Handler] = "run" /\ WaitsAt(prHandler.at)
      /\ prRequested' = TRUE /\ prPending' = prPending \cup {Handler}
      /\ prWaiters' = prWaiters \ {Handler} /\ prHeard' = prHeard \ {Handler}
      /\ prHandler' = [prHandler EXCEPT !.at = "stop", !.error = ~ok]
      /\ prSignal' = ok
      /\ UNCHANGED <<prBoot, prTask, prJoined, prAsked, prSup, prDeadline, prSince, prFirst,
                     prPool, prExit>>
  BY DEF SignalComes, SetRequested, Up, supVars
<1>2. /\ RecordsTyped' /\ prHandler'.at = "stop" /\ prHandler'.error = ~ok
      /\ prHandler'.step = prHandler.step /\ prHandler'.all = prHandler.all
  BY <1>1 DEF RecordsTyped, HandlerPlaces
<1>3. RestTyped'
  BY <1>1, TypeIs DEF RestTyped
<1>4. JoinsSound' /\ ClockSound' /\ PoolClosedAlone' /\ CleanExitIsClean'
  BY <1>1 DEF JoinsSound, ClockSound, PoolClosedAlone, CleanExitIsClean
<1>5. RequestCaused'
  BY <1>1, <1>2 DEF RequestCaused, WaitsAt
<1>6. SequenceSound'
  BY <1>1, <1>2 DEF SequenceSound, WaitsAt
<1>. QED
  BY <1>2, <1>3, <1>4, <1>5, <1>6, TypeIs

(* WaiterGoes. A wait is over only when shutdown was requested.            *)
LEMMA WaiterGoes ==
  ASSUME RequestCaused, NEW who, NEW at, WaitsAt(at)
  PROVE  /\ WaiterNext(who, at) \in {"check", "parked", "go"}
         /\ WaiterNext(who, at) = "go" => prRequested
<1>1. CASE at = "register"
  BY <1>1 DEF WaiterNext, AfterRegister
<1>2. CASE at = "check"
  BY <1>2 DEF WaiterNext
<1>3. CASE at = "parked"
  BY <1>3 DEF WaiterNext, RequestCaused
<1>. QED
  BY <1>1, <1>2, <1>3 DEF WaitsAt

(* RegistersKeeps. The waiters stay the two, and who was woken is one.     *)
LEMMA RegistersKeeps ==
  ASSUME RestTyped, NEW who \in {"supervisor", Handler}, NEW at, Registers(who, at)
  PROVE  /\ prHeard' \subseteq prWaiters' /\ prWaiters' \subseteq {"supervisor", Handler}
         /\ prHeard' \subseteq prHeard
<1>1. CASE at = "register"
  BY <1>1 DEF Registers, RestTyped
<1>2. CASE at # "register" /\ WaiterNext(who, at) = "go"
  BY <1>2 DEF Registers, RestTyped
<1>3. CASE at # "register" /\ WaiterNext(who, at) # "go"
  BY <1>3 DEF Registers, RestTyped
<1>. QED
  BY <1>1, <1>2, <1>3

(* HandlerWaitsKeeps. The handler waits for a request.                     *)
LEMMA HandlerWaitsKeeps ==
  ASSUME ProcessInv, HandlerWaits
  PROVE  ProcessInv'
<1>. USE DEF ProcessInv
<1>. DEFINE next == WaiterNext(Handler, prHandler.at)
<1>1. /\ prExit = "none" /\ prTask[Handler] = "run" /\ WaitsAt(prHandler.at)
      /\ Registers(Handler, prHandler.at)
      /\ prHandler' = [prHandler EXCEPT !.at = IF next = "go" THEN "stop" ELSE next]
      /\ IF next = "go" THEN SetRequested(Handler) ELSE UNCHANGED <<prRequested, prPending>>
      /\ UNCHANGED <<prBoot, prTask, prJoined, prAsked, prSup, prDeadline, prSince, prFirst,
                     prPool, prSignal, prExit>>
  BY DEF HandlerWaits, Up, supVars
<1>2. next \in {"check", "parked", "go"} /\ (next = "go" => prRequested)
  BY <1>1, WaiterGoes
<1>. HIDE DEF next
<1>3. /\ prHeard' \subseteq prWaiters' /\ prWaiters' \subseteq {"supervisor", Handler}
      /\ prHeard' \subseteq prHeard
  BY <1>1, RegistersKeeps, TypeIs
<1>4. /\ RecordsTyped' /\ prHandler'.at \in {"check", "parked", "stop"}
      /\ prHandler'.step = prHandler.step /\ prHandler'.all = prHandler.all
      /\ prHandler'.error = prHandler.error
  BY <1>1, <1>2 DEF RecordsTyped, HandlerPlaces
<1>5. /\ prRequested' = prRequested
      /\ prPending' \subseteq {"supervisor", Handler}
      /\ prPending' # {} => prPending # {} \/ prRequested
  <2>1. prRequested \in BOOLEAN /\ prPending \subseteq {"supervisor", Handler}
    BY TypeIs DEF RestTyped
  <2>2. CASE next = "go"
    BY <1>1, <1>2, <2>1, <2>2, Zenon DEF SetRequested
  <2>3. CASE next # "go"
    BY <1>1, <2>1, <2>3
  <2>. QED
    BY <2>2, <2>3
<1>6. RestTyped'
  BY <1>1, <1>3, <1>5, TypeIs DEF RestTyped
<1>7. JoinsSound' /\ ClockSound' /\ PoolClosedAlone' /\ CleanExitIsClean'
  BY <1>1, <1>5 DEF JoinsSound, ClockSound, PoolClosedAlone, CleanExitIsClean
<1>8. RequestCaused'
  BY <1>1, <1>3, <1>4, <1>5 DEF RequestCaused, WaitsAt
<1>9. SequenceSound'
  BY <1>1, <1>4 DEF SequenceSound, WaitsAt
<1>. QED
  BY <1>4, <1>6, <1>7, <1>8, <1>9, TypeIs

(* AskShutdownKeeps. A request for shutdown has its cause on record.       *)
LEMMA AskShutdownKeeps ==
  ASSUME ProcessInv, AskShutdown
  PROVE  ProcessInv'
<1>. USE DEF ProcessInv
<1>1. /\ prExit = "none" /\ prHandler.at = "stop" /\ prAsked' = prAsked \cup {Stopping}
      /\ UNCHANGED <<prBoot, prTask, prJoined, prRequested, prHeard, prWaiters, prPending,
                     prSup, prDeadline, prSince, prFirst, prHandler, prPool, prSignal, prExit>>
  BY DEF AskShutdown, Up, prShared, supVars
<1>2. Stopping \in Services
  BY <1>1, ServicesAre, FieldsTyped DEF Stopping, SequenceSound
<1>3. RecordsTyped'
  BY <1>1 DEF RecordsTyped
<1>4. RestTyped'
  BY <1>1, <1>2, TypeIs DEF RestTyped
<1>5. JoinsSound' /\ RequestCaused' /\ SequenceSound' /\ ClockSound' /\ PoolClosedAlone'
      /\ CleanExitIsClean'
  BY <1>1 DEF JoinsSound, RequestCaused, SequenceSound, ClockSound, PoolClosedAlone,
              CleanExitIsClean, WaitsAt
<1>. QED
  BY <1>3, <1>4, <1>5, TypeIs

(* A step of the sequence: what it passes has ended, or not all stopped.   *)
LEMMA StopStepKeeps ==
  ASSUME ProcessInv, NEW stopped \in BOOLEAN, StopStep(stopped)
  PROVE  ProcessInv'
<1>. USE DEF ProcessInv
<1>. DEFINE k == prHandler.step
            n == Len(StopOrder)
<1>1. /\ prExit = "none" /\ prHandler.at = "stop"
      /\ stopped => prTask[StopOrder[k]] # "run"
      /\ prHandler' = [prHandler EXCEPT !.at = AfterStop(k), !.step = k + 1,
                                        !.age = 0, !.all = AllStopped(prHandler.all, stopped)]
      /\ UNCHANGED <<prBoot, prTask, prJoined, prAsked, prRequested, prHeard, prWaiters,
                     prPending, prSup, prDeadline, prSince, prFirst, prPool, prSignal, prExit>>
  BY DEF StopStep, Up, prShared, supVars, Stopping
<1>2. n \in Nat \ {0} /\ k \in 1 .. n /\ k \in Nat
  BY <1>1, ServicesAre, FieldsTyped DEF SequenceSound
<1>3. AllStopped(prHandler.all, stopped) \in BOOLEAN
  BY FieldsTyped, Zenon DEF AllStopped
<1>4. AfterStop(k) \in {"flush", "stop"} /\ (AfterStop(k) = "flush" <=> k = n)
  BY DEF AfterStop
<1>5. /\ RecordsTyped'
      /\ prHandler'.at = AfterStop(k) /\ prHandler'.step = k + 1
      /\ prHandler'.all = AllStopped(prHandler.all, stopped)
      /\ prHandler'.error = prHandler.error
  <2>1. k + 1 \in 1 .. Len(StopOrder) + 1
    BY <1>2
  <2>2. AfterStop(k) \in HandlerPlaces
    BY <1>4 DEF HandlerPlaces
  <2>. QED
    BY <1>1, <1>3, <2>1, <2>2, HandlerIs
<1>6. RecordsTyped'
  BY <1>5
<1>7. RestTyped'
  BY <1>1, TypeIs DEF RestTyped
<1>8. JoinsSound' /\ ClockSound' /\ PoolClosedAlone' /\ CleanExitIsClean'
  BY <1>1 DEF JoinsSound, ClockSound, PoolClosedAlone, CleanExitIsClean
<1>9. RequestCaused'
  BY <1>1, <1>4, <1>5 DEF RequestCaused, WaitsAt
<1>10. SequenceSound'
  <2>1. prHandler'.at = "flush" <=> prHandler'.step = n + 1
    BY <1>2, <1>4, <1>5
  <2>2. prHandler'.at \in {"flush", "stop"} /\ prHandler'.step <= n + 1
    BY <1>2, <1>4, <1>5
  <2>3. ASSUME prHandler'.all, NEW i \in 1 .. k
        PROVE  prTask[StopOrder[i]] # "run"
    <3>1. prHandler.all /\ stopped
      BY <1>5, <2>3, Zenon DEF AllStopped
    <3>2. CASE i = k
      BY <1>1, <3>1, <3>2
    <3>3. CASE i # k
      BY <1>2, <3>1, <3>3 DEF SequenceSound
    <3>. QED
      BY <3>2, <3>3
  <2>4. prHandler'.step - 1 = k
    BY <1>2, <1>5
  <2>. QED
    BY <1>1, <1>2, <1>5, <2>1, <2>2, <2>3, <2>4 DEF SequenceSound
<1>. QED
  BY <1>6, <1>7, <1>8, <1>9, <1>10, TypeIs

(* The flush, and the pool if everything stopped: then no service runs.    *)
LEMMA FlushStepKeeps ==
  ASSUME ProcessInv, NEW stopped \in BOOLEAN, FlushStep(stopped)
  PROVE  ProcessInv'
<1>. USE DEF ProcessInv
<1>. DEFINE all == AllStopped(prHandler.all, stopped)
<1>1. /\ prExit = "none" /\ prHandler.at = "flush"
      /\ prHandler' = [prHandler EXCEPT !.at = IF all THEN "close" ELSE "end", !.age = 0,
                                        !.all = all]
      /\ prPool' = IF all THEN "closing" ELSE prPool
      /\ UNCHANGED <<prBoot, prTask, prJoined, prAsked, prRequested, prHeard, prWaiters,
                     prPending, prSup, prDeadline, prSince, prFirst, prSignal, prExit>>
  BY DEF FlushStep, Up, prShared, supVars
<1>2. all \in BOOLEAN /\ (all => prHandler.all)
  BY FieldsTyped, Zenon DEF AllStopped
<1>. HIDE DEF all
<1>3. /\ RecordsTyped' /\ prHandler'.at = IF all THEN "close" ELSE "end"
      /\ prHandler'.step = prHandler.step /\ prHandler'.all = all
      /\ prHandler'.error = prHandler.error
  <2>1. prHandler' = [prHandler EXCEPT !.at = IF all THEN "close" ELSE "end",
                                       !.step = prHandler.step, !.age = 0, !.all = all]
    BY <1>1 DEF RecordsTyped
  <2>2. PICK place \in HandlerPlaces : place = IF all THEN "close" ELSE "end"
    BY DEF HandlerPlaces
  <2>3. prHandler.step \in 1 .. Len(StopOrder) + 1 /\ UNCHANGED prBoot
    BY <1>1, FieldsTyped
  <2>4. prHandler' = [prHandler EXCEPT !.at = place, !.step = prHandler.step, !.age = 0,
                                       !.all = all]
    BY <2>1, <2>2
  <2>5. /\ RecordsTyped' /\ prHandler'.at = place
        /\ prHandler'.step = prHandler.step /\ prHandler'.all = all
        /\ prHandler'.error = prHandler.error
    BY <1>2, <2>3, <2>4, HandlerIs
  <2>. QED
    BY <2>2, <2>5
<1>4. RestTyped'
  BY <1>1, TypeIs DEF RestTyped
<1>5. JoinsSound' /\ ClockSound' /\ CleanExitIsClean'
  BY <1>1 DEF JoinsSound, ClockSound, CleanExitIsClean
<1>6. RequestCaused'
  BY <1>1, <1>3 DEF RequestCaused, WaitsAt
<1>7. SequenceSound'
  BY <1>1, <1>2, <1>3 DEF SequenceSound
<1>8. PoolClosedAlone'
  <2>1. CASE all
    <3>1. prHandler.step - 1 = Len(StopOrder)
      BY <1>1, ServicesAre, FieldsTyped DEF SequenceSound
    <3>2. \A s \in Services : prTask[s] # "run"
      BY <1>2, <2>1, <3>1, ServicesAre DEF SequenceSound
    <3>. QED
      BY <1>1, <3>2 DEF PoolClosedAlone
  <2>2. CASE ~all
    BY <1>1, <2>2 DEF PoolClosedAlone
  <2>. QED
    BY <2>1, <2>2
<1>. QED
  BY <1>3, <1>4, <1>5, <1>6, <1>7, <1>8, TypeIs

(* CloseStepKeeps. The pool is closed when no service is left.             *)
LEMMA CloseStepKeeps ==
  ASSUME ProcessInv, NEW closed \in BOOLEAN, CloseStep(closed)
  PROVE  ProcessInv'
<1>. USE DEF ProcessInv
<1>1. /\ prExit = "none" /\ prHandler.at = "close"
      /\ prHandler' = [prHandler EXCEPT !.at = "end", !.age = 0]
      /\ prPool' = IF closed THEN "closed" ELSE prPool
      /\ UNCHANGED <<prBoot, prTask, prJoined, prAsked, prRequested, prHeard, prWaiters,
                     prPending, prSup, prDeadline, prSince, prFirst, prSignal, prExit>>
  BY DEF CloseStep, Up, prShared, supVars
<1>2. /\ RecordsTyped' /\ prHandler'.at = "end"
      /\ prHandler'.step = prHandler.step /\ prHandler'.all = prHandler.all
      /\ prHandler'.error = prHandler.error
  <2>1. prHandler' = [prHandler EXCEPT !.at = "end", !.step = prHandler.step, !.age = 0,
                                       !.all = prHandler.all]
    BY <1>1 DEF RecordsTyped
  <2>2. "end" \in HandlerPlaces
    BY DEF HandlerPlaces
  <2>. QED
    BY <1>1, <2>1, <2>2, HandlerIs, FieldsTyped
<1>3. RestTyped'
  BY <1>1, TypeIs DEF RestTyped
<1>4. JoinsSound' /\ ClockSound' /\ CleanExitIsClean'
  BY <1>1 DEF JoinsSound, ClockSound, CleanExitIsClean
<1>5. RequestCaused'
  BY <1>1, <1>2 DEF RequestCaused, WaitsAt
<1>6. SequenceSound'
  BY <1>1, <1>2 DEF SequenceSound
<1>7. PoolClosedAlone'
  <2>1. prHandler.step - 1 = Len(StopOrder)
    BY <1>1, ServicesAre, FieldsTyped DEF SequenceSound
  <2>2. \A s \in Services : prTask[s] # "run"
    BY <1>1, <2>1, ServicesAre DEF SequenceSound
  <2>. QED
    BY <1>1, <2>2 DEF PoolClosedAlone
<1>. QED
  BY <1>2, <1>3, <1>4, <1>5, <1>6, <1>7, TypeIs

(* The handler's task ends: its outcome says whether a signal was waited   *)
(* for.                                                                    *)
LEMMA HandlerEndsKeeps ==
  ASSUME ProcessInv, HandlerEnds
  PROVE  ProcessInv'
<1>. USE DEF ProcessInv
<1>1. /\ prExit = "none" /\ prTask[Handler] = "run" /\ prHandler.at = "end"
      /\ prTask' = [prTask EXCEPT ![Handler] = IF prHandler.error THEN "err" ELSE "ok"]
      /\ UNCHANGED <<prBoot, prJoined, prAsked, prRequested, prHeard, prWaiters, prPending,
                     prSup, prDeadline, prSince, prFirst, prHandler, prPool, prSignal, prExit>>
  BY DEF HandlerEnds, Up, prShared, supVars
<1>2. RecordsTyped'
  BY <1>1 DEF RecordsTyped
<1>3. RestTyped'
  BY <1>1, TypeIs DEF RestTyped
<1>4. /\ \A t \in Tasks : t # Handler => prTask'[t] = prTask[t]
      /\ prTask'[Handler] = IF prHandler.error THEN "err" ELSE "ok"
      /\ prJoined \subseteq Tasks
  BY <1>1, ServicesAre, TypeIs DEF RestTyped
<1>5. JoinsSound'
  BY <1>1, <1>4 DEF JoinsSound
<1>6. RequestCaused' /\ ClockSound' /\ CleanExitIsClean'
  BY <1>1, <1>4 DEF RequestCaused, ClockSound, CleanExitIsClean, WaitsAt
<1>7. SequenceSound'
  <2>1. \A i \in 1 .. prHandler.step - 1 : StopOrder[i] \in Tasks /\ StopOrder[i] # Handler
    BY ServicesAre, FieldsTyped
  <2>. QED
    BY <1>1, <1>4, <2>1 DEF SequenceSound
<1>8. PoolClosedAlone'
  BY <1>1, <1>4, ServicesAre DEF PoolClosedAlone
<1>. QED
  BY <1>2, <1>3, <1>5, <1>6, <1>7, <1>8, TypeIs

(* HandlerDiesKeeps. A handler that dies is no clean exit.                 *)
LEMMA HandlerDiesKeeps ==
  ASSUME ProcessInv, HandlerDies
  PROVE  ProcessInv'
<1>. USE DEF ProcessInv
<1>1. /\ prExit = "none" /\ prTask[Handler] = "run"
      /\ prTask' = [prTask EXCEPT ![Handler] = "err"]
      /\ prWaiters' = prWaiters \ {Handler} /\ prHeard' = prHeard \ {Handler}
      /\ prPending' = prPending \ {Handler}
      /\ UNCHANGED <<prBoot, prJoined, prAsked, prRequested, prSup, prDeadline, prSince,
                     prFirst, prHandler, prPool, prSignal, prExit>>
  BY DEF HandlerDies, Up, supVars
<1>2. RecordsTyped'
  BY <1>1 DEF RecordsTyped
<1>3. RestTyped'
  BY <1>1, TypeIs DEF RestTyped
<1>4. /\ \A t \in Tasks : t # Handler => prTask'[t] = prTask[t]
      /\ prTask'[Handler] = "err"
      /\ prJoined \subseteq Tasks
  BY <1>1, ServicesAre, TypeIs DEF RestTyped
<1>5. JoinsSound'
  BY <1>1, <1>4 DEF JoinsSound
<1>6. RequestCaused' /\ ClockSound' /\ CleanExitIsClean'
  BY <1>1, <1>4 DEF RequestCaused, ClockSound, CleanExitIsClean, WaitsAt
<1>7. SequenceSound'
  <2>1. \A i \in 1 .. prHandler.step - 1 : StopOrder[i] \in Tasks /\ StopOrder[i] # Handler
    BY ServicesAre, FieldsTyped
  <2>. QED
    BY <1>1, <1>4, <2>1 DEF SequenceSound
<1>8. PoolClosedAlone'
  BY <1>1, <1>4, ServicesAre DEF PoolClosedAlone
<1>. QED
  BY <1>2, <1>3, <1>5, <1>6, <1>7, <1>8, TypeIs

(* The deadline is set once, at the start of the teardown's clock.         *)
LEMMA SupTopKeeps ==
  ASSUME ProcessInv, SupTop
  PROVE  ProcessInv'
<1>. USE DEF ProcessInv
<1>1. /\ prSup' = "bounded" \/ prSup' = "register"
      /\ prDeadline' = Deadline \/ prDeadline' = prDeadline
      /\ UNCHANGED <<prBoot, prTask, prJoined, prAsked, prRequested, prHeard, prWaiters,
                     prPending, prSince, prFirst, prHandler, prPool, prSignal, prExit>>
  BY DEF SupTop, prShared
<1>2. prDeadline \in -1 .. TeardownGrace /\ TeardownGrace \in Nat \ {0}
  BY ProcessAssumption, TypeIs, Zenon DEF RestTyped
<1>3. prDeadline' \in -1 .. TeardownGrace /\ ClockSound'
  <2>1. Deadline = (IF prDeadline = -1 THEN 0 ELSE prDeadline) /\ prSince' = prSince
    BY <1>1 DEF Deadline
  <2>2. prSince = IF prDeadline = -1 THEN 0 ELSE prDeadline
    BY DEF ClockSound
  <2>3. CASE prDeadline' = prDeadline
    BY <1>2, <2>1, <2>2, <2>3 DEF ClockSound
  <2>4. CASE prDeadline' = Deadline
    <3>1. prDeadline' # -1 /\ prDeadline' = prSince /\ prDeadline' \in -1 .. TeardownGrace
      BY <1>2, <2>1, <2>2, <2>4
    <3>. QED
      BY <2>1, <3>1 DEF ClockSound
  <2>. QED
    BY <1>1, <2>3, <2>4
<1>4. RecordsTyped'
  BY <1>1 DEF RecordsTyped
<1>5. RestTyped'
  BY <1>1, <1>3, TypeIs DEF RestTyped
<1>6. JoinsSound' /\ RequestCaused' /\ SequenceSound' /\ PoolClosedAlone' /\ CleanExitIsClean'
  BY <1>1 DEF JoinsSound, RequestCaused, SequenceSound, PoolClosedAlone, CleanExitIsClean,
              WaitsAt
<1>. QED
  BY <1>3, <1>4, <1>5, <1>6, TypeIs

(* SupWaitsKeeps. The supervisor waits for a task or a request.            *)
LEMMA SupWaitsKeeps ==
  ASSUME ProcessInv, SupWaits
  PROVE  ProcessInv'
<1>. USE DEF ProcessInv
<1>. DEFINE next == WaiterNext("supervisor", prSup)
<1>1. /\ WaitsAt(prSup) /\ Registers("supervisor", prSup)
      /\ prSup' = IF next = "go" THEN "top" ELSE next
      /\ UNCHANGED <<prBoot, prTask, prJoined, prAsked, prRequested, prPending, prDeadline,
                     prSince, prFirst, prHandler, prPool, prSignal, prExit>>
  BY DEF SupWaits
<1>2. next \in {"check", "parked", "go"}
  BY <1>1, WaiterGoes
<1>. HIDE DEF next
<1>3. /\ prHeard' \subseteq prWaiters' /\ prWaiters' \subseteq {"supervisor", Handler}
      /\ prHeard' \subseteq prHeard
  BY <1>1, RegistersKeeps, TypeIs
<1>4. RecordsTyped'
  BY <1>1 DEF RecordsTyped
<1>5. RestTyped'
  BY <1>1, <1>2, <1>3, TypeIs DEF RestTyped
<1>6. JoinsSound' /\ SequenceSound' /\ ClockSound' /\ PoolClosedAlone' /\ CleanExitIsClean'
  BY <1>1 DEF JoinsSound, SequenceSound, ClockSound, PoolClosedAlone, CleanExitIsClean
<1>7. RequestCaused'
  BY <1>1, <1>3 DEF RequestCaused, WaitsAt
<1>. QED
  BY <1>4, <1>5, <1>6, <1>7, TypeIs

(* A task is joined: one that ended before the request, or with an error,  *)
(* is remembered as a failure.                                             *)
LEMMA SupJoinsKeeps ==
  ASSUME ProcessInv, NEW t \in Tasks, SupJoins(t)
  PROVE  ProcessInv'
<1>. USE DEF ProcessInv
<1>1. /\ prExit = "none" /\ prTask[t] # "run" /\ prJoined' = prJoined \cup {t}
      /\ prFirst' = (prFirst \/ FailureSeen(t)) /\ prSup' = "top"
      /\ prWaiters' = prWaiters \ {"supervisor"} /\ prHeard' = prHeard \ {"supervisor"}
      /\ IF prRequested THEN UNCHANGED <<prRequested, prPending>> ELSE SetRequested("supervisor")
      /\ UNCHANGED <<prBoot, prTask, prAsked, prDeadline, prSince, prHandler, prPool, prSignal,
                     prExit>>
  BY DEF SupJoins, Supervising, Up
<1>2. /\ prTask[t] \in {"ok", "err"} /\ prRequested \in BOOLEAN /\ prFirst \in BOOLEAN
      /\ prPending \subseteq {"supervisor", Handler}
  BY <1>1, TypeIs DEF RestTyped
<1>3. /\ prRequested' = TRUE
      /\ prPending' \subseteq {"supervisor", Handler}
  BY <1>1, <1>2, Zenon DEF SetRequested
<1>4. /\ prFirst' \in BOOLEAN
      /\ ~prFirst' => ~prFirst /\ prTask[t] = "ok" /\ prRequested
  BY <1>1, <1>2, Zenon DEF FailureSeen
<1>5. RecordsTyped'
  BY <1>1 DEF RecordsTyped
<1>6. RestTyped'
  BY <1>1, <1>3, <1>4, TypeIs DEF RestTyped
<1>7. JoinsSound'
  BY <1>1, <1>3, <1>4 DEF JoinsSound
<1>8. RequestCaused'
  BY <1>1, <1>3, <1>4 DEF RequestCaused, WaitsAt
<1>9. SequenceSound' /\ ClockSound' /\ PoolClosedAlone' /\ CleanExitIsClean'
  BY <1>1 DEF SequenceSound, ClockSound, PoolClosedAlone, CleanExitIsClean
<1>. QED
  BY <1>5, <1>6, <1>7, <1>8, <1>9, TypeIs

(* The process ends: well only when every task was joined, each had ended  *)
(* well, and the request that came first was a signal.                     *)
LEMMA SupEndsKeeps ==
  ASSUME ProcessInv, SupEnds \/ SupGivesUp
  PROVE  ProcessInv'
<1>. USE DEF ProcessInv
<1>1. UNCHANGED <<prBoot, prTask, prJoined, prAsked, prRequested, prHeard, prWaiters,
                  prPending, prSup, prDeadline, prSince, prFirst, prHandler, prPool, prSignal>>
  BY DEF SupEnds, SupGivesUp, prShared, supVars
<1>2. prExit' \in {"ok", "failed"}
  BY DEF SupEnds, SupGivesUp
<1>3. prExit' = "ok" => ~prFirst /\ prJoined = Tasks
  BY DEF SupEnds, SupGivesUp
<1>4. CleanExitIsClean'
  <2>. SUFFICES ASSUME ~prFirst, prJoined = Tasks
                PROVE  prSignal /\ \A t \in Tasks : prTask[t] = "ok"
    BY <1>1, <1>3 DEF CleanExitIsClean
  <2>1. (\A t \in Tasks : prTask[t] = "ok") /\ prRequested
    BY ServicesAre DEF JoinsSound
  <2>2. ~prHandler.error
    BY <2>1, ServicesAre DEF RequestCaused
  <2>. QED
    BY <2>1, <2>2 DEF RequestCaused
<1>5. RecordsTyped'
  BY <1>1 DEF RecordsTyped
<1>6. RestTyped'
  BY <1>1, <1>2, TypeIs DEF RestTyped
<1>7. JoinsSound' /\ RequestCaused' /\ SequenceSound' /\ ClockSound' /\ PoolClosedAlone'
  BY <1>1 DEF JoinsSound, RequestCaused, SequenceSound, ClockSound, PoolClosedAlone, WaitsAt
<1>. QED
  BY <1>4, <1>5, <1>6, <1>7, TypeIs

(* Time passes, no further than the grace.                                 *)
LEMMA ProcessTickKeeps ==
  ASSUME ProcessInv, ProcessTick
  PROVE  ProcessInv'
<1>. USE DEF ProcessInv
<1>1. /\ prDeadline \in 0 .. TeardownGrace - 1
      /\ prDeadline' = prDeadline + 1 /\ prSince' = prSince + 1
      /\ prHandler' = [prHandler EXCEPT !.age =
                         IF prHandler.at \in {"stop", "flush", "close"} THEN 1 ELSE 0]
      /\ UNCHANGED <<prBoot, prTask, prJoined, prAsked, prRequested, prHeard, prWaiters,
                     prPending, prSup, prFirst, prPool, prSignal, prExit>>
  BY DEF ProcessTick, prShared
<1>2. TeardownGrace \in Nat \ {0} /\ prSince \in Nat
  BY ProcessAssumption, TypeIs, Zenon DEF RestTyped
<1>3. prDeadline' \in -1 .. TeardownGrace /\ prSince' \in Nat /\ ClockSound'
  BY <1>1, <1>2 DEF ClockSound
<1>4. /\ RecordsTyped' /\ prHandler'.at = prHandler.at
      /\ prHandler'.step = prHandler.step /\ prHandler'.all = prHandler.all
      /\ prHandler'.error = prHandler.error
  <2>1. (IF prHandler.at \in {"stop", "flush", "close"} THEN 1 ELSE 0) \in 0 .. 1
    OBVIOUS
  <2>. QED
    BY <1>1, <2>1 DEF RecordsTyped
<1>5. RestTyped'
  BY <1>1, <1>3, TypeIs DEF RestTyped
<1>6. JoinsSound' /\ PoolClosedAlone' /\ CleanExitIsClean'
  BY <1>1 DEF JoinsSound, PoolClosedAlone, CleanExitIsClean
<1>7. RequestCaused' /\ SequenceSound'
  BY <1>1, <1>4 DEF RequestCaused, SequenceSound, WaitsAt
<1>. QED
  BY <1>3, <1>4, <1>5, <1>6, <1>7, TypeIs

-----------------------------------------------------------------------------
(* The theorems.                                                           *)

(* ProcessStutters. A step that changes nothing.                           *)
LEMMA ProcessStutters ==
  ASSUME ProcessInv, UNCHANGED prVars
  PROVE  ProcessInv'
BY DEF ProcessInv, prVars, prShared, supVars, ProcessTypeOK, RecordsTyped, JoinsSound,
       RequestCaused, SequenceSound, ClockSound, CleanExitIsClean, PoolClosedAlone, WaitsAt

(* ProcessStepKeeps. No step of the process disturbs the invariant.        *)
LEMMA ProcessStepKeeps ==
  ASSUME ProcessInv, [ProcessNext]_prVars
  PROVE  ProcessInv'
<1>1. ASSUME HandlerStep
      PROVE  ProcessInv'
  BY <1>1, HandlerWaitsKeeps, AskShutdownKeeps, HandlerEndsKeeps, StopStepKeeps,
     FlushStepKeeps, CloseStepKeeps DEF HandlerStep
<1>2. ASSUME SupStep
      PROVE  ProcessInv'
  BY <1>2, SupTopKeeps, SupWaitsKeeps, SupJoinsKeeps, SupEndsKeeps DEF SupStep
<1>. QED
  BY <1>1, <1>2, BootKeeps, SignalComesKeeps, NotifyAllKeeps, ServiceEndsKeeps,
     HandlerDiesKeeps, ProcessTickKeeps, ProcessStutters DEF ProcessNext

(* ProcessInvariant. ProcessInv is an invariant of the process, whatever   *)
(* the services, their order and the grace (supervise, the stop sequence). *)
THEOREM ProcessInvariant == ProcessSpec => []ProcessInv
<1>1. ProcessInv /\ [ProcessNext]_prVars => ProcessInv'
  BY ProcessStepKeeps
<1>. QED
  BY <1>1, InitProcessInv, PTL DEF ProcessSpec

(* ProcessExits. The process ends well only when a signal asked for it and *)
(* every task ended well, closes the DB pool when no service is left, and  *)
(* keeps the teardown to its grace (supervise, the stop sequence).         *)
THEOREM ProcessExits ==
  ProcessSpec => [](ProcessTypeOK /\ CleanExitIsClean /\ PoolClosedAlone /\ TeardownWithinGrace)
<1>1. ProcessInv => ProcessTypeOK /\ CleanExitIsClean /\ PoolClosedAlone
  BY DEF ProcessInv
<1>2. ProcessInv => TeardownWithinGrace
  <2>. SUFFICES ASSUME ProcessInv PROVE prSince <= TeardownGrace
    BY DEF TeardownWithinGrace
  <2>1. prDeadline \in -1 .. TeardownGrace /\ TeardownGrace \in Nat \ {0}
    BY ProcessAssumption, TypeIs, Zenon DEF RestTyped, ProcessInv
  <2>. QED
    BY <2>1 DEF ProcessInv, ClockSound
<1>. QED
  BY <1>1, <1>2, ProcessInvariant, PTL

-----------------------------------------------------------------------------
(* The caches of network data.                                             *)

(* A refresh under way has read every entity it passed that was readable   *)
(* ever since it began.                                                    *)
RefreshSound ==
  ncAt = "fetching" =>
    /\ ncHeld \subseteq Readable(ncEntity)
    /\ \A i \in ncHeld : i <= ncLastId => i \in ncGot

CachesInv == CachesTypeOK /\ RefreshSound /\ RegisteredIsShown

Present(last) == {i \in EntityIds : i > last /\ ncEntity[i] # "absent"}

(* CacheNumbers. The numbers of the caches are numbers.                    *)
LEMMA CacheNumbers ==
  /\ LastId \in Nat \ {0} /\ PageSize \in Nat \ {0}
  /\ SubgraphChanges \in Nat /\ PageFaults \in Nat
  BY CacheAssumption

(* ServedIs. A page has what is before any of its entities, and one that   *)
(* is not full has all there is past the cursor.                           *)
LEMMA ServedIs ==
  ASSUME NEW last \in 0 .. LastId
  PROVE  /\ Served(last) \subseteq Present(last) /\ IsFiniteSet(Served(last))
         /\ \A l \in Served(last), i \in Present(last) : i <= l => i \in Served(last)
         /\ Cardinality(Served(last)) < PageSize => Served(last) = Present(last)
<1>. DEFINE Above == Present(last)
            Before(i) == {j \in Above : j < i}
<1>1. Above \subseteq EntityIds /\ EntityIds \subseteq Nat /\ IsFiniteSet(EntityIds)
  BY CacheNumbers, FS_Interval DEF EntityIds, Present
<1>2. /\ IsFiniteSet(Above)
      /\ \A i \in EntityIds : IsFiniteSet(Before(i)) /\ Cardinality(Before(i)) \in Nat
  BY <1>1, FS_Subset, FS_CardinalityType
<1>3. Served(last) = {i \in Above : Cardinality(Before(i)) < PageSize}
  BY DEF Served, Present
<1>4. Served(last) \subseteq Above /\ IsFiniteSet(Served(last))
  BY <1>2, <1>3, FS_Subset
<1>5. ASSUME NEW l \in Served(last), NEW i \in Above, i <= l PROVE i \in Served(last)
  <2>1. Before(i) \subseteq Before(l) /\ l \in Above /\ i \in EntityIds /\ l \in EntityIds
    <3>1. l \in Above /\ i \in Nat /\ l \in Nat /\ Above \subseteq Nat
      BY <1>1, <1>4, <1>5
    <3>2. Before(i) \subseteq Before(l)
      <4>1. \A j \in Nat : j < i => j < l
        BY <1>5, <3>1
      <4>. HIDE DEF Above
      <4>. QED BY <3>1, <4>1
    <3>. QED BY <1>1, <3>1, <3>2
  <2>2. Cardinality(Before(i)) <= Cardinality(Before(l))
    <3>. HIDE DEF Before
    <3>. QED BY <1>2, <2>1, FS_Subset
  <2>3. Cardinality(Before(l)) < PageSize
    BY <1>3
  <2>. HIDE DEF Before, Above
  <2>. QED BY <1>2, <1>3, <2>1, <2>2, <2>3, CacheNumbers
<1>6. ASSUME Cardinality(Served(last)) < PageSize, Above \ Served(last) # {} PROVE FALSE
  <2>1. PICK m \in Above \ Served(last) : \A x \in Above \ Served(last) : m <= x
    <3>1. Above \ Served(last) \in SUBSET Nat
      BY <1>1
    <3>. HIDE DEF Above
    <3>. QED BY <1>6, <3>1, SmallestIn
  <2>2. m \in EntityIds /\ m \in Above
    BY <1>1, <2>1
  <2>3. Before(m) \subseteq Served(last)
    <3>1. Above \subseteq Nat
      BY <1>1
    <3>2. ASSUME NEW j \in Before(m), j \notin Served(last) PROVE FALSE
      <4>1. j \in Above \ Served(last) /\ j < m /\ j \in Nat /\ m \in Nat
        BY <2>1, <3>1, <3>2
      <4>. HIDE DEF Above
      <4>. QED BY <2>1, <4>1
    <3>. HIDE DEF Before
    <3>. QED BY <3>2
  <2>4. Cardinality(Before(m)) <= Cardinality(Served(last))
    <3>. HIDE DEF Before
    <3>. QED BY <1>4, <2>3, FS_Subset
  <2>5. Cardinality(Served(last)) \in Nat
    BY <1>4, FS_CardinalityType
  <2>. HIDE DEF Before, Above
  <2>6. Cardinality(Before(m)) < PageSize
    BY <1>2, <1>6, <2>2, <2>4, <2>5, CacheNumbers
  <2>. QED BY <1>3, <2>1, <2>2, <2>6
<1>. QED BY <1>4, <1>5, <1>6

(* LastIs. The cursor over a page is its last entity.                      *)
LEMMA LastIs ==
  ASSUME NEW page \in SUBSET EntityIds, page # {}, NEW d
  PROVE  LastEntity(page, d) \in page /\ \A j \in page : j <= LastEntity(page, d)
<1>1. page \in SUBSET (0 .. LastId)
  BY CacheNumbers DEF EntityIds
<1>2. PICK m \in page : \A x \in page : x <= m
  BY <1>1, CacheNumbers, LargestIn
<1>. QED BY <1>2 DEF LastEntity

(* InitCachesInv. The invariant holds at the start.                        *)
LEMMA InitCachesInv == CachesInit => CachesInv
<1>. SUFFICES ASSUME CachesInit PROVE CachesInv
  OBVIOUS
<1>1. Readable(ncEntity) \subseteq EntityIds
  BY DEF Readable
<1>2. CachesTypeOK
  BY <1>1, CacheNumbers DEF CachesInit, CachesTypeOK
<1>3. RefreshSound
  BY CacheNumbers DEF CachesInit, RefreshSound, Readable, EntityIds
<1>. QED BY <1>2, <1>3 DEF CachesInv, CachesInit, RegisteredIsShown

(* PublishKeeps. A refresh that ends keeps the invariant, if what it       *)
(* publishes as whole has all that was readable throughout.                *)
LEMMA PublishKeeps ==
  ASSUME CachesInv, NEW got \in SUBSET EntityIds, NEW whole \in BOOLEAN,
         Publish(got, whole),
         got # {} /\ (ncCache = "urls" \/ whole) => ncHeld \subseteq got,
         UNCHANGED <<ncCache, ncEntity, ncStop, ncHeld, ncChanges>>,
         ncFaults' \in 0 .. PageFaults
  PROVE  CachesInv'
<1>1. CachesTypeOK'
  BY CacheNumbers DEF CachesInv, CachesTypeOK, Publish
<1>2. RefreshSound'
  BY DEF RefreshSound, Publish
<1>3. RegisteredIsShown'
  BY DEF CachesInv, CachesTypeOK, RegisteredIsShown, Publish
<1>. QED BY <1>1, <1>2, <1>3 DEF CachesInv

(* FetchPageKeeps. A page that answers keeps the invariant.                *)
LEMMA FetchPageKeeps == CachesInv /\ FetchPage => CachesInv'
<1>. SUFFICES ASSUME CachesInv, FetchPage PROVE CachesInv'
  OBVIOUS
<1>. DEFINE page == Served(ncLastId)
            got == ncGot \cup (page \cap Readable(ncEntity))
<1>1. /\ ncAt = "fetching" /\ ncLastId \in 0 .. LastId /\ ncGot \in SUBSET EntityIds
      /\ ncHeld \in SUBSET EntityIds /\ ncFaults \in 0 .. PageFaults
      /\ ncHeld \subseteq Readable(ncEntity) /\ \A i \in ncHeld : i <= ncLastId => i \in ncGot
  BY DEF FetchPage, CachesInv, CachesTypeOK, RefreshSound
<1>2. /\ page \subseteq EntityIds /\ got \in SUBSET EntityIds
      /\ page \subseteq Present(ncLastId) /\ IsFiniteSet(page)
      /\ \A l \in page, i \in Present(ncLastId) : i <= l => i \in page
      /\ Cardinality(page) < PageSize => page = Present(ncLastId)
  BY <1>1, ServedIs DEF Present
<1>3. \A i \in ncHeld : i > ncLastId => i \in Present(ncLastId)
  BY <1>1 DEF Present, Readable
<1>4. \A i \in ncHeld : i \in Nat /\ (i <= ncLastId \/ i > ncLastId)
  BY <1>1, CacheNumbers DEF EntityIds
<1>5. CASE Cardinality(page) < PageSize
  <2>1. ncHeld \subseteq got
    BY <1>1, <1>2, <1>3, <1>4, <1>5
  <2>2. Publish(got, TRUE) /\ UNCHANGED <<ncCache, ncEntity, ncStop, ncHeld, ncChanges, ncFaults>>
    BY <1>5 DEF FetchPage
  <2>. HIDE DEF got, page
  <2>. QED BY <1>1, <1>2, <2>1, <2>2, PublishKeeps
<1>6. CASE ~(Cardinality(page) < PageSize)
  <2>1. page # {}
    BY <1>6, FS_EmptySet, CacheNumbers
  <2>2. /\ ncLastId' = CursorOver(page) /\ ncGot' = got
        /\ UNCHANGED <<ncAt, ncShown, ncSettled, ncWhole>>
        /\ UNCHANGED <<ncCache, ncEntity, ncStop, ncHeld, ncChanges, ncFaults>>
    BY <1>6 DEF FetchPage
  <2>3. ncLastId' \in page /\ \A j \in page : j <= ncLastId'
    <3>. HIDE DEF page, got
    <3>. QED BY <1>2, <2>1, <2>2, LastIs DEF CursorOver
  <2>4. ncLastId' \in 0 .. LastId
    BY <1>2, <2>3, CacheNumbers DEF EntityIds
  <2>5. \A i \in ncHeld : i <= ncLastId' => i \in got
    <3>. HIDE DEF page
    <3>. QED BY <1>1, <1>2, <1>3, <1>4, <2>3
  <2>. HIDE DEF got, page
  <2>6. CachesTypeOK'
    BY <1>1, <1>2, <2>2, <2>4 DEF CachesInv, CachesTypeOK
  <2>7. RefreshSound'
    BY <1>1, <2>2, <2>5 DEF RefreshSound, Readable
  <2>. QED BY <2>2, <2>6, <2>7 DEF CachesInv, RegisteredIsShown
<1>. QED BY <1>5, <1>6

(* CachesStepKeeps. Every step keeps the invariant.                        *)
LEMMA CachesStepKeeps == CachesInv /\ [CachesNext]_ncVars => CachesInv'
<1>. SUFFICES ASSUME CachesInv, [CachesNext]_ncVars PROVE CachesInv'
  OBVIOUS
<1>1. CASE EntityChanges
  <2>1. PICK i \in EntityIds, e \in {"absent", "readable", "malformed"} :
          /\ ncEntity' = [ncEntity EXCEPT ![i] = e]
          /\ ncHeld' = ncHeld \ {i} /\ ncSettled' = ncSettled \ {i}
    BY <1>1 DEF EntityChanges
  <2>2. CachesTypeOK'
    BY <1>1, <2>1, CacheNumbers DEF EntityChanges, CachesInv, CachesTypeOK
  <2>3. RefreshSound'
    BY <1>1, <2>1 DEF EntityChanges, CachesInv, CachesTypeOK, RefreshSound, Readable
  <2>. QED BY <1>1, <2>1, <2>2, <2>3 DEF EntityChanges, CachesInv, RegisteredIsShown
<1>2. CASE AskStop \/ StopReturns \/ CacheHearsStop
  BY <1>2 DEF AskStop, StopReturns, CacheHearsStop, CachesInv, CachesTypeOK, RefreshSound,
              RegisteredIsShown, Readable
<1>3. CASE StartRefresh
  <2>1. CachesTypeOK' /\ RegisteredIsShown'
    BY <1>3, CacheNumbers DEF StartRefresh, CachesInv, CachesTypeOK, RegisteredIsShown, Readable
  <2>2. RefreshSound'
    BY <1>3 DEF StartRefresh, RefreshSound, Readable, EntityIds
  <2>. QED BY <2>1, <2>2 DEF CachesInv
<1>4. CASE FetchPage
  BY <1>4, FetchPageKeeps
<1>5. CASE PageFails
  <2>. DEFINE got == IF ncCache = "urls" THEN {} ELSE ncGot
  <2>1. /\ Publish(got, FALSE)
        /\ UNCHANGED <<ncCache, ncEntity, ncStop, ncHeld, ncChanges>>
    BY <1>5 DEF PageFails, AfterFailedPage
  <2>3. ncFaults' \in 0 .. PageFaults
    BY <1>5, CacheNumbers DEF PageFails, CachesInv, CachesTypeOK
  <2>2. got \in SUBSET EntityIds /\ (got # {} => ncCache # "urls")
    BY DEF CachesInv, CachesTypeOK
  <2>. HIDE DEF got
  <2>. QED BY <2>1, <2>2, <2>3, PublishKeeps
<1>6. CASE UNCHANGED ncVars
  BY <1>6 DEF ncVars, CachesInv, CachesTypeOK, RefreshSound, RegisteredIsShown, Readable
<1>. QED BY <1>1, <1>2, <1>3, <1>4, <1>5, <1>6 DEF CachesNext, CacheStep

(* CachesSound. For any number of entities, any page size and any changes  *)
(* and failures between two pages, an indexer readable all through the     *)
(* refresh last published is found by the lookups.                         *)
THEOREM CachesSound == CachesSpec => [](CachesTypeOK /\ RegisteredIsShown)
<1>1. CachesInv => CachesTypeOK /\ RegisteredIsShown
  BY DEF CachesInv
<1>. QED BY <1>1, InitCachesInv, CachesStepKeeps, PTL DEF CachesSpec
-----------------------------------------------------------------------------
(* Who is offered an agreement next.                                       *)

EndedRows == {NoEnded} \cup {Aged(e, age) : e \in Declines, age \in 0 .. Longest}

RowsTyped ==
  /\ holds \in [Requests -> [Pickable ->
       {"none", "Created", "AcceptedOnChain", "Cancelling", "HoldingSlot"}]]
  /\ ended \in [Requests -> [Pickable -> EndedRows]]
  /\ silentAge \in [Pickable -> 0 .. Longest]
  /\ denied \subseteq Pickable

PoolsTyped ==
  /\ pool \in [indexers : SUBSET Pickable, computed : 0 .. Longest]
  /\ cache \in [age : 0 .. Longest, indexers : SUBSET Pickable, computed : 0 .. Longest]
  /\ tripped \in BOOLEAN

(* What was announced and not covered since is still short.                *)
LatchSound == short \subseteq Requests /\ announced \subseteq short /\ repeated = FALSE

Gathered ==
  [at : {"breaker", "choose"}, r : Requests, current : SUBSET Pickable, held : SUBSET Pickable,
   declined : SUBSET Pickable, denied : SUBSET Pickable, silent : SUBSET Pickable]

(* An offer is under way only for a price dipper pays.                     *)
RunSound ==
  \/ run = NoRun
  \/ run \in Gathered
  \/ /\ run.at = "register" /\ run.r \in Requests
     /\ \A i \in DOMAIN run.offers : run.offers[i] \in Quotes /\ Offered(run.offers[i]) # Unpriced

PassesTyped ==
  /\ queued \subseteq Requests
  /\ pass.at \in {"none", "list"} /\ topUps \in 0 .. TopUpsPerDay
  /\ selChanges \in 0 .. SelChanges /\ selFaults \in 0 .. SelFaults

SelInv == RowsTyped /\ PoolsTyped /\ LatchSound /\ RunSound /\ PassesTyped

(* SelNumbers. The numbers of the selection are numbers.                   *)
LEMMA SelNumbers ==
  /\ {NumRequests, Wanted, TransientFor, UncertainFor, PriceFor, StandardFor, UnresponsiveFor,
      CacheFor, SnapshotFor, PeriodSeconds, Grain, TopUpsPerDay} \subseteq Nat \ {0}
  /\ SelChanges \in Nat /\ SelFaults \in Nat /\ FloatError \in Nat /\ MaxU128 \in Nat
  /\ PriceCap \in Nat \cup {NoCap} /\ EntityCap \in Nat \cup {NoCap} /\ HasTable \in BOOLEAN
  /\ \A quote \in Quotes : quote.perMonth \in Amounts /\ quote.perEntity \in Amounts
  BY SelectionAssumption

(* LongestIs. The greatest age is past the cached pool's.                  *)
LEMMA LongestIs == Longest \in Nat /\ Never = Longest /\ CacheFor < Longest
<1>. DEFINE S == {TransientFor, UncertainFor, PriceFor, StandardFor, UnresponsiveFor,
                  CacheFor, SnapshotFor}
            n == TransientFor + UncertainFor + PriceFor + StandardFor + UnresponsiveFor
                   + CacheFor + SnapshotFor
<1>1. S \subseteq Nat /\ CacheFor \in S
  BY SelNumbers
<1>2. n \in Nat /\ S \in SUBSET (0 .. n) /\ S # {}
  BY SelNumbers
<1>3. PICK m \in S : \A x \in S : x <= m
  <2>. HIDE DEF S, n
  <2>. QED BY <1>2, LargestIn
<1>4. Max(S) \in S /\ \A x \in S : Max(S) >= x
  <2>1. \A x \in S : m >= x
    BY <1>1, <1>3
  <2>. HIDE DEF S
  <2>. QED BY <1>3, <2>1 DEF Max
<1>. DEFINE top == Max(S)
<1>5. Longest = top + 1 /\ Never = Longest
  BY DEF Longest, Never
<1>6. top \in Nat /\ CacheFor \in Nat /\ top >= CacheFor
  BY <1>1, <1>4
<1>. HIDE DEF top
<1>. QED BY <1>5, <1>6

(* OlderIs. An age stays one.                                              *)
LEMMA OlderIs ==
  ASSUME NEW age \in 0 .. Longest
  PROVE  Older(age) \in 0 .. Longest
<1>1. age + 1 \in Int /\ Longest \in Int
  BY LongestIs
<1>2. Older(age) = IF age + 1 <= Longest THEN age + 1 ELSE Longest
  BY <1>1, SmallerOfTwo DEF Older
<1>. QED BY <1>2, LongestIs

(* EndedIs. An agreement declined is a record of the ways to end one and   *)
(* an age.                                                                 *)
LEMMA EndedIs ==
  ASSUME NEW x \in EndedRows, x # NoEnded
  PROVE  /\ x = [status |-> x.status, reason |-> x.reason, offered |-> x.offered, age |-> x.age]
         /\ x.age \in 0 .. Longest
         /\ \E e \in Declines : x = Aged(e, x.age)
<1>1. PICK e \in Declines, age \in 0 .. Longest : x = Aged(e, age)
  BY DEF EndedRows
<1>. QED BY <1>1 DEF Aged

(* OneWindow. A row is declined for the window its reason earns.           *)
LEMMA OneWindow ==
  ASSUME NEW x \in EndedRows, x # NoEnded
  PROVE  DeclinedNow(x) <=> x.age <= Window(x)
<1>1. PICK e \in Declines : x = Aged(e, x.age)
  BY EndedIs
<1>2. x.status = e.status /\ x.reason = e.reason /\ x.offered = e.offered
  BY <1>1 DEF Aged
<1>3. CASE e \in [status : {"Rejected"}, reason : {"price", "transient", "uncertain", "lasting"},
                  offered : {TRUE}]
  BY <1>2, <1>3 DEF DeclinedNow, Window
<1>4. CASE e \in [status : {"Expired"}, reason : {"none"}, offered : BOOLEAN]
  BY <1>2, <1>4 DEF DeclinedNow, Window
<1>5. CASE e \in [status : {"Expired"}, reason : {"uncertain"}, offered : {FALSE}]
  BY <1>2, <1>5 DEF DeclinedNow, Window
<1>6. CASE e \in [status : {"CanceledByIndexer", "AbandonedByIndexer"}, reason : {"none"},
                  offered : {TRUE}]
  BY <1>2, <1>6 DEF DeclinedNow, Window
<1>. QED BY <1>3, <1>4, <1>5, <1>6 DEF Declines

(* WholeWei. What a conversion to whole wei cuts off is less than a wei.   *)
LEMMA WholeWei ==
  ASSUME NEW x \in Int
  PROVE  /\ AsU128(x) \in Nat /\ MaxU128 * Grain \in Nat /\ AsU128(x) * Grain \in Nat
         /\ x >= 0 => AsU128(x) * Grain <= x
         /\ x < 0 => AsU128(x) * Grain = 0
         /\ \/ AsU128(x) * Grain > x - Grain
            \/ AsU128(x) * Grain > MaxU128 * Grain - Grain
<1>1. Grain \in Nat \ {0} /\ MaxU128 \in Nat
  BY SelNumbers
<1>2. MaxU128 * Grain \in Nat
  BY <1>1
<1>3. CASE x < 0
  <2>1. AsU128(x) = 0
    BY <1>3 DEF AsU128
  <2>. QED BY <1>1, <1>2, <1>3, <2>1
<1>4. CASE x >= 0
  <2>. DEFINE q == x \div Grain
  <2>1. q \in Nat /\ Grain * q <= x /\ x < Grain * q + Grain
    BY <1>1, <1>4, DivIs
  <2>2. AsU128(x) = IF q <= MaxU128 THEN q ELSE MaxU128
    BY <1>1, <1>4, <2>1, SmallerOfTwo DEF AsU128
  <2>. HIDE DEF q
  <2>3. q * Grain = Grain * q /\ q * Grain \in Nat
    BY <1>1, <2>1
  <2>4. CASE q <= MaxU128
    BY <1>1, <1>2, <1>4, <2>1, <2>2, <2>3, <2>4
  <2>5. CASE q > MaxU128
    <3>1. MaxU128 * Grain <= q * Grain
      BY <1>1, <2>1, <2>5, TimesMore
    <3>2. AsU128(x) = MaxU128
      BY <1>1, <2>1, <2>2, <2>5
    <3>. QED BY <1>1, <1>2, <1>4, <2>1, <2>3, <3>1, <3>2
  <2>. QED BY <1>1, <2>1, <2>4, <2>5
<1>. QED BY <1>3, <1>4

(* RatePays. A price within its cap is paid by its rate.                   *)
LEMMA RatePays ==
  ASSUME NEW price \in Amounts, NEW cap \in Nat \cup {NoCap}, WithinCap(price, cap)
  PROVE  Pays(WeiPerSecond(price), price, cap)
<1>1. /\ price.kind = "number" /\ price.exact \in Nat /\ (cap # NoCap => price.exact <= cap)
      /\ price.off \in -FloatError .. FloatError
  BY DEF WithinCap, Amounts
<1>2. Grain \in Nat \ {0} /\ PeriodSeconds \in Nat \ {0} /\ FloatError \in Nat
  BY SelNumbers
<1>. DEFINE x == price.exact + price.off
            w == AsU128(x)
            r == WeiPerSecond(price)
            p == PeriodSeconds
            g == Grain
<1>3. x \in Int /\ x >= price.exact - FloatError /\ x <= price.exact + FloatError
  BY <1>1, <1>2
<1>4. /\ w \in Nat /\ MaxU128 * g \in Nat /\ w * g \in Nat
      /\ x >= 0 => w * g <= x
      /\ x < 0 => w * g = 0
      /\ w * g > x - g \/ w * g > MaxU128 * g - g
  BY <1>3, WholeWei
<1>5. r \in Nat /\ r * p >= w /\ r * p <= w + p - 1
  <2>1. r = (w + p - 1) \div p
    BY DEF WeiPerSecond
  <2>. HIDE DEF w, r
  <2>. QED BY <1>2, <1>4, <2>1, RoundsUp
<1>. HIDE DEF x, w, r
<1>6. r * p \in Nat
  BY <1>2, <1>5
<1>7. w * g <= (r * p) * g /\ (r * p) * g <= (w + p - 1) * g /\ (r * p) * g \in Int
  BY <1>2, <1>4, <1>5, <1>6, TimesMore
<1>8. (w + p - 1) * g = w * g + p * g - g /\ p * g \in Nat
  <2>1. w \in Int /\ p \in Int /\ g \in Int
    BY <1>2, <1>4
  <2>. QED BY <1>2, <2>1, TimesSum
<1>. DEFINE paid == r * p * g
<1>9. paid = (r * p) * g
  OBVIOUS
<1>10. paid > Min({price.exact - FloatError, MaxU128 * g}) - g
  <2>1. Min({price.exact - FloatError, MaxU128 * g})
          = IF price.exact - FloatError <= MaxU128 * g THEN price.exact - FloatError
            ELSE MaxU128 * g
    BY <1>1, <1>2, <1>4, SmallerOfTwo
  <2>. HIDE DEF paid
  <2>. QED BY <1>1, <1>2, <1>3, <1>4, <1>7, <1>9, <2>1
<1>11. paid < price.exact + FloatError + p * g
  <2>1. w * g <= price.exact + FloatError
    BY <1>1, <1>2, <1>3, <1>4
  <2>. HIDE DEF paid
  <2>. QED BY <1>1, <1>2, <1>4, <1>7, <1>8, <1>9, <2>1
<1>. QED BY <1>1, <1>10, <1>11 DEF Pays, r

(* OfferPays. An offer that is made pays what was asked, or is the table's.*)
LEMMA OfferPays ==
  ASSUME NEW asked \in Quotes, Offered(asked) # Unpriced
  PROVE  \/ asked.perMonth.kind = "none" /\ HasTable /\ Offered(asked) = Table
         \/ /\ Pays(Offered(asked).perSecond, asked.perMonth, PriceCap)
            /\ asked.perEntity.kind # "none" =>
                 Pays(Offered(asked).perEntity, asked.perEntity, EntityCap)
<1>1. asked.perMonth \in Amounts /\ asked.perEntity \in Amounts
  BY SelNumbers
<1>2. CASE asked.perMonth.kind = "none"
  <2>1. ~WithinCap(asked.perMonth, PriceCap)
    BY <1>2 DEF WithinCap
  <2>2. Offered(asked) = IF HasTable THEN Table ELSE Unpriced
    BY <1>2, <2>1, Zenon DEF Offered
  <2>. QED BY <1>2, <2>2, SelNumbers
<1>3. CASE asked.perMonth.kind # "none"
  <2>1. /\ WithinCap(asked.perMonth, PriceCap)
        /\ asked.perEntity.kind = "none" \/ WithinCap(asked.perEntity, EntityCap)
        /\ Offered(asked) = [perSecond |-> WeiPerSecond(asked.perMonth),
                              perEntity |-> IF asked.perEntity.kind = "none" THEN 0
                                            ELSE WeiPerSecond(asked.perEntity)]
    BY <1>3, Zenon DEF Offered
  <2>2. Pays(WeiPerSecond(asked.perMonth), asked.perMonth, PriceCap)
    BY <1>1, <2>1, SelNumbers, RatePays
  <2>3. asked.perEntity.kind # "none" =>
          Pays(WeiPerSecond(asked.perEntity), asked.perEntity, EntityCap)
    BY <1>1, <2>1, SelNumbers, RatePays
  <2>4. /\ Offered(asked).perSecond = WeiPerSecond(asked.perMonth)
        /\ asked.perEntity.kind # "none" => Offered(asked).perEntity = WeiPerSecond(asked.perEntity)
    BY <2>1
  <2>. QED BY <2>2, <2>3, <2>4
<1>. QED BY <1>2, <1>3

(* SelHolds. What the invariant says to the outside.                       *)
LEMMA SelHolds == SelInv => SelectionTypeOK /\ OwnWindow /\ PaysWhatIsAsked /\ AnnouncedOnce
<1>. SUFFICES ASSUME SelInv
              PROVE  SelectionTypeOK /\ OwnWindow /\ PaysWhatIsAsked /\ AnnouncedOnce
  OBVIOUS
<1>1. \A r \in Requests, i \in Pickable : ended[r][i] \in EndedRows
  BY DEF SelInv, RowsTyped
<1>2. run.at \in {"none", "breaker", "choose", "register"}
  BY DEF SelInv, RunSound, NoRun, Gathered
<1>3. SelectionTypeOK
  <2>1. announced \subseteq Requests /\ repeated \in BOOLEAN
    BY DEF SelInv, LatchSound
  <2>. QED BY <1>1, <1>2, <2>1
           DEF SelInv, RowsTyped, PoolsTyped, LatchSound, PassesTyped, SelectionTypeOK, EndedRows
<1>4. OwnWindow
  BY <1>1, OneWindow DEF OwnWindow
<1>5. PaysWhatIsAsked
  <2>1. run.at = "register" =>
          \A i \in DOMAIN run.offers : run.offers[i] \in Quotes /\ Offered(run.offers[i]) # Unpriced
    BY DEF SelInv, RunSound, NoRun, Gathered
  <2>. QED BY <2>1, OfferPays DEF PaysWhatIsAsked
<1>. QED BY <1>3, <1>4, <1>5 DEF SelInv, LatchSound, AnnouncedOnce

(* InitSelInv. The invariant holds at the start.                           *)
LEMMA InitSelInv == SelectionInit => SelInv
<1>. SUFFICES ASSUME SelectionInit PROVE SelInv
  OBVIOUS
<1>1. RowsTyped
  BY LongestIs DEF SelectionInit, RowsTyped, EndedRows
<1>2. PoolsTyped
  <2>1. 0 \in 0 .. Longest /\ Never \in 0 .. Longest
    BY LongestIs
  <2>2. pool = [indexers |-> Pickable, computed |-> 0] /\ tripped = FALSE
        /\ cache = [age |-> Never, indexers |-> {}, computed |-> Never]
    BY DEF SelectionInit, NoCache
  <2>. QED BY <2>1, <2>2 DEF PoolsTyped
<1>3. LatchSound /\ RunSound
  BY DEF SelectionInit, LatchSound, RunSound
<1>4. PassesTyped
  <2>1. TopUpsPerDay \in Nat /\ SelChanges \in Nat /\ SelFaults \in Nat
    BY SelNumbers
  <2>. QED BY <2>1 DEF SelectionInit, PassesTyped, NoPass
<1>. QED BY <1>1, <1>2, <1>3, <1>4 DEF SelInv

(* SelFaultIs. A failed call is counted within its bound.                  *)
LEMMA SelFaultIs ==
  ASSUME PassesTyped, SelFail \/ UNCHANGED selFaults
  PROVE  selFaults' \in 0 .. SelFaults
  BY SelNumbers DEF PassesTyped, SelFail

(* StartRunKeeps. A reassessment that starts.                              *)
LEMMA StartRunKeeps ==
  ASSUME SelInv, NEW r \in Requests, StartRun(r)
  PROVE  SelInv'
<1>1. RowsTyped' /\ PoolsTyped' /\ LatchSound'
  BY DEF SelInv, StartRun, rowVars, RowsTyped, PoolsTyped, LatchSound
<1>2. run' \in Gathered
  BY DEF SelInv, StartRun, RowsTyped, Gathered, Active, Held, DeclinedOn, BeingEnded, In,
         Unanswering
<1>3. PassesTyped'
  BY DEF SelInv, StartRun, passVars, PassesTyped
<1>. QED BY <1>1, <1>2, <1>3 DEF SelInv, RunSound

(* EvaluatedIs. The breaker is tripped or not.                             *)
LEMMA EvaluatedIs ==
  ASSUME PoolsTyped, NEW snapshot, NEW silent
  PROVE  Evaluated(snapshot, silent) \in BOOLEAN
  BY DEF PoolsTyped, Evaluated

(* AskBreakerKeeps. The breaker is asked, or cannot be.                    *)
LEMMA AskBreakerKeeps ==
  ASSUME SelInv, AskBreaker
  PROVE  SelInv'
<1>1. run \in Gathered /\ run.at = "breaker"
  BY DEF SelInv, RunSound, NoRun, AskBreaker
<1>2. RowsTyped' /\ LatchSound'
  BY DEF SelInv, AskBreaker, rowVars, RowsTyped, LatchSound
<1>3. PassesTyped'
  <2>1. selFaults' \in 0 .. SelFaults
    BY SelFaultIs DEF SelInv, AskBreaker
  <2>. QED BY <2>1 DEF SelInv, AskBreaker, passVars, PassesTyped
<1>4. PoolsTyped'
  <2>1. PoolRead \in [age : 0 .. Longest, indexers : SUBSET Pickable, computed : 0 .. Longest]
    BY LongestIs DEF SelInv, PoolsTyped, PoolRead, Fetched
  <2>2. \A snapshot : Evaluated(snapshot, run.silent) \in BOOLEAN
    BY EvaluatedIs DEF SelInv
  <2>. QED BY <2>1, <2>2 DEF SelInv, AskBreaker, PoolsTyped
<1>5. run' \in Gathered
  <2>1. \E d \in SUBSET Pickable : run' = [run EXCEPT !.at = "choose", !.declined = d]
    <3>1. CASE run' = [run EXCEPT !.at = "choose"]
      BY <1>1, <3>1 DEF Gathered
    <3>2. CASE \E b \in BOOLEAN : run' = [run EXCEPT !.at = "choose",
                          !.declined = @ \cup IF b THEN {} ELSE run.silent]
      BY <1>1, <3>2 DEF Gathered
    <3>. QED BY <3>1, <3>2 DEF AskBreaker
  <2>. QED BY <1>1, <2>1 DEF Gathered
<1>. QED BY <1>2, <1>3, <1>4, <1>5 DEF SelInv, RunSound

(* ChooseKeeps. IISA's answer, the offers and the latch.                   *)
LEMMA ChooseKeeps ==
  ASSUME SelInv, Choose
  PROVE  SelInv'
<1>1. run \in Gathered /\ run.r \in Requests
  BY DEF SelInv, RunSound, NoRun, Choose, Gathered
<1>2. RowsTyped' /\ PoolsTyped'
  BY DEF SelInv, Choose, rowVars, RowsTyped, PoolsTyped
<1>3. PassesTyped'
  <2>1. selFaults' \in 0 .. SelFaults
    BY SelFaultIs DEF SelInv, Choose
  <2>. QED BY <2>1 DEF SelInv, Choose, passVars, PassesTyped
<1>4. RunSound'
  <2>1. PICK new \in SUBSET pool.indexers : \E quote \in [new -> Quotes] : \E gone, room :
          run' = [at |-> "register", r |-> run.r, gone |-> gone, room |-> room,
                  offers |-> [i \in {i \in new \ run.held : Offered(quote[i]) # Unpriced}
                                |-> quote[i]]]
    BY DEF Choose
  <2>2. PICK quote \in [new -> Quotes] : \E gone, room :
          run' = [at |-> "register", r |-> run.r, gone |-> gone, room |-> room,
                  offers |-> [i \in {i \in new \ run.held : Offered(quote[i]) # Unpriced}
                                |-> quote[i]]]
    BY <2>1
  <2>3. /\ run'.at = "register" /\ run'.r = run.r
        /\ run'.offers = [i \in {i \in new \ run.held : Offered(quote[i]) # Unpriced} |-> quote[i]]
    BY <2>2
  <2>4. \A i \in DOMAIN run'.offers :
          run'.offers[i] \in Quotes /\ Offered(run'.offers[i]) # Unpriced
    BY <2>3
  <2>. QED BY <1>1, <2>3, <2>4 DEF RunSound
<1>5. LatchSound'
  <2>. DEFINE Latch(shortfall) ==
         /\ short' = IF shortfall THEN short \cup {run.r} ELSE short \ {run.r}
         /\ LET sent == shortfall /\ LatchChanged(run.r, shortfall)
            IN /\ repeated' = (repeated \/ (sent /\ run.r \in announced))
               /\ announced' = CASE sent       -> announced \cup {run.r}
                                 [] ~shortfall -> announced \ {run.r}
                                 [] OTHER      -> announced
  <2>1. UNCHANGED <<short, announced, repeated>> \/ \E picks : Latch(picks < Wanted)
    BY Zenon DEF Choose
  <2>2. CASE UNCHANGED <<short, announced, repeated>>
    BY <2>2 DEF SelInv, LatchSound
  <2>3. ASSUME NEW picks, Latch(picks < Wanted) PROVE LatchSound'
    <3>1. short' \subseteq Requests
      BY <1>1, <2>3 DEF SelInv, LatchSound
    <3>2. announced' \subseteq short' /\ repeated' = FALSE
      <4>1. CASE picks < Wanted
        BY <2>3, <4>1 DEF SelInv, LatchSound, LatchChanged
      <4>2. CASE ~(picks < Wanted)
        BY <2>3, <4>2 DEF SelInv, LatchSound
      <4>. QED BY <4>1, <4>2
    <3>. QED BY <3>1, <3>2 DEF LatchSound
  <2>. HIDE DEF Latch
  <2>. QED BY <2>1, <2>2, <2>3
<1>. QED BY <1>2, <1>3, <1>4, <1>5 DEF SelInv

(* RunEndsKeeps. A run that fails at IISA or registers its offers.         *)
LEMMA RunEndsKeeps ==
  ASSUME SelInv, IisaFails \/ Register
  PROVE  SelInv'
<1>1. CASE IisaFails
  <2>1. run.r \in Requests
    BY <1>1 DEF SelInv, RunSound, NoRun, IisaFails, Gathered
  <2>2. RowsTyped' /\ PoolsTyped' /\ LatchSound' /\ RunSound'
    BY <1>1 DEF SelInv, IisaFails, rowVars, RowsTyped, PoolsTyped, LatchSound, RunSound
  <2>3. selFaults' \in 0 .. SelFaults
    BY <1>1, SelFaultIs DEF SelInv, IisaFails
  <2>4. PassesTyped'
    BY <1>1, <2>1, <2>3 DEF SelInv, IisaFails, passVars, PassesTyped
  <2>. QED BY <2>2, <2>4 DEF SelInv
<1>2. CASE Register
  <2>1. PICK added \in SUBSET DOMAIN run.offers, dropped \in SUBSET run.gone :
          holds' = [holds EXCEPT ![run.r] = [i \in Pickable |->
            CASE i \in added /\ @[i] = "none"                               -> "Created"
              [] i \in dropped /\ @[i] \in {"Created", "AcceptedOnChain"} -> "Cancelling"
              [] OTHER                                                     -> @[i]]]
    BY <1>2 DEF Register
  <2>2. holds' \in [Requests -> [Pickable ->
           {"none", "Created", "AcceptedOnChain", "Cancelling", "HoldingSlot"}]]
    BY <2>1 DEF SelInv, RowsTyped
  <2>3. RowsTyped' /\ PoolsTyped' /\ LatchSound' /\ RunSound' /\ PassesTyped'
    BY <1>2, <2>2 DEF SelInv, Register, RowsTyped, PoolsTyped, LatchSound, RunSound, PassesTyped,
                      passVars
  <2>. QED BY <2>3 DEF SelInv
<1>. QED BY <1>1, <1>2

(* PassKeeps. A pass of the reassignment service.                          *)
LEMMA PassKeeps ==
  ASSUME SelInv, PassStep
  PROVE  SelInv'
<1>1. QueuedOrRunning \subseteq Requests /\ short \subseteq Requests
  BY DEF SelInv, RunSound, PassesTyped, LatchSound, QueuedOrRunning, Gathered
<1>2. \A todo, lost : Pushed(todo, lost) \subseteq todo
  BY DEF Pushed
<1>3. \A skip : FullList(skip) \subseteq Requests
  BY DEF FullList
<1>4. \A skip, indexers : TopUpList(skip, indexers) \subseteq Requests
  BY <1>1 DEF TopUpList, ShortList
<1>5. PoolRead \in [age : 0 .. Longest, indexers : SUBSET Pickable, computed : 0 .. Longest]
  BY LongestIs DEF SelInv, PoolsTyped, PoolRead, Fetched
<1>6. RowsTyped' /\ LatchSound' /\ RunSound'
  BY DEF SelInv, PassStep, FullPass, TopUpPass, rowVars, RowsTyped, LatchSound, RunSound
<1>7. CASE FullPass
  <2>1. queued' \subseteq Requests
    BY <1>2, <1>3, <1>7 DEF FullPass, Queues, SelInv, PassesTyped
  <2>2. selFaults' \in 0 .. SelFaults
    BY <1>7, SelFaultIs DEF FullPass, Queues, SelInv
  <2>3. PassesTyped' /\ PoolsTyped'
    BY <1>7, <2>1, <2>2, SelNumbers DEF FullPass, SelInv, PassesTyped, PoolsTyped
  <2>. QED BY <1>6, <2>3 DEF SelInv
<1>8. CASE TopUpPass
  <2>1. queued' \subseteq Requests
    BY <1>2, <1>4, <1>8 DEF TopUpPass, Queues, SelInv, PassesTyped
  <2>2. selFaults' \in 0 .. SelFaults
    BY <1>8, SelFaultIs DEF TopUpPass, Queues, SelInv
  <2>3. topUps' \in 0 .. TopUpsPerDay
    BY <1>8, SelNumbers DEF TopUpPass, SelInv, PassesTyped
  <2>4. PassesTyped'
    BY <1>8, <2>1, <2>2, <2>3 DEF TopUpPass, SelInv, PassesTyped, NoPass
  <2>5. PoolsTyped'
    BY <1>5, <1>8 DEF TopUpPass, SelInv, PoolsTyped
  <2>. QED BY <1>6, <2>4, <2>5 DEF SelInv
<1>. QED BY <1>7, <1>8 DEF PassStep

(* OneRowSet. A table with one of its entries set.                         *)
LEMMA OneRowSet ==
  ASSUME NEW A, NEW B, NEW C, NEW f \in [A -> [B -> C]], NEW a \in A, NEW b \in B, NEW c \in C
  PROVE  [f EXCEPT ![a][b] = c] \in [A -> [B -> C]]
  OBVIOUS

(* OutsideKeeps. An agreement, the denylist or IISA's pool changes.        *)
LEMMA OutsideKeeps ==
  ASSUME SelInv, RowChanges \/ PoolChanges
  PROVE  SelInv'
<1>1. selChanges' \in 0 .. SelChanges
  BY SelNumbers DEF SelInv, PassesTyped, RowChanges, PoolChanges, SelChange
<1>2. CASE RowChanges
  <2>1. PICK r \in Requests, i \in Pickable :
          /\ holds' = [holds EXCEPT ![r][i] = "AcceptedOnChain"]
             \/ holds' = [holds EXCEPT ![r][i] = "none"]
             \/ holds' = [holds EXCEPT ![r][i] = "HoldingSlot"]
          /\ UNCHANGED ended \/ \E e \in Declines : ended' = [ended EXCEPT ![r][i] = Aged(e, 0)]
          /\ UNCHANGED silentAge \/ silentAge' = [silentAge EXCEPT ![i] = 0]
          /\ queued' \in {queued, queued \cup {r}}
    <3>1. \A s \in {"CanceledByIndexer", "AbandonedByIndexer"} :
            [status |-> s, reason |-> "none", offered |-> TRUE] \in Declines
      BY DEF Declines
    <3>. QED BY <1>2, <3>1 DEF RowChanges
  <2>2. holds' \in [Requests -> [Pickable ->
           {"none", "Created", "AcceptedOnChain", "Cancelling", "HoldingSlot"}]]
    <3>. DEFINE States == {"none", "Created", "AcceptedOnChain", "Cancelling", "HoldingSlot"}
    <3>1. holds \in [Requests -> [Pickable -> States]]
      BY DEF SelInv, RowsTyped
    <3>2. \A c \in States : [holds EXCEPT ![r][i] = c] \in [Requests -> [Pickable -> States]]
      <4>. HIDE DEF States
      <4>. QED BY <3>1, OneRowSet
    <3>. QED BY <2>1, <3>2
  <2>3. ended' \in [Requests -> [Pickable -> EndedRows]]
    <3>1. \A e \in Declines : Aged(e, 0) \in EndedRows
      BY LongestIs DEF EndedRows
    <3>2. ended \in [Requests -> [Pickable -> EndedRows]]
      BY DEF SelInv, RowsTyped
    <3>3. \A c \in EndedRows :
            [ended EXCEPT ![r][i] = c] \in [Requests -> [Pickable -> EndedRows]]
      BY <3>2, OneRowSet
    <3>. QED BY <2>1, <3>1, <3>2, <3>3
  <2>4. silentAge' \in [Pickable -> 0 .. Longest]
    BY <2>1, LongestIs DEF SelInv, RowsTyped
  <2>5. RowsTyped'
    BY <1>2, <2>2, <2>3, <2>4 DEF RowChanges, SelInv, RowsTyped
  <2>6. PoolsTyped' /\ LatchSound' /\ RunSound'
    BY <1>2 DEF RowChanges, SelInv, PoolsTyped, LatchSound, RunSound
  <2>7. PassesTyped'
    BY <1>1, <1>2, <2>1 DEF RowChanges, SelInv, PassesTyped, passVars
  <2>. QED BY <2>5, <2>6, <2>7 DEF SelInv
<1>3. CASE PoolChanges
  <2>1. RowsTyped' /\ PoolsTyped'
    BY <1>3, LongestIs DEF PoolChanges, SelInv, RowsTyped, PoolsTyped
  <2>2. LatchSound' /\ RunSound' /\ PassesTyped'
    BY <1>1, <1>3 DEF PoolChanges, SelInv, LatchSound, RunSound, PassesTyped, passVars
  <2>. QED BY <2>1, <2>2 DEF SelInv
<1>. QED BY <1>2, <1>3

(* SelTickKeeps. Time passes.                                              *)
LEMMA SelTickKeeps ==
  ASSUME SelInv, SelTick
  PROVE  SelInv'
<1>1. \A x \in EndedRows : x # NoEnded => [x EXCEPT !.age = Older(@)] \in EndedRows
  <2>1. SUFFICES ASSUME NEW x \in EndedRows, x # NoEnded
                 PROVE  [x EXCEPT !.age = Older(@)] \in EndedRows
    OBVIOUS
  <2>2. PICK e \in Declines : x = Aged(e, x.age)
    BY <2>1, EndedIs
  <2>3. Older(x.age) \in 0 .. Longest
    BY <2>1, EndedIs, OlderIs
  <2>4. [x EXCEPT !.age = Older(@)] = Aged(e, Older(x.age))
    BY <2>2 DEF Aged
  <2>. QED BY <2>3, <2>4 DEF EndedRows
<1>2. ended' \in [Requests -> [Pickable -> EndedRows]]
  BY <1>1 DEF SelTick, SelInv, RowsTyped, EndedRows
<1>3. silentAge' \in [Pickable -> 0 .. Longest]
  BY OlderIs DEF SelTick, SelInv, RowsTyped
<1>4. RowsTyped'
  BY <1>2, <1>3 DEF SelTick, SelInv, RowsTyped
<1>5. PoolsTyped'
  <2>1. pool' \in [indexers : SUBSET Pickable, computed : 0 .. Longest]
    BY OlderIs DEF SelTick, SelInv, PoolsTyped
  <2>2. cache' \in [age : 0 .. Longest, indexers : SUBSET Pickable, computed : 0 .. Longest]
    <3>1. CASE cache.age + 1 >= CacheFor
      BY <3>1, LongestIs DEF SelTick, NoCache
    <3>2. CASE ~(cache.age + 1 >= CacheFor)
      <4>1. cache.age + 1 \in 0 .. Longest /\ Older(cache.computed) \in 0 .. Longest
        BY <3>2, LongestIs, SelNumbers, OlderIs DEF SelInv, PoolsTyped
      <4>. QED BY <3>2, <4>1 DEF SelTick, SelInv, PoolsTyped
    <3>. QED BY <3>1, <3>2
  <2>. QED BY <2>1, <2>2 DEF SelTick, SelInv, PoolsTyped
<1>6. LatchSound' /\ RunSound' /\ PassesTyped'
  BY DEF SelTick, SelInv, LatchSound, RunSound, PassesTyped, passVars
<1>. QED BY <1>4, <1>5, <1>6 DEF SelInv

(* SelStepKeeps. Every step keeps the invariant.                           *)
LEMMA SelStepKeeps == SelInv /\ [SelectionNext]_selVars => SelInv'
<1>. SUFFICES ASSUME SelInv, [SelectionNext]_selVars PROVE SelInv'
  OBVIOUS
<1>1. CASE UNCHANGED selVars
  <2>1. RowsTyped' /\ PoolsTyped' /\ LatchSound' /\ RunSound' /\ PassesTyped'
    BY <1>1 DEF selVars, rowVars, SelInv, RowsTyped, PoolsTyped, LatchSound, RunSound, PassesTyped
  <2>. QED BY <2>1 DEF SelInv
<1>. QED BY <1>1, StartRunKeeps, AskBreakerKeeps, ChooseKeeps, RunEndsKeeps, PassKeeps,
            OutsideKeeps, SelTickKeeps DEF SelectionNext, RunStep

(* SelectionSound. For any requests, indexers, prices, windows and         *)
(* batches, each decline keeps an indexer out for its own window, an offer *)
(* pays what was asked and a shortfall is announced once.                  *)
THEOREM SelectionSound ==
  SelectionSpec => [](SelectionTypeOK /\ OwnWindow /\ PaysWhatIsAsked /\ AnnouncedOnce)
  BY InitSelInv, SelStepKeeps, SelHolds, PTL DEF SelectionSpec
-----------------------------------------------------------------------------
(* The watcher of the indexers' terms.                                     *)

Asked == watch.at # "idle"

(* The times of a cycle: it begins after the last one that ended, and no   *)
(* recorded one is later.                                                  *)
TimesSound ==
  /\ dipsNow \in 0 .. DipsHorizon /\ lastDone \in 0 .. dipsNow
  /\ lastRecorded \in NoTime .. dipsNow
  /\ watch \in [at : {"idle", "ask", "block"}, began : NoTime .. dipsNow,
                holders : SUBSET DipsIndexers, blocked : SUBSET DipsIndexers,
                due : SUBSET DipsIndexers]
  /\ Asked => lastDone < watch.began /\ lastRecorded <= watch.began

RestTypedDips ==
  /\ broken \subseteq DipsIndexers /\ holders \subseteq DipsIndexers
  /\ calm \in Counting .. 2
  /\ dipsChanges \in 0 .. DipsChanges /\ dipsFaults \in 0 .. DipsFaults
  /\ sparse \in BOOLEAN /\ lostAnswer \in BOOLEAN

(* A row's count is at most two intervals for each cycle that ended or     *)
(* failed, and for each that was recorded since the indexer answered.      *)
RowsSound ==
  /\ missing \in [DipsIndexers -> [secs : Int, until : NoTime .. DipsHorizon + BlockFor]]
  /\ lastGood \in [DipsIndexers -> Nat] /\ recordedSince \in [DipsIndexers -> Nat]
  /\ \A i \in DipsIndexers :
       /\ NoTime <= missing[i].secs
       /\ missing[i].secs <= 2 * (lastDone + dipsFaults + IF watch.at = "block" THEN 1 ELSE 0)
       /\ missing[i].secs <= 2 * recordedSince[i]
       /\ lastGood[i] <= dipsNow
       /\ missing[i].until # NoTime => missing[i].secs >= DenylistAfter

(* The time from the last answer to the last recorded cycle, and to the    *)
(* one under way, is all that was counted.                                 *)
CountSound ==
  ~lostAnswer =>
    \A i \in DipsIndexers :
      /\ missing[i].secs <= dipsNow - lastGood[i]
      /\ Asked => lastGood[i] <= watch.began /\ missing[i].secs <= watch.began - lastGood[i]
      /\ lastRecorded # NoTime => /\ lastGood[i] <= lastRecorded
                                  /\ missing[i].secs <= lastRecorded - lastGood[i]

(* A count past the limit was alerted on.                                  *)
AlertSound ==
  ~lostAnswer =>
    \A i \in DipsIndexers :
      /\ missing[i].secs >= AlertAfter => i \in alerted
      /\ missing[i].until # NoTime => i \in alerted

(* The cycle under way asks whoever is blocked, and blocks again whoever   *)
(* is.                                                                     *)
BlockSound ==
  /\ \A i \in DipsIndexers : Denylisted(i) =>
       /\ missing[i].until >= lastDone + BlockFor
       /\ watch.at = "ask" => i \in watch.blocked
       /\ watch.at = "block" => i \in watch.due
  /\ watch.at = "ask" => \A i \in watch.blocked : missing[i].until # NoTime
  /\ watch.at = "block" => \A i \in watch.due : missing[i].secs >= DenylistAfter

(* Time is counted of those that broke, while enough are watched.          *)
FaultSound ==
  ~sparse => \A i \in DipsIndexers :
               missing[i].secs > 0 /\ missing[i].until = NoTime => i \in ownFault

DipsInv == TimesSound /\ RestTypedDips /\ RowsSound /\ CountSound /\ AlertSound /\ BlockSound
             /\ FaultSound

(* DipsNumbers. The numbers of the watcher are numbers.                    *)
LEMMA DipsNumbers ==
  /\ AlertAfter \in Nat /\ DenylistAfter \in Nat /\ BlockFor \in Nat /\ PauseMin \in Nat
  /\ DipsHorizon \in Nat /\ DipsChanges \in Nat /\ DipsFaults \in Nat
  /\ 0 < AlertAfter /\ AlertAfter < DenylistAfter /\ 3 <= BlockFor
  /\ NoTime = -1 /\ Counting = -1
  BY DipsAssumption DEF NoTime, Counting

(* RowIs. A row has a count and the end of its block.                      *)
LEMMA RowIs ==
  ASSUME RowsSound
  PROVE  \A i \in DipsIndexers :
           /\ missing[i] = [secs |-> missing[i].secs, until |-> missing[i].until]
           /\ missing[i].secs \in Int /\ missing[i].until \in Int
           /\ lastGood[i] \in Nat /\ recordedSince[i] \in Nat
  BY DipsNumbers DEF RowsSound

(* InitDipsInv. The invariant holds at the start.                          *)
LEMMA InitDipsInv == DipsInit => DipsInv
<1>. SUFFICES ASSUME DipsInit PROVE DipsInv
  OBVIOUS
<1>1. watch.at = "idle" /\ ~Asked
  BY DEF DipsInit, NoWatch, Asked
<1>2. TimesSound
  BY <1>1, DipsNumbers DEF DipsInit, TimesSound, NoWatch
<1>3. RestTypedDips
  <2>1. sparse \in BOOLEAN /\ lostAnswer \in BOOLEAN
    BY DEF DipsInit
  <2>2. Counting \in Counting .. 2 /\ 0 \in 0 .. DipsChanges /\ 0 \in 0 .. DipsFaults
    BY DipsNumbers
  <2>. QED BY <2>1, <2>2 DEF DipsInit, RestTypedDips
<1>4. RowsSound
  BY <1>1, DipsNumbers DEF DipsInit, RowsSound, NoRow
<1>5. CountSound /\ AlertSound /\ FaultSound
  BY <1>1, DipsNumbers DEF DipsInit, CountSound, AlertSound, FaultSound, NoRow
<1>6. BlockSound
  BY <1>1, DipsNumbers DEF DipsInit, BlockSound, NoRow, Denylisted
<1>. QED BY <1>2, <1>3, <1>4, <1>5, <1>6 DEF DipsInv

(* DipsFaultIs. A failure is counted within its bound.                     *)
LEMMA DipsFaultIs ==
  ASSUME RestTypedDips, DipsFail \/ DipsWork
  PROVE  dipsFaults' \in 0 .. DipsFaults /\ dipsFaults' >= dipsFaults
         /\ (DipsFail => dipsFaults' = dipsFaults + 1)
  BY DipsNumbers DEF RestTypedDips, DipsFail, DipsWork

(* WatchReadsKeeps. A cycle begins, or cannot.                             *)
LEMMA WatchReadsKeeps ==
  ASSUME DipsInv, WatchReads
  PROVE  DipsInv'
<1>1. /\ dipsFaults \in Nat /\ dipsFaults' \in 0 .. DipsFaults /\ dipsFaults' >= dipsFaults
      /\ dipsNow \in Nat /\ lastDone \in Nat /\ lastDone < dipsNow
      /\ watch.at = "idle" /\ ~Asked
  BY DipsFaultIs, DipsNumbers DEF DipsInv, WatchReads, RestTypedDips, TimesSound, Asked
<1>2. UNCHANGED <<dipsNow, broken, holders, missing, lastRecorded, calm, alerted, lastGood,
                  recordedSince, ownFault, lastDone, sparse, lostAnswer, dipsChanges>>
  BY DEF WatchReads, dipsGhosts
<1>3. \/ watch' = watch
      \/ watch' = [at |-> "ask", began |-> dipsNow, holders |-> holders,
                   blocked |-> {i \in DipsIndexers : Denylisted(i)}, due |-> {}]
  BY DEF WatchReads, NoWatch
<1>4. watch'.at # "block" /\ (Asked' => watch'.began = dipsNow /\ watch'.at = "ask")
  BY <1>1, <1>3 DEF Asked
<1>5. TimesSound'
  <2>1. dipsNow \in NoTime .. dipsNow
    BY <1>1, DipsNumbers
  <2>2. holders \in SUBSET DipsIndexers
        /\ {i \in DipsIndexers : Denylisted(i)} \in SUBSET DipsIndexers
    BY DEF DipsInv, RestTypedDips
  <2>3. watch' \in [at : {"idle", "ask", "block"}, began : NoTime .. dipsNow,
                    holders : SUBSET DipsIndexers, blocked : SUBSET DipsIndexers,
                    due : SUBSET DipsIndexers]
    BY <1>3, <2>1, <2>2 DEF DipsInv, TimesSound
  <2>. QED BY <1>1, <1>2, <1>4, <2>3, DipsNumbers DEF DipsInv, TimesSound
<1>6. RestTypedDips'
  BY <1>1, <1>2 DEF DipsInv, RestTypedDips
<1>7. RowsSound'
  BY <1>1, <1>2, <1>4, RowIs DEF DipsInv, RowsSound
<1>8. CountSound'
  BY <1>1, <1>2, <1>4, RowIs DEF DipsInv, CountSound, RowsSound
<1>9. AlertSound' /\ FaultSound'
  BY <1>2 DEF DipsInv, AlertSound, FaultSound
<1>10. BlockSound'
  <2>1. \A i \in DipsIndexers : Denylisted(i) => missing[i].until # NoTime
    BY <1>1, DipsNumbers DEF Denylisted
  <2>2. \A i \in DipsIndexers : Denylisted(i)' <=> Denylisted(i)
    BY <1>2 DEF Denylisted
  <2>3. watch'.at = "ask" => watch'.blocked = {i \in DipsIndexers : Denylisted(i)}
    BY <1>1, <1>3
  <2>. QED BY <1>2, <1>4, <2>1, <2>2, <2>3 DEF DipsInv, BlockSound
<1>. QED BY <1>5, <1>6, <1>7, <1>8, <1>9, <1>10 DEF DipsInv

(* DipsTickKeeps. Time passes.                                             *)
LEMMA DipsTickKeeps ==
  ASSUME DipsInv, DipsTick
  PROVE  DipsInv'
<1>1. /\ dipsNow \in Nat /\ dipsNow' = dipsNow + 1 /\ dipsNow' \in 0 .. DipsHorizon
      /\ UNCHANGED <<broken, holders, missing, lastRecorded, calm, watch, alerted, lastGood,
                     recordedSince, ownFault, lastDone, sparse, lostAnswer, dipsChanges,
                     dipsFaults>>
  <2>1. dipsNow \in Nat /\ dipsNow' = dipsNow + 1 /\ dipsNow' \in 0 .. DipsHorizon
    BY DipsNumbers DEF DipsInv, TimesSound, DipsTick
  <2>. QED BY <2>1 DEF DipsTick, dipsGhosts
<1>0. Asked' <=> Asked
  BY <1>1 DEF Asked
<1>2. TimesSound'
  BY <1>0, <1>1, DipsNumbers DEF DipsInv, TimesSound
<1>3. RestTypedDips' /\ AlertSound' /\ FaultSound'
  BY <1>1 DEF DipsInv, RestTypedDips, AlertSound, FaultSound
<1>4. RowsSound' /\ CountSound'
  BY <1>0, <1>1, RowIs DEF DipsInv, RowsSound, CountSound
<1>5. BlockSound'
  <2>1. \A i \in DipsIndexers : Denylisted(i)' => Denylisted(i)
    <3>1. \A i \in DipsIndexers : missing[i].until \in Int
      BY RowIs DEF DipsInv
    <3>. QED BY <1>1, <3>1 DEF Denylisted
  <2>. QED BY <1>1, <2>1 DEF DipsInv, BlockSound
<1>. QED BY <1>2, <1>3, <1>4, <1>5 DEF DipsInv

(* DipsOutsideKeeps. An indexer breaks, recovers or loses its agreements.  *)
LEMMA DipsOutsideKeeps ==
  ASSUME DipsInv, NEW i \in DipsIndexers, IndexerChanges(i) \/ HolderReplaced(i)
  PROVE  DipsInv'
<1>1. /\ UNCHANGED <<dipsNow, missing, lastRecorded, calm, watch, alerted, lastGood,
                     recordedSince, ownFault, lastDone, sparse, lostAnswer, dipsFaults>>
      /\ Asked' = Asked
  BY DEF IndexerChanges, HolderReplaced, dipsGhosts, Asked
<1>2. RestTypedDips'
  BY <1>1, DipsNumbers DEF DipsInv, RestTypedDips, IndexerChanges, HolderReplaced
<1>3. TimesSound' /\ RowsSound' /\ CountSound' /\ AlertSound' /\ FaultSound'
  BY <1>1 DEF DipsInv, TimesSound, RowsSound, CountSound, AlertSound, FaultSound
<1>4. BlockSound'
  BY <1>1 DEF DipsInv, BlockSound, Denylisted
<1>. QED BY <1>2, <1>3, <1>4 DEF DipsInv

(* WatchRestartKeeps. The process starts anew.                             *)
LEMMA WatchRestartKeeps ==
  ASSUME DipsInv, WatchRestart
  PROVE  DipsInv'
<1>1. /\ UNCHANGED <<dipsNow, broken, holders, missing, alerted, lastGood,
                     recordedSince, ownFault, lastDone, sparse, lostAnswer, dipsChanges>>
      /\ watch' = NoWatch /\ lastRecorded' = NoTime /\ calm' = Counting
      /\ watch'.at = "idle" /\ Asked' = FALSE
  BY DEF WatchRestart, dipsGhosts, Asked, NoWatch
<1>2. /\ dipsFaults' = dipsFaults + 1 /\ dipsFaults' \in 0 .. DipsFaults /\ dipsFaults \in Nat
      /\ dipsNow \in Nat /\ lastDone \in Nat
  BY DipsFaultIs, DipsNumbers DEF DipsInv, WatchRestart, RestTypedDips, TimesSound
<1>3. TimesSound'
  BY <1>1, <1>2, DipsNumbers DEF DipsInv, TimesSound, NoWatch
<1>4. RestTypedDips'
  BY <1>1, <1>2, DipsNumbers DEF DipsInv, RestTypedDips
<1>5. RowsSound'
  BY <1>1, <1>2, RowIs DEF DipsInv, RowsSound
<1>6. CountSound' /\ AlertSound' /\ FaultSound'
  BY <1>1 DEF DipsInv, CountSound, AlertSound, FaultSound
<1>7. BlockSound'
  BY <1>1 DEF DipsInv, BlockSound, Denylisted
<1>. QED BY <1>3, <1>4, <1>5, <1>6, <1>7 DEF DipsInv

(* GainIs. Who gains time in a cycle: it was not paused, so that the   *)
(* indexer broke, is blocked, or too few were watched.                     *)
LEMMA GainIs ==
  ASSUME DipsInv, NEW down \in BOOLEAN, watch.at = "ask", NEW i \in Unreadable(down),
         Judged(Cardinality(watch.holders), Cardinality(Unreadable(down) \cap watch.holders))
           = Counting
  PROVE  \/ i \in broken \/ i \in watch.blocked \/ Cardinality(watch.holders) < PauseMin
<1>1. SUFFICES ASSUME down, i \notin watch.blocked, ~(Cardinality(watch.holders) < PauseMin)
               PROVE  FALSE
  BY DEF Unreadable
<1>2. i \in watch.holders /\ Unreadable(down) \cap watch.holders = watch.holders
  BY <1>1 DEF Unreadable, ToAsk
<1>3. IsFiniteSet(watch.holders) /\ Cardinality(watch.holders) \in Nat
  <2>1. watch.holders \subseteq DipsIndexers
    BY DEF DipsInv, TimesSound
  <2>. QED BY <2>1, DipsAssumption, FS_Subset, FS_CardinalityType
<1>4. Cardinality(watch.holders) # 0
  BY <1>2, <1>3, FS_EmptySet
<1>5. Judged(Cardinality(watch.holders), Cardinality(watch.holders)) = 0
  BY <1>1, <1>3, <1>4, DipsNumbers DEF Judged
<1>. QED BY <1>2, <1>5, DipsNumbers

(* What a row has counted so far.                                          *)
Had(i) == IF missing[i].secs >= 0 THEN missing[i].secs ELSE 0

(* AddedIs. The time a cycle adds is at most two intervals, none if it is  *)
(* paused or the first, and at most the time since the last one recorded.  *)
LEMMA AddedIs ==
  ASSUME DipsInv, watch.at = "ask", NEW paused,
         NEW added, added = IF paused = Counting THEN Elapsed(watch.began) ELSE 0
  PROVE  /\ added \in 0 .. 2
         /\ added # 0 => /\ paused = Counting /\ lastRecorded # NoTime
                         /\ added <= watch.began - lastRecorded
<1>1. /\ watch.began \in Int /\ lastRecorded \in Int /\ lastRecorded <= watch.began
  BY DipsNumbers DEF DipsInv, TimesSound, Asked
<1>2. watch.began - lastRecorded \in Int
  BY <1>1
<1>3. Min({watch.began - lastRecorded, 2})
        = IF watch.began - lastRecorded <= 2 THEN watch.began - lastRecorded ELSE 2
  BY <1>2, SmallerOfTwo
<1>. QED BY <1>1, <1>3 DEF Elapsed

(* RecordIs. The rows a cycle records.                                     *)
LEMMA RecordIs ==
  ASSUME RowsSound, NEW gone \in SUBSET DipsIndexers, NEW added \in 0 .. 2, NEW i \in DipsIndexers
  PROVE  /\ i \in gone => /\ RecordedRows(gone, added)[i]
                               = [secs |-> Had(i) + added, until |-> missing[i].until]
                          /\ RecordedRows(gone, added)[i] # NoRow
         /\ i \notin gone => RecordedRows(gone, added)[i] = NoRow
<1>. DEFINE rows == RecordedRows(gone, added)
<1>3. ASSUME i \in gone
      PROVE  rows[i] = [secs |-> Had(i) + added, until |-> missing[i].until] /\ rows[i] # NoRow
  <2>1. missing[i] = [secs |-> missing[i].secs, until |-> missing[i].until]
        /\ missing[i].secs \in Int
    BY RowIs
  <2>2. Max({missing[i].secs, 0}) = Had(i)
    BY <2>1, LargerOfTwo DEF Had
  <2>3. rows[i] = [missing[i] EXCEPT !.secs = Max({missing[i].secs, 0}) + added]
    BY <1>3 DEF RecordedRows
  <2>4. rows[i] = [secs |-> Had(i) + added, until |-> missing[i].until]
    BY <2>1, <2>2, <2>3
  <2>5. Had(i) + added >= 0 /\ Had(i) + added \in Int
    BY <2>1 DEF Had
  <2>6. rows[i].secs # NoTime
    <3>. HIDE DEF rows
    <3>. QED BY <2>4, <2>5, DipsNumbers
  <2>7. NoRow.secs = NoTime
    BY DEF NoRow
  <2>. QED BY <2>4, <2>6, <2>7
<1>4. i \notin gone => rows[i] = NoRow
  BY DEF RecordedRows
<1>. QED BY <1>3, <1>4

(* CommitKeeps. The parts of the invariant that the transaction of a cycle *)
(* keeps whether or not its answer arrives.                                *)
LEMMA CommitKeeps ==
  ASSUME DipsInv, NEW down \in BOOLEAN, watch.at = "ask",
         NEW paused,
         paused = Judged(Cardinality(watch.holders),
                         Cardinality(Unreadable(down) \cap watch.holders)),
         NEW added, added = IF paused = Counting THEN Elapsed(watch.began) ELSE 0,
         DipsCommit(RecordedRows(Unreadable(down), added)),
         dipsFaults' + (IF watch'.at = "block" THEN 1 ELSE 0) >= dipsFaults + 1,
         dipsFaults' \in Nat,
         sparse' = (sparse \/ Cardinality(watch.holders) < PauseMin),
         UNCHANGED <<dipsNow, lastDone, broken>>
  PROVE  /\ RowsSound' /\ FaultSound'
         /\ \A i \in DipsIndexers :
              /\ Denylisted(i)' => Denylisted(i) /\ i \in Unreadable(down)
              /\ missing'[i] = NoRow /\ Denylisted(i) => i \notin broken
<1>. DEFINE gone == Unreadable(down)
            rows == RecordedRows(gone, added)
<1>1. gone \in SUBSET DipsIndexers
  BY DEF DipsInv, TimesSound, Unreadable, ToAsk
<1>2. /\ added \in 0 .. 2
      /\ added # 0 => paused = Counting
      /\ \A i \in DipsIndexers :
           /\ i \in gone => /\ rows[i] = [secs |-> Had(i) + added, until |-> missing[i].until]
                            /\ rows[i] # NoRow
           /\ i \notin gone => rows[i] = NoRow
  <2>1. added \in 0 .. 2 /\ (added # 0 => paused = Counting)
    BY AddedIs
  <2>2. RowsSound
    BY DEF DipsInv
  <2>. HIDE DEF gone
  <2>. QED BY <1>1, <2>1, <2>2, RecordIs
<1>3. /\ missing' = rows
      /\ lastGood' = [i \in DipsIndexers |-> IF rows[i] = NoRow THEN watch.began ELSE lastGood[i]]
      /\ recordedSince' = [i \in DipsIndexers |->
                             IF rows[i] = NoRow THEN 0 ELSE recordedSince[i] + 1]
      /\ ownFault' = {i \in ownFault \cup broken : rows[i] # NoRow}
  BY DEF DipsCommit
<1>4. /\ watch.began \in Nat /\ watch.began <= dipsNow /\ dipsNow \in Nat /\ lastDone \in Nat
      /\ dipsFaults \in Nat
  BY DipsNumbers DEF DipsInv, TimesSound, RestTypedDips, Asked
<1>. HIDE DEF rows, gone
<1>5. \A i \in DipsIndexers :
        /\ missing[i].secs \in Int /\ missing[i].until \in NoTime .. DipsHorizon + BlockFor
        /\ NoTime <= missing[i].secs
        /\ missing[i].secs <= 2 * (lastDone + dipsFaults)
        /\ missing[i].secs <= 2 * recordedSince[i]
        /\ lastGood[i] <= dipsNow /\ lastGood[i] \in Nat /\ recordedSince[i] \in Nat
        /\ missing[i].until # NoTime => missing[i].secs >= DenylistAfter
  <2>1. 2 * (lastDone + dipsFaults + 0) = 2 * (lastDone + dipsFaults)
    BY <1>4
  <2>. QED BY <2>1 DEF DipsInv, RowsSound
<1>6. \A i \in DipsIndexers :
        /\ i \in gone => missing'[i].secs = Had(i) + added /\ missing'[i].until = missing[i].until
        /\ i \notin gone => missing'[i].secs = -1 /\ missing'[i].until = -1
  <2>1. ASSUME NEW i \in DipsIndexers, i \in gone
        PROVE  missing'[i].secs = Had(i) + added /\ missing'[i].until = missing[i].until
    <3>1. missing'[i] = [secs |-> Had(i) + added, until |-> missing[i].until]
      BY <1>2, <1>3, <2>1
    <3>. QED BY <3>1
  <2>2. NoRow.secs = -1 /\ NoRow.until = -1
    BY DipsNumbers DEF NoRow
  <2>. QED BY <1>2, <1>3, <2>1, <2>2
<1>10. \A i \in DipsIndexers :
         /\ Had(i) \in Nat /\ Had(i) >= missing[i].secs
         /\ Had(i) <= 2 * (lastDone + dipsFaults) /\ Had(i) <= 2 * recordedSince[i]
         /\ ~(missing[i].secs > 0) => Had(i) = 0
  BY <1>4, <1>5 DEF Had
<1>7. RowsSound'
  <2>1. missing' \in [DipsIndexers -> [secs : Int, until : NoTime .. DipsHorizon + BlockFor]]
    <3>1. \A i \in DipsIndexers :
            rows[i] \in [secs : Int, until : NoTime .. DipsHorizon + BlockFor]
      <4>1. NoRow \in [secs : Int, until : NoTime .. DipsHorizon + BlockFor]
        BY DipsNumbers DEF NoRow
      <4>2. \A i \in DipsIndexers : Had(i) + added \in Int
        BY <1>2, <1>5 DEF Had
      <4>3. ASSUME NEW i \in DipsIndexers, i \in gone
            PROVE  rows[i] \in [secs : Int, until : NoTime .. DipsHorizon + BlockFor]
        <5>1. rows[i] = [secs |-> Had(i) + added, until |-> missing[i].until]
          BY <1>2, <4>3
        <5>2. missing[i].until \in NoTime .. DipsHorizon + BlockFor /\ Had(i) + added \in Int
          BY <1>5, <4>2
        <5>. QED BY <5>1, <5>2
      <4>4. \A i \in DipsIndexers : i \notin gone =>
              rows[i] \in [secs : Int, until : NoTime .. DipsHorizon + BlockFor]
        BY <1>2, <4>1
      <4>. QED BY <4>3, <4>4
    <3>2. rows = [i \in DipsIndexers |-> rows[i]]
      BY DEF rows, RecordedRows
    <3>. QED BY <1>3, <3>1, <3>2
  <2>2. lastGood' \in [DipsIndexers -> Nat] /\ recordedSince' \in [DipsIndexers -> Nat]
    BY <1>3, <1>4, <1>5
  <2>3. ASSUME NEW i \in DipsIndexers
        PROVE  /\ NoTime <= missing'[i].secs
               /\ missing'[i].secs
                    <= 2 * (lastDone + dipsFaults' + IF watch'.at = "block" THEN 1 ELSE 0)
               /\ missing'[i].secs <= 2 * recordedSince'[i]
               /\ lastGood'[i] <= dipsNow
               /\ missing'[i].until # NoTime => missing'[i].secs >= DenylistAfter
    <3>. DEFINE plus == IF watch'.at = "block" THEN 1 ELSE 0
    <3>0. plus \in 0 .. 1 /\ dipsFaults' + plus >= dipsFaults + 1
      OBVIOUS
    <3>. HIDE DEF plus
    <3>1. CASE i \in gone
      <4>1. recordedSince'[i] = recordedSince[i] + 1 /\ lastGood'[i] = lastGood[i]
        BY <1>2, <1>3, <3>1
      <4>2. missing'[i].secs = Had(i) + added /\ missing'[i].until = missing[i].until
        BY <1>6, <3>1
      <4>3. missing'[i].secs <= 2 * (lastDone + dipsFaults' + plus)
        <5>1. Had(i) \in Nat /\ Had(i) <= 2 * (lastDone + dipsFaults) /\ added \in 0 .. 2
          BY <1>2, <1>10
        <5>2. PICK f \in Nat, one \in 0 .. 1 : f = dipsFaults' /\ one = plus
          BY <3>0
        <5>3. f + one >= dipsFaults + 1
          BY <3>0, <5>2
        <5>4. Had(i) + added <= 2 * (lastDone + f + one)
          BY <1>4, <5>1, <5>3
        <5>. QED BY <4>2, <5>2, <5>4
      <4>. QED BY <1>2, <1>4, <1>5, <1>10, <4>1, <4>2, <4>3, DipsNumbers DEF plus
    <3>2. CASE i \notin gone
      <4>1. recordedSince'[i] = 0 /\ lastGood'[i] = watch.began
        BY <1>2, <1>3, <3>2
      <4>2. missing'[i].secs <= 2 * (lastDone + dipsFaults' + plus)
        BY <1>4, <1>6, <3>0, <3>2
      <4>. QED BY <1>4, <1>6, <3>2, <4>1, <4>2, DipsNumbers DEF plus
    <3>. QED BY <3>1, <3>2
  <2>. QED BY <2>1, <2>2, <2>3 DEF RowsSound
<1>8. FaultSound'
  <2>1. SUFFICES ASSUME sparse' = FALSE, NEW i \in DipsIndexers,
                        missing'[i].secs > 0, missing'[i].until = NoTime
                 PROVE  i \in ownFault'
    BY DEF FaultSound
  <2>2. i \in gone /\ missing[i].until = NoTime /\ rows[i] # NoRow
    <3>1. i \in gone
      BY <1>6, <2>1
    <3>. QED BY <1>2, <1>6, <2>1, <3>1
  <2>3. sparse # TRUE /\ ~(Cardinality(watch.holders) < PauseMin)
    BY <2>1
  <2>4. CASE missing[i].secs > 0
    <3>1. i \in ownFault
      BY <2>2, <2>3, <2>4 DEF DipsInv, FaultSound, RestTypedDips
    <3>. QED BY <1>3, <2>2, <3>1
  <2>5. CASE ~(missing[i].secs > 0)
    <3>1. added # 0
      <4>1. Had(i) = 0 /\ missing'[i].secs = Had(i) + added
        BY <1>6, <1>10, <2>2, <2>5
      <4>. QED BY <2>1, <4>1
    <3>2. i \notin watch.blocked
      BY <2>2 DEF DipsInv, BlockSound
    <3>3. i \in broken
      BY <1>2, <2>2, <2>3, <3>1, <3>2, GainIs DEF gone
    <3>. QED BY <1>3, <2>2, <3>3
  <2>. QED BY <2>4, <2>5
<1>9. ASSUME NEW i \in DipsIndexers
      PROVE  /\ Denylisted(i)' => Denylisted(i) /\ i \in gone
             /\ missing'[i] = NoRow /\ Denylisted(i) => i \notin broken
  <2>1. Denylisted(i)' => Denylisted(i) /\ i \in gone
    BY <1>4, <1>6 DEF Denylisted
  <2>2. missing'[i] = NoRow /\ Denylisted(i) => i \notin broken
    BY <1>2, <1>3 DEF gone, Unreadable, ToAsk, DipsInv, BlockSound
  <2>. QED BY <2>1, <2>2
<1>. QED BY <1>7, <1>8, <1>9 DEF gone

(* JudgedIs. Counting, or paused for up to two calm cycles.                *)
LEMMA JudgedIs ==
  ASSUME RestTypedDips, NEW count, NEW gone
  PROVE  Judged(count, gone) \in Counting .. 2
  BY DipsNumbers DEF RestTypedDips, Judged

(* RecordedKeeps. A cycle that was recorded keeps the counts and alerts    *)
(* right.                                                                  *)
LEMMA RecordedKeeps ==
  ASSUME DipsInv, watch.at = "ask", NEW gone \in SUBSET DipsIndexers, NEW paused,
         NEW added, added = IF paused = Counting THEN Elapsed(watch.began) ELSE 0,
         DipsCommit(RecordedRows(gone, added)),
         lastRecorded' = watch.began,
         alerted' = (alerted \cap gone)
                      \cup {i \in gone : Crossed(RecordedRows(gone, added)[i].secs, added, AlertAfter)},
         watch'.began = watch.began,
         UNCHANGED <<dipsNow, lostAnswer>>
  PROVE  CountSound' /\ AlertSound'
<1>. DEFINE rows == RecordedRows(gone, added)
<1>1. /\ added \in 0 .. 2
      /\ added # 0 => lastRecorded # NoTime /\ added <= watch.began - lastRecorded
  BY AddedIs
<1>2. RowsSound
  BY DEF DipsInv
<1>3. missing' = rows
      /\ lastGood' = [i \in DipsIndexers |-> IF rows[i] = NoRow THEN watch.began ELSE lastGood[i]]
  BY DEF DipsCommit
<1>4. /\ watch.began \in Nat /\ watch.began <= dipsNow /\ dipsNow \in Nat
      /\ lastRecorded \in Int /\ Asked
  BY DipsNumbers DEF DipsInv, TimesSound, Asked
<1>5. SUFFICES ASSUME lostAnswer = FALSE PROVE CountSound' /\ AlertSound'
  BY DEF DipsInv, RestTypedDips, CountSound, AlertSound
<1>6. ASSUME NEW i \in DipsIndexers, i \in gone
      PROVE  /\ lastGood'[i] <= watch.began /\ missing'[i].secs <= watch.began - lastGood'[i]
             /\ missing'[i].secs <= dipsNow - lastGood'[i]
             /\ missing'[i].secs >= AlertAfter => i \in alerted'
             /\ missing'[i].until # NoTime => i \in alerted'
  <2>1. /\ rows[i] = [secs |-> Had(i) + added, until |-> missing[i].until] /\ rows[i] # NoRow
    BY <1>1, <1>2, <1>6, RecordIs
  <2>2. /\ missing'[i].secs = Had(i) + added /\ missing'[i].until = missing[i].until
        /\ rows[i].secs = Had(i) + added /\ lastGood'[i] = lastGood[i]
    BY <1>3, <2>1
  <2>3. /\ lastGood[i] \in Nat /\ missing[i].secs \in Int
        /\ lastGood[i] <= watch.began /\ missing[i].secs <= watch.began - lastGood[i]
        /\ lastRecorded # NoTime => /\ lastGood[i] <= lastRecorded
                                    /\ missing[i].secs <= lastRecorded - lastGood[i]
    BY <1>2, <1>4, <1>5, RowIs DEF DipsInv, CountSound
  <2>4. Had(i) \in Nat /\ Had(i) <= watch.began - lastGood[i]
        /\ (lastRecorded # NoTime => Had(i) <= lastRecorded - lastGood[i])
        /\ Had(i) = IF missing[i].secs >= 0 THEN missing[i].secs ELSE 0
    BY <1>4, <2>3 DEF Had
  <2>5. Had(i) + added <= watch.began - lastGood[i]
    BY <1>1, <1>4, <2>3, <2>4
  <2>6. missing[i].secs >= AlertAfter \/ missing[i].until # NoTime => i \in alerted
    BY <1>5 DEF DipsInv, AlertSound
  <2>7. CASE Had(i) + added >= AlertAfter
    <3>1. CASE Had(i) >= AlertAfter
      <4>1. missing[i].secs >= AlertAfter
        BY <2>3, <2>4, <3>1, DipsNumbers
      <4>. QED BY <1>1, <1>4, <1>6, <2>2, <2>3, <2>4, <2>5, <2>6, <4>1
    <3>2. CASE ~(Had(i) >= AlertAfter)
      <4>1. Crossed(Had(i) + added, added, AlertAfter)
        BY <1>1, <2>4, <2>7, <3>2, DipsNumbers DEF Crossed
      <4>2. i \in alerted'
        BY <1>6, <2>2, <4>1
      <4>. QED BY <1>1, <1>4, <2>2, <2>3, <2>4, <2>5, <4>2
    <3>. QED BY <3>1, <3>2
  <2>8. CASE ~(Had(i) + added >= AlertAfter)
    <3>1. missing'[i].until # NoTime => i \in alerted'
      BY <1>6, <2>2, <2>6
    <3>. QED BY <1>1, <1>4, <2>2, <2>3, <2>4, <2>5, <2>8, <3>1
  <2>. QED BY <2>7, <2>8
<1>7. ASSUME NEW i \in DipsIndexers, i \notin gone
      PROVE  /\ lastGood'[i] <= watch.began /\ missing'[i].secs <= watch.began - lastGood'[i]
             /\ missing'[i].secs <= dipsNow - lastGood'[i]
             /\ missing'[i].secs >= AlertAfter => i \in alerted'
             /\ missing'[i].until # NoTime => i \in alerted'
  <2>1. rows[i] = NoRow
    BY <1>1, <1>2, <1>7, RecordIs
  <2>2. missing'[i].secs = -1 /\ missing'[i].until = NoTime /\ lastGood'[i] = watch.began
    BY <1>3, <2>1, DipsNumbers DEF NoRow
  <2>. QED BY <1>4, <2>2, DipsNumbers
<1>. HIDE DEF rows
<1>8. CountSound'
  BY <1>6, <1>7 DEF CountSound
<1>9. AlertSound'
  BY <1>6, <1>7 DEF AlertSound
<1>. QED BY <1>8, <1>9

(* WatchRecordsKeeps. The answers of a cycle are judged and recorded.      *)
LEMMA WatchRecordsKeeps ==
  ASSUME DipsInv, NEW down \in BOOLEAN, WatchRecords(down)
  PROVE  /\ DipsInv' /\ dipsNow' = dipsNow /\ lastDone' = lastDone
         /\ \A i \in DipsIndexers :
              /\ Denylisted(i) /\ ~(missing'[i].until > dipsNow')
                   => missing'[i] = NoRow /\ i \notin broken
              /\ missing[i].until = NoTime => missing'[i].until = NoTime
<1>. DEFINE gone == Unreadable(down)
<1>1. PICK paused : paused = Judged(Cardinality(watch.holders), Cardinality(gone \cap watch.holders))
  OBVIOUS
<1>2. PICK added : added = IF paused = Counting THEN Elapsed(watch.began) ELSE 0
  OBVIOUS
<1>. DEFINE rows == RecordedRows(gone, added)
<1>3. /\ watch.at = "ask" /\ calm' = paused
      /\ \/ /\ DipsWork /\ DipsCommit(rows)
            /\ lastRecorded' = watch.began
            /\ alerted' = (alerted \cap gone)
                            \cup {i \in gone : Crossed(rows[i].secs, added, AlertAfter)}
            /\ watch' = [watch EXCEPT !.at = "block", !.due = ToBlock(rows, paused # Counting)]
            /\ UNCHANGED lostAnswer
         \/ /\ DipsFail /\ watch' = NoWatch
            /\ \/ DipsCommit(rows) /\ alerted' = alerted \cap gone /\ lostAnswer' = TRUE
               \/ UNCHANGED <<missing, alerted, lostAnswer, lastGood, recordedSince, ownFault>>
            /\ UNCHANGED lastRecorded
      /\ sparse' = (sparse \/ Cardinality(watch.holders) < PauseMin)
      /\ UNCHANGED <<dipsNow, broken, holders, lastDone, dipsChanges>>
  BY <1>1, <1>2 DEF WatchRecords
<1>4. /\ dipsNow \in Nat /\ lastDone \in Nat /\ dipsFaults \in Nat /\ RowsSound
      /\ watch.began \in Nat /\ watch.began <= dipsNow /\ lastDone < watch.began
  BY <1>3, DipsNumbers DEF DipsInv, TimesSound, RestTypedDips, Asked
<1>5. gone \in SUBSET DipsIndexers
  BY DEF DipsInv, TimesSound, Unreadable, ToAsk
<1>6. dipsFaults' \in 0 .. DipsFaults /\ (DipsFail => dipsFaults' = dipsFaults + 1)
      /\ (DipsWork => dipsFaults' = dipsFaults) /\ dipsFaults' \in Nat
  <2>1. DipsFail \/ DipsWork
    BY <1>3
  <2>2. RestTypedDips
    BY DEF DipsInv
  <2>3. dipsFaults' \in 0 .. DipsFaults /\ (DipsFail => dipsFaults' = dipsFaults + 1)
    BY <2>1, <2>2, DipsFaultIs
  <2>. QED BY <2>3, DipsNumbers DEF DipsWork
<1>7. RestTypedDips'
  <2>1. calm' \in Counting .. 2
    BY <1>1, <1>3, JudgedIs DEF DipsInv
  <2>2. sparse' \in BOOLEAN /\ lostAnswer' \in BOOLEAN
    BY <1>3 DEF DipsInv, RestTypedDips
  <2>. QED BY <1>3, <1>6, <2>1, <2>2 DEF DipsInv, RestTypedDips
<1>8. CASE UNCHANGED <<missing, alerted, lostAnswer, lastGood, recordedSince, ownFault>>
           /\ watch' = NoWatch /\ DipsFail /\ UNCHANGED lastRecorded
  <2>1. watch'.at = "idle" /\ ~Asked'
    BY <1>8 DEF NoWatch, Asked
  <2>2. TimesSound'
    BY <1>3, <1>8, <2>1, DipsNumbers DEF DipsInv, TimesSound, NoWatch
  <2>3. RowsSound'
    BY <1>3, <1>4, <1>6, <1>8, <2>1, RowIs DEF RowsSound
  <2>4. CountSound' /\ AlertSound'
    BY <1>3, <1>8, <2>1 DEF DipsInv, CountSound, AlertSound
  <2>5. FaultSound'
    BY <1>3, <1>8 DEF DipsInv, FaultSound, RestTypedDips
  <2>6. BlockSound'
    BY <1>3, <1>8, <2>1 DEF DipsInv, BlockSound, Denylisted
  <2>7. DipsInv'
    BY <1>7, <2>2, <2>3, <2>4, <2>5, <2>6 DEF DipsInv
  <2>. QED BY <1>3, <1>8, <2>7 DEF Denylisted
<1>9. CASE DipsCommit(rows)
  <2>1. /\ missing' = rows
        /\ \A i \in DipsIndexers :
             /\ i \in gone => rows[i].until = missing[i].until /\ rows[i] # NoRow
             /\ i \notin gone => rows[i] = NoRow
    <3>1. added \in 0 .. 2
      BY <1>2, <1>3, AddedIs
    <3>2. ASSUME NEW i \in DipsIndexers
          PROVE  /\ i \in gone => rows[i].until = missing[i].until /\ rows[i] # NoRow
                 /\ i \notin gone => rows[i] = NoRow
      <4>1. /\ i \in gone => /\ rows[i] = [secs |-> Had(i) + added, until |-> missing[i].until]
                             /\ rows[i] # NoRow
            /\ i \notin gone => rows[i] = NoRow
        BY <1>4, <1>5, <3>1, RecordIs
      <4>. QED BY <4>1
    <3>. QED BY <1>9, <3>2 DEF DipsCommit
  <2>2. dipsFaults' + (IF watch'.at = "block" THEN 1 ELSE 0) >= dipsFaults + 1
    <3>1. CASE DipsFail
      BY <1>4, <1>6, <3>1
    <3>2. CASE watch' = [watch EXCEPT !.at = "block", !.due = ToBlock(rows, paused # Counting)]
               /\ DipsWork
      <4>1. watch'.at = "block"
        BY <3>2 DEF DipsInv, TimesSound
      <4>. QED BY <1>4, <1>6, <3>2, <4>1
    <3>. QED BY <1>3, <3>1, <3>2
  <2>3. /\ RowsSound' /\ FaultSound'
        /\ \A i \in DipsIndexers :
             /\ Denylisted(i)' => Denylisted(i) /\ i \in gone
             /\ missing'[i] = NoRow /\ Denylisted(i) => i \notin broken
    BY <1>1, <1>2, <1>3, <1>6, <1>9, <2>2, CommitKeeps
  <2>4. \A i \in DipsIndexers :
          /\ Denylisted(i) /\ ~(missing'[i].until > dipsNow')
               => missing'[i] = NoRow /\ i \notin broken
          /\ missing[i].until = NoTime => missing'[i].until = NoTime
    <3>1. ASSUME NEW i \in DipsIndexers
          PROVE  /\ Denylisted(i) /\ ~(missing'[i].until > dipsNow') => missing'[i] = NoRow
                 /\ missing[i].until = NoTime => missing'[i].until = NoTime
      <4>. HIDE DEF rows, gone
      <4>. QED BY <1>3, <2>1 DEF Denylisted, NoRow
    <3>. QED BY <2>3, <3>1
  <2>5. \A i \in DipsIndexers : Denylisted(i)' => missing'[i].until = missing[i].until
    BY <2>1, <2>3
  <2>6. CASE /\ DipsWork /\ lastRecorded' = watch.began
             /\ alerted' = (alerted \cap gone)
                             \cup {i \in gone : Crossed(rows[i].secs, added, AlertAfter)}
             /\ watch' = [watch EXCEPT !.at = "block", !.due = ToBlock(rows, paused # Counting)]
             /\ UNCHANGED lostAnswer
    <3>1. ToBlock(rows, paused # Counting) \in SUBSET DipsIndexers
      BY DEF ToBlock
    <3>2. /\ watch'.at = "block" /\ watch'.began = watch.began /\ Asked'
          /\ watch'.due = ToBlock(rows, paused # Counting)
          /\ watch' \in [at : {"idle", "ask", "block"}, began : NoTime .. dipsNow,
                          holders : SUBSET DipsIndexers, blocked : SUBSET DipsIndexers,
                          due : SUBSET DipsIndexers]
      <4>. HIDE DEF rows
      <4>. QED BY <2>6, <3>1 DEF DipsInv, TimesSound, Asked
    <3>3. TimesSound'
      BY <1>3, <1>4, <2>6, <3>2, DipsNumbers DEF DipsInv, TimesSound
    <3>4. CountSound' /\ AlertSound'
      <4>1. UNCHANGED <<dipsNow, lostAnswer>> /\ watch.at = "ask"
        BY <1>3, <2>6
      <4>. HIDE DEF gone
      <4>. QED BY <1>2, <1>5, <1>9, <2>6, <3>2, <4>1, RecordedKeeps
    <3>5. BlockSound'
      <4>1. \A i \in DipsIndexers : Denylisted(i)' =>
              missing'[i].until >= lastDone + BlockFor /\ i \in watch.blocked
        BY <1>3, <2>3, <2>5 DEF DipsInv, BlockSound
      <4>2. \A i \in DipsIndexers : Denylisted(i)' => rows[i].secs >= DenylistAfter
        <5>1. \A i \in DipsIndexers : Denylisted(i)' => rows[i].until # NoTime
          BY <1>3, <1>4, <2>1, DipsNumbers DEF Denylisted
        <5>. QED BY <2>1, <2>3, <5>1 DEF RowsSound
      <4>3. \A i \in DipsIndexers : Denylisted(i)' => i \in watch'.due
        BY <3>2, <4>1, <4>2 DEF ToBlock
      <4>4. \A i \in watch'.due : missing'[i].secs >= DenylistAfter
        BY <2>1, <3>2 DEF ToBlock
      <4>. QED BY <1>3, <3>2, <4>1, <4>3, <4>4 DEF BlockSound
    <3>6. DipsInv'
      BY <1>7, <2>3, <3>3, <3>4, <3>5 DEF DipsInv
    <3>. QED BY <1>3, <2>4, <3>6
  <2>7. CASE /\ DipsFail /\ watch' = NoWatch /\ lostAnswer' = TRUE /\ UNCHANGED lastRecorded
    <3>1. watch'.at = "idle" /\ ~Asked'
      BY <2>7 DEF NoWatch, Asked
    <3>2. TimesSound'
      BY <1>3, <2>7, <3>1, DipsNumbers DEF DipsInv, TimesSound, NoWatch
    <3>3. CountSound' /\ AlertSound'
      BY <2>7 DEF CountSound, AlertSound
    <3>4. BlockSound'
      <4>1. \A i \in DipsIndexers : Denylisted(i)' => missing'[i].until >= lastDone + BlockFor
        BY <2>3, <2>5 DEF DipsInv, BlockSound
      <4>. QED BY <1>3, <3>1, <4>1 DEF BlockSound
    <3>5. DipsInv'
      BY <1>7, <2>3, <3>2, <3>3, <3>4 DEF DipsInv
    <3>. QED BY <1>3, <2>4, <3>5
  <2>8. CASE UNCHANGED <<missing, alerted, lostAnswer, lastGood, recordedSince, ownFault>>
             /\ watch' = NoWatch /\ DipsFail /\ UNCHANGED lastRecorded
    BY <1>8, <2>8
  <2>. HIDE DEF rows, gone
  <2>. QED BY <1>3, <2>6, <2>7, <2>8
<1>. HIDE DEF rows, gone
<1>. QED BY <1>3, <1>8, <1>9

(* WatchBlocksKeeps. Whoever is due is blocked.                            *)
LEMMA WatchBlocksKeeps ==
  ASSUME DipsInv, WatchBlocks
  PROVE  /\ DipsInv' /\ dipsNow' = dipsNow
         /\ \A i \in DipsIndexers :
              /\ Denylisted(i) => missing'[i].until > dipsNow'
              /\ missing[i].until = NoTime /\ missing'[i].until # NoTime => i \in ownFault \/ sparse
<1>1. /\ watch.at = "block" /\ watch' = NoWatch /\ watch'.at = "idle" /\ ~Asked'
      /\ UNCHANGED <<dipsNow, broken, holders, lastRecorded, calm, alerted, lastGood,
                     recordedSince, ownFault, sparse, lostAnswer, dipsChanges>>
  BY DEF WatchBlocks, NoWatch, Asked
<1>2. /\ dipsNow \in Nat /\ lastDone \in Nat /\ dipsFaults \in Nat /\ RowsSound
      /\ lastDone < dipsNow /\ dipsNow <= DipsHorizon /\ RestTypedDips
  BY <1>1, DipsNumbers DEF DipsInv, TimesSound, RestTypedDips, Asked
<1>3. /\ dipsFaults' \in 0 .. DipsFaults /\ dipsFaults' \in Nat
      /\ DipsFail => dipsFaults' = dipsFaults + 1
      /\ DipsWork => dipsFaults' = dipsFaults
  <2>1. DipsFail \/ DipsWork
    BY DEF WatchBlocks
  <2>2. dipsFaults' \in 0 .. DipsFaults /\ (DipsFail => dipsFaults' = dipsFaults + 1)
    BY <1>2, <2>1, DipsFaultIs
  <2>. QED BY <2>2, DipsNumbers DEF DipsWork
<1>4. RestTypedDips'
  BY <1>1, <1>3 DEF DipsInv, RestTypedDips
<1>5. \A i \in DipsIndexers :
        /\ missing[i].secs \in Int /\ missing[i].until \in NoTime .. DipsHorizon + BlockFor
        /\ missing[i].until \in Int
        /\ lastGood[i] \in Nat /\ recordedSince[i] \in Nat
  BY <1>2, RowIs DEF RowsSound
<1>6. CASE DipsFail /\ UNCHANGED <<missing, lastDone>>
  <2>1. TimesSound'
    BY <1>1, <1>6, DipsNumbers DEF DipsInv, TimesSound, NoWatch
  <2>2. RowsSound'
    BY <1>1, <1>2, <1>3, <1>5, <1>6 DEF RowsSound
  <2>3. CountSound' /\ AlertSound' /\ FaultSound'
    BY <1>1, <1>6 DEF DipsInv, CountSound, AlertSound, FaultSound
  <2>4. BlockSound'
    BY <1>1, <1>6 DEF DipsInv, BlockSound, Denylisted
  <2>5. DipsInv'
    BY <1>4, <2>1, <2>2, <2>3, <2>4 DEF DipsInv
  <2>. QED BY <1>1, <1>6, <2>5 DEF Denylisted
<1>7. CASE /\ DipsWork /\ lastDone' = dipsNow
           /\ missing' = [i \in DipsIndexers |->
                            IF i \in watch.due THEN [missing[i] EXCEPT !.until = dipsNow + BlockFor]
                            ELSE missing[i]]
  <2>1. \A i \in DipsIndexers :
          /\ i \in watch.due => missing'[i] = [secs |-> missing[i].secs, until |-> dipsNow + BlockFor]
          /\ i \notin watch.due => missing'[i] = missing[i]
    <3>1. ASSUME NEW i \in DipsIndexers, i \in watch.due
          PROVE  missing'[i] = [secs |-> missing[i].secs, until |-> dipsNow + BlockFor]
      <4>1. missing'[i] = [missing[i] EXCEPT !.until = dipsNow + BlockFor]
        BY <1>7, <3>1
      <4>2. missing[i] = [secs |-> missing[i].secs, until |-> missing[i].until]
        BY <1>2, RowIs
      <4>. QED BY <4>1, <4>2
    <3>. QED BY <1>7, <3>1
  <2>2. \A i \in DipsIndexers :
          /\ missing'[i].secs = missing[i].secs
          /\ i \in watch.due => missing'[i].until = dipsNow + BlockFor
          /\ i \notin watch.due => missing'[i].until = missing[i].until
    <3>1. ASSUME NEW i \in DipsIndexers, i \in watch.due
          PROVE  missing'[i].secs = missing[i].secs /\ missing'[i].until = dipsNow + BlockFor
      <4>1. missing'[i] = [secs |-> missing[i].secs, until |-> dipsNow + BlockFor]
        BY <2>1, <3>1
      <4>. QED BY <4>1
    <3>. QED BY <2>1, <3>1
  <2>3. /\ \A i \in DipsIndexers : Denylisted(i) => i \in watch.due
        /\ \A i \in watch.due : missing[i].secs >= DenylistAfter
    BY <1>1 DEF DipsInv, BlockSound
  <2>4. TimesSound'
    BY <1>1, <1>2, <1>7, DipsNumbers DEF DipsInv, TimesSound, NoWatch
  <2>5. RowsSound'
    <3>1. missing' \in [DipsIndexers -> [secs : Int, until : NoTime .. DipsHorizon + BlockFor]]
      <4>1. dipsNow + BlockFor \in NoTime .. DipsHorizon + BlockFor
        BY <1>2, DipsNumbers
      <4>2. \A i \in DipsIndexers :
              missing'[i] \in [secs : Int, until : NoTime .. DipsHorizon + BlockFor]
        <5>1. ASSUME NEW i \in DipsIndexers, i \in watch.due
              PROVE  missing'[i] \in [secs : Int, until : NoTime .. DipsHorizon + BlockFor]
          <6>1. missing'[i] = [secs |-> missing[i].secs, until |-> dipsNow + BlockFor]
            BY <2>1, <5>1
          <6>. QED BY <1>5, <4>1, <6>1
        <5>. QED BY <1>2, <2>1, <5>1 DEF RowsSound
      <4>. QED BY <1>7, <4>2
    <3>2. ASSUME NEW i \in DipsIndexers
          PROVE  /\ NoTime <= missing'[i].secs
                 /\ missing'[i].secs <= 2 * (dipsNow + dipsFaults')
                 /\ missing'[i].secs <= 2 * recordedSince[i]
                 /\ lastGood[i] <= dipsNow
                 /\ missing'[i].until # NoTime => missing'[i].secs >= DenylistAfter
      <4>1. /\ NoTime <= missing[i].secs
            /\ missing[i].secs <= 2 * (lastDone + dipsFaults + 1)
            /\ missing[i].secs <= 2 * recordedSince[i]
            /\ lastGood[i] <= dipsNow
            /\ missing[i].until # NoTime => missing[i].secs >= DenylistAfter
        BY <1>1, <1>2 DEF RowsSound
      <4>2. missing[i].secs <= 2 * (dipsNow + dipsFaults)
        <5>1. lastDone + 1 <= dipsNow /\ missing[i].secs \in Int
          BY <1>2, <1>5
        <5>2. 2 * (lastDone + dipsFaults + 1) <= 2 * (dipsNow + dipsFaults)
          BY <1>2, <5>1
        <5>. QED BY <1>2, <4>1, <5>1, <5>2
      <4>3. missing'[i].until # NoTime => missing[i].secs >= DenylistAfter
        BY <2>2, <2>3, <4>1
      <4>. QED BY <1>3, <1>7, <2>2, <4>1, <4>2, <4>3
    <3>3. 2 * (dipsNow + dipsFaults' + 0) = 2 * (dipsNow + dipsFaults')
      BY <1>2, <1>3
    <3>. QED BY <1>1, <1>2, <1>7, <3>1, <3>2, <3>3 DEF RowsSound
  <2>6. CountSound'
    BY <1>1, <2>2 DEF DipsInv, CountSound
  <2>7. AlertSound'
    <3>1. ASSUME NEW i \in DipsIndexers, lostAnswer = FALSE, missing'[i].until # NoTime
          PROVE  i \in alerted
      <4>1. CASE i \in watch.due
        <5>1. missing[i].secs >= AlertAfter
          <6>1. missing[i].secs \in Int /\ missing[i].secs >= DenylistAfter
            BY <1>5, <2>3, <4>1
          <6>. QED BY <6>1, DipsNumbers
        <5>. QED BY <3>1, <5>1 DEF DipsInv, AlertSound
      <4>2. CASE i \notin watch.due
        BY <2>2, <3>1, <4>2 DEF DipsInv, AlertSound
      <4>. QED BY <4>1, <4>2
    <3>. QED BY <1>1, <1>2, <2>2, <3>1 DEF DipsInv, AlertSound, RestTypedDips
  <2>8. FaultSound'
    <3>1. \A i \in DipsIndexers : missing'[i].until = NoTime => missing[i].until = NoTime
      BY <1>2, <2>2, DipsNumbers
    <3>. QED BY <1>1, <2>2, <3>1 DEF DipsInv, FaultSound
  <2>9. BlockSound'
    <3>1. \A i \in DipsIndexers : Denylisted(i)' => missing'[i].until >= dipsNow + BlockFor
      <4>1. SUFFICES ASSUME NEW i \in DipsIndexers, missing'[i].until > dipsNow
                     PROVE  missing'[i].until >= dipsNow + BlockFor
        BY <1>1 DEF Denylisted
      <4>2. i \in watch.due
        BY <2>2, <2>3, <4>1 DEF Denylisted
      <4>. QED BY <1>2, <2>2, <4>2, DipsNumbers
    <3>. QED BY <1>1, <1>7, <3>1 DEF BlockSound
  <2>10. DipsInv'
    BY <1>4, <2>4, <2>5, <2>6, <2>7, <2>8, <2>9 DEF DipsInv
  <2>11. ASSUME NEW i \in DipsIndexers
         PROVE  /\ Denylisted(i) => missing'[i].until > dipsNow'
                /\ missing[i].until = NoTime /\ missing'[i].until # NoTime
                     => i \in ownFault \/ sparse
    <3>1. Denylisted(i) => missing'[i].until > dipsNow'
      BY <1>1, <1>2, <2>2, <2>3, DipsNumbers
    <3>2. ASSUME missing[i].until = NoTime, missing'[i].until # NoTime, sparse = FALSE
          PROVE  i \in ownFault
      <4>1. i \in watch.due
        BY <2>2, <3>2
      <4>2. missing[i].secs > 0
        <5>1. missing[i].secs \in Int /\ missing[i].secs >= DenylistAfter
          BY <1>5, <2>3, <4>1
        <5>. QED BY <5>1, DipsNumbers
      <4>. QED BY <3>2, <4>2 DEF DipsInv, FaultSound
    <3>3. sparse \in BOOLEAN
      BY <1>2 DEF RestTypedDips
    <3>. QED BY <3>1, <3>2, <3>3
  <2>. QED BY <1>1, <2>10, <2>11
<1>. QED BY <1>6, <1>7 DEF WatchBlocks

(* DipsHolds. What the invariant says to the outside.                      *)
LEMMA DipsHolds == DipsInv => DipsTypeOK /\ CountsWhatPassed /\ AlertBeforeBlock
<1>. SUFFICES ASSUME DipsInv PROVE DipsTypeOK /\ CountsWhatPassed /\ AlertBeforeBlock
  OBVIOUS
<1>1. missing \in [DipsIndexers -> [secs : NoTime .. 2 * (DipsHorizon + DipsFaults),
                                     until : NoTime .. DipsHorizon + BlockFor]]
  <2>1. /\ lastDone \in Nat /\ dipsFaults \in Nat /\ dipsFaults <= DipsFaults
        /\ lastDone + (IF watch.at = "block" THEN 1 ELSE 0) <= DipsHorizon
    BY DipsNumbers DEF DipsInv, TimesSound, RestTypedDips, Asked
  <2>2. ASSUME NEW i \in DipsIndexers
        PROVE  missing[i].secs \in NoTime .. 2 * (DipsHorizon + DipsFaults)
    <3>1. PICK one \in 0 .. 1 : one = IF watch.at = "block" THEN 1 ELSE 0
      OBVIOUS
    <3>2. missing[i].secs \in Int /\ NoTime <= missing[i].secs
          /\ missing[i].secs <= 2 * (lastDone + dipsFaults + one)
      BY <3>1 DEF DipsInv, RowsSound
    <3>3. 2 * (lastDone + dipsFaults + one) <= 2 * (DipsHorizon + DipsFaults)
      BY <2>1, <3>1, DipsNumbers
    <3>. QED BY <2>1, <3>2, <3>3, DipsNumbers
  <2>. QED BY <2>2 DEF DipsInv, RowsSound
<1>2. DipsTypeOK
  BY <1>1 DEF DipsInv, TimesSound, RestTypedDips, DipsTypeOK
<1>. QED BY <1>2 DEF DipsInv, CountSound, AlertSound, RowsSound, CountsWhatPassed, AlertBeforeBlock

(* DipsStepKeeps. Every step keeps the invariant, ends no block that must  *)
(* last and blocks nobody over an outage.                                  *)
LEMMA DipsStepKeeps ==
  DipsInv /\ [DipsNext]_dipsVars => DipsInv' /\ BlockOutlasts /\ OutageBlocksNobody
<1>. SUFFICES ASSUME DipsInv, [DipsNext]_dipsVars
              PROVE  DipsInv' /\ BlockOutlasts /\ OutageBlocksNobody
  OBVIOUS
<1>1. CASE WatchReads \/ WatchRestart \/ \E i \in DipsIndexers : IndexerChanges(i) \/ HolderReplaced(i)
  <2>1. DipsInv'
    BY <1>1, WatchReadsKeeps, WatchRestartKeeps, DipsOutsideKeeps
  <2>2. UNCHANGED <<missing, dipsNow>>
    BY <1>1 DEF WatchReads, WatchRestart, IndexerChanges, HolderReplaced
  <2>. QED BY <2>1, <2>2 DEF BlockOutlasts, OutageBlocksNobody, Denylisted
<1>2. CASE WatchBlocks
  BY <1>2, WatchBlocksKeeps DEF BlockOutlasts, OutageBlocksNobody
<1>3. CASE DipsTick
  <2>1. DipsInv'
    BY <1>3, DipsTickKeeps
  <2>2. UNCHANGED missing /\ dipsNow' = dipsNow + 1
    BY <1>3 DEF DipsTick
  <2>3. BlockOutlasts
    <3>1. ASSUME NEW i \in DipsIndexers, Denylisted(i), ~(missing[i].until > dipsNow + 1)
          PROVE  dipsNow + 1 - lastDone > 2
      <4>1. dipsNow \in Nat /\ lastDone \in Nat
        BY DipsNumbers DEF DipsInv, TimesSound
      <4>2. missing[i].until \in Int
        BY RowIs DEF DipsInv
      <4>3. missing[i].until >= lastDone + BlockFor
        BY <3>1 DEF DipsInv, BlockSound
      <4>4. missing[i].until > dipsNow
        BY <3>1 DEF Denylisted
      <4>. QED BY <3>1, <4>1, <4>2, <4>3, <4>4, DipsNumbers
    <3>2. ASSUME NEW i \in DipsIndexers, Denylisted(i), ~(missing'[i].until > dipsNow')
          PROVE  dipsNow' - lastDone > 2
      <4>1. ~(missing[i].until > dipsNow + 1)
        BY <2>2, <3>2
      <4>2. dipsNow + 1 - lastDone > 2
        BY <3>1, <3>2, <4>1
      <4>3. dipsNow \in Nat /\ lastDone \in Nat
        BY DipsNumbers DEF DipsInv, TimesSound
      <4>. QED BY <2>2, <4>2, <4>3
    <3>. QED BY <3>2 DEF BlockOutlasts
  <2>. QED BY <2>1, <2>2, <2>3 DEF OutageBlocksNobody
<1>4. ASSUME NEW down \in BOOLEAN, WatchRecords(down)
      PROVE  DipsInv' /\ BlockOutlasts /\ OutageBlocksNobody
  BY <1>4, WatchRecordsKeeps DEF BlockOutlasts, OutageBlocksNobody
<1>5. CASE UNCHANGED dipsVars
  <2>1. UNCHANGED <<dipsNow, broken, holders, missing, lastRecorded, calm, watch, alerted,
                    lastGood, recordedSince, ownFault, lastDone, sparse, lostAnswer, dipsChanges,
                    dipsFaults>>
    BY <1>5 DEF dipsVars, dipsGhosts
  <2>2. TimesSound' /\ RestTypedDips'
    BY <2>1 DEF DipsInv, TimesSound, RestTypedDips, Asked
  <2>3. RowsSound' /\ CountSound' /\ AlertSound' /\ FaultSound'
    BY <2>1 DEF DipsInv, RowsSound, CountSound, AlertSound, FaultSound, Asked
  <2>4. BlockSound'
    BY <2>1 DEF DipsInv, BlockSound, Denylisted
  <2>5. BlockOutlasts /\ OutageBlocksNobody
    BY <2>1 DEF BlockOutlasts, OutageBlocksNobody, Denylisted
  <2>. QED BY <2>2, <2>3, <2>4, <2>5 DEF DipsInv
<1>. QED BY <1>1, <1>2, <1>3, <1>4, <1>5 DEF DipsNext

(* DipsSound. For any indexers, limits, failures and restarts: an          *)
(* indexer's count is never more than the time that passed, it is blocked  *)
(* only after an alert, a block lasts until the indexer answers, and an    *)
(* outage on dipper's side blocks nobody.                                  *)
THEOREM DipsSound ==
  DipsSpec => /\ [](DipsTypeOK /\ CountsWhatPassed /\ AlertBeforeBlock)
              /\ [][BlockOutlasts /\ OutageBlocksNobody]_dipsVars
  BY InitDipsInv, DipsStepKeeps, DipsHolds, PTL DEF DipsSpec

-----------------------------------------------------------------------------
(* The configuration.                                                      *)

Fits(section, values) ==
  /\ DOMAIN section = DOMAIN values
  /\ \A f \in DOMAIN values : section[f] \in values[f]

(* A file has every section, and each setting a value it may take.         *)
FileTyped(c) ==
  /\ DOMAIN c = DOMAIN Settings
  /\ \A s \in DOMAIN Settings : Fits(c[s], Settings[s])

(* SectionsFit. The defaults of each section.                              *)
LEMMA SectionsFit ==
  /\ Fits(AlertsDefault, AlertsConfig) /\ Fits(HealthDefault, HealthConfig)
  /\ Fits(IisaDefault, IisaConfig) /\ Fits(IndexerClientDefault, IndexerClientConfig)
  /\ Fits(ReassignmentDefault, ReassignmentConfig) /\ Fits(ExpirationDefault, ExpirationConfig)
  /\ Fits(EscrowReconcilerDefault, EscrowReconcilerConfig)
  /\ Fits(LivenessCheckerDefault, LivenessCheckerConfig)
  /\ Fits(DipsInfoWatcherDefault, DipsInfoWatcherConfig)
  /\ Fits(ChainListenerDefault, ChainListenerConfig)
  /\ Fits(ChainClientDefault, ChainClientConfig)
  /\ Fits(DipsAgreementDefault, DipsAgreementConfig)
  /\ Fits(EventStreamingDefault, EventStreamingConfig) /\ Fits(RestDefault, RestConfig)
<1>1. Fits(AlertsDefault, AlertsConfig)
  <2>. DEFINE N == {"webhook", "events", "throttle"}
  <2>1. DOMAIN AlertsDefault = N /\ DOMAIN AlertsConfig = N
    BY DEF AlertsDefault, AlertsConfig
  <2>2. /\ AlertsDefault.webhook \in AlertsConfig.webhook
        /\ AlertsDefault.events \in AlertsConfig.events
        /\ AlertsDefault.throttle \in AlertsConfig.throttle
    BY DEF AlertsDefault, AlertsConfig
  <2>. QED BY <2>1, <2>2 DEF Fits
<1>2. Fits(HealthDefault, HealthConfig)
  <2>. DEFINE N == {"enabled", "port", "threshold"}
  <2>1. DOMAIN HealthDefault = N /\ DOMAIN HealthConfig = N
    BY DEF HealthDefault, HealthConfig
  <2>2. /\ HealthDefault.enabled \in HealthConfig.enabled
        /\ HealthDefault.port \in HealthConfig.port
        /\ HealthDefault.threshold \in HealthConfig.threshold
    BY DEF HealthDefault, HealthConfig, JobBackstop
  <2>. QED BY <2>1, <2>2 DEF Fits
<1>3. Fits(IisaDefault, IisaConfig)
  BY DEF Fits, IisaDefault, IisaConfig
<1>4. Fits(IndexerClientDefault, IndexerClientConfig)
  BY DEF Fits, IndexerClientDefault, IndexerClientConfig
<1>5. Fits(ReassignmentDefault, ReassignmentConfig)
  <2>. DEFINE N == {"present", "enabled", "interval", "hour", "batch", "minAge", "topUp"}
  <2>1. DOMAIN ReassignmentDefault = N /\ DOMAIN ReassignmentConfig = N
    BY DEF ReassignmentDefault, ReassignmentConfig
  <2>2. /\ ReassignmentDefault.present \in ReassignmentConfig.present
        /\ ReassignmentDefault.enabled \in ReassignmentConfig.enabled
        /\ ReassignmentDefault.interval \in ReassignmentConfig.interval
        /\ ReassignmentDefault.hour \in ReassignmentConfig.hour
        /\ ReassignmentDefault.batch \in ReassignmentConfig.batch
        /\ ReassignmentDefault.minAge \in ReassignmentConfig.minAge
        /\ ReassignmentDefault.topUp \in ReassignmentConfig.topUp
    BY DEF ReassignmentDefault, ReassignmentConfig
  <2>. QED BY <2>1, <2>2 DEF Fits
<1>6. Fits(ExpirationDefault, ExpirationConfig)
  <2>. DEFINE N == {"present", "enabled", "interval", "batch", "grace"}
  <2>1. DOMAIN ExpirationDefault = N /\ DOMAIN ExpirationConfig = N
    BY DEF ExpirationDefault, ExpirationConfig
  <2>2. /\ ExpirationDefault.present \in ExpirationConfig.present
        /\ ExpirationDefault.enabled \in ExpirationConfig.enabled
        /\ ExpirationDefault.interval \in ExpirationConfig.interval
        /\ ExpirationDefault.batch \in ExpirationConfig.batch
        /\ ExpirationDefault.grace \in ExpirationConfig.grace
    BY DEF ExpirationDefault, ExpirationConfig
  <2>. QED BY <2>1, <2>2 DEF Fits
<1>7. Fits(EscrowReconcilerDefault, EscrowReconcilerConfig)
  <2>. DEFINE N == {"present", "enabled", "interval", "batch", "rebalance", "perSweep"}
  <2>1. DOMAIN EscrowReconcilerDefault = N /\ DOMAIN EscrowReconcilerConfig = N
    BY DEF EscrowReconcilerDefault, EscrowReconcilerConfig
  <2>2. /\ EscrowReconcilerDefault.present \in EscrowReconcilerConfig.present
        /\ EscrowReconcilerDefault.enabled \in EscrowReconcilerConfig.enabled
        /\ EscrowReconcilerDefault.interval \in EscrowReconcilerConfig.interval
        /\ EscrowReconcilerDefault.batch \in EscrowReconcilerConfig.batch
        /\ EscrowReconcilerDefault.rebalance \in EscrowReconcilerConfig.rebalance
        /\ EscrowReconcilerDefault.perSweep \in EscrowReconcilerConfig.perSweep
    BY DEF EscrowReconcilerDefault, EscrowReconcilerConfig
  <2>. QED BY <2>1, <2>2 DEF Fits
<1>8. Fits(LivenessCheckerDefault, LivenessCheckerConfig)
  <2>. DEFINE N == {"present", "enabled", "interval", "tolerance", "timeout", "batch",
         "tripPercent", "tripMin"}
  <2>1. DOMAIN LivenessCheckerDefault = N /\ DOMAIN LivenessCheckerConfig = N
    BY DEF LivenessCheckerDefault, LivenessCheckerConfig
  <2>2. /\ LivenessCheckerDefault.present \in LivenessCheckerConfig.present
        /\ LivenessCheckerDefault.enabled \in LivenessCheckerConfig.enabled
        /\ LivenessCheckerDefault.interval \in LivenessCheckerConfig.interval
        /\ LivenessCheckerDefault.tolerance \in LivenessCheckerConfig.tolerance
        /\ LivenessCheckerDefault.timeout \in LivenessCheckerConfig.timeout
        /\ LivenessCheckerDefault.batch \in LivenessCheckerConfig.batch
        /\ LivenessCheckerDefault.tripPercent \in LivenessCheckerConfig.tripPercent
        /\ LivenessCheckerDefault.tripMin \in LivenessCheckerConfig.tripMin
    BY DEF LivenessCheckerDefault, LivenessCheckerConfig
  <2>. QED BY <2>1, <2>2 DEF Fits
<1>9. Fits(DipsInfoWatcherDefault, DipsInfoWatcherConfig)
  <2>. DEFINE N == {"present", "enabled", "interval", "alert", "denylist", "timeout", "atOnce",
         "tripPercent", "tripMin"}
  <2>1. DOMAIN DipsInfoWatcherDefault = N /\ DOMAIN DipsInfoWatcherConfig = N
    BY DEF DipsInfoWatcherDefault, DipsInfoWatcherConfig
  <2>2. /\ DipsInfoWatcherDefault.present \in DipsInfoWatcherConfig.present
        /\ DipsInfoWatcherDefault.enabled \in DipsInfoWatcherConfig.enabled
        /\ DipsInfoWatcherDefault.interval \in DipsInfoWatcherConfig.interval
        /\ DipsInfoWatcherDefault.alert \in DipsInfoWatcherConfig.alert
        /\ DipsInfoWatcherDefault.denylist \in DipsInfoWatcherConfig.denylist
        /\ DipsInfoWatcherDefault.timeout \in DipsInfoWatcherConfig.timeout
        /\ DipsInfoWatcherDefault.atOnce \in DipsInfoWatcherConfig.atOnce
        /\ DipsInfoWatcherDefault.tripPercent \in DipsInfoWatcherConfig.tripPercent
        /\ DipsInfoWatcherDefault.tripMin \in DipsInfoWatcherConfig.tripMin
    BY DEF DipsInfoWatcherDefault, DipsInfoWatcherConfig
  <2>. QED BY <2>1, <2>2 DEF Fits
<1>10. Fits(ChainListenerDefault, ChainListenerConfig)
  <2>. DEFINE N == {"present", "enabled", "poll", "timeout", "maxRetries", "reorgBuffer", "skew",
         "drift", "bypass"}
  <2>1. DOMAIN ChainListenerDefault = N /\ DOMAIN ChainListenerConfig = N
    BY DEF ChainListenerDefault, ChainListenerConfig
  <2>2. /\ ChainListenerDefault.present \in ChainListenerConfig.present
        /\ ChainListenerDefault.enabled \in ChainListenerConfig.enabled
        /\ ChainListenerDefault.poll \in ChainListenerConfig.poll
        /\ ChainListenerDefault.timeout \in ChainListenerConfig.timeout
        /\ ChainListenerDefault.maxRetries \in ChainListenerConfig.maxRetries
        /\ ChainListenerDefault.reorgBuffer \in ChainListenerConfig.reorgBuffer
        /\ ChainListenerDefault.skew \in ChainListenerConfig.skew
        /\ ChainListenerDefault.drift \in ChainListenerConfig.drift
        /\ ChainListenerDefault.bypass \in ChainListenerConfig.bypass
    BY DEF ChainListenerDefault, ChainListenerConfig
  <2>. QED BY <2>1, <2>2 DEF Fits
<1>11. Fits(ChainClientDefault, ChainClientConfig)
  <2>. DEFINE N == {"present", "enabled", "providers", "timeout", "maxRetries", "refresh",
         "gasPercent", "gasFloor", "gasAddition"}
  <2>1. DOMAIN ChainClientDefault = N /\ DOMAIN ChainClientConfig = N
    BY DEF ChainClientDefault, ChainClientConfig
  <2>2. /\ ChainClientDefault.present \in ChainClientConfig.present
        /\ ChainClientDefault.enabled \in ChainClientConfig.enabled
        /\ ChainClientDefault.providers \in ChainClientConfig.providers
        /\ ChainClientDefault.timeout \in ChainClientConfig.timeout
        /\ ChainClientDefault.maxRetries \in ChainClientConfig.maxRetries
        /\ ChainClientDefault.refresh \in ChainClientConfig.refresh
        /\ ChainClientDefault.gasPercent \in ChainClientConfig.gasPercent
        /\ ChainClientDefault.gasFloor \in ChainClientConfig.gasFloor
        /\ ChainClientDefault.gasAddition \in ChainClientConfig.gasAddition
    BY DEF ChainClientDefault, ChainClientConfig
  <2>. QED BY <2>1, <2>2 DEF Fits
<1>12. Fits(DipsAgreementDefault, DipsAgreementConfig)
  <2>. DEFINE N == {"manager", "minSeconds", "maxSeconds", "duration", "deadline", "agreementCap",
         "chainCap", "fallbackCap", "entityCap", "resetPercent", "tripPercent",
         "perIndexer", "total"}
  <2>1. DOMAIN DipsAgreementDefault = N /\ DOMAIN DipsAgreementConfig = N
    BY DEF DipsAgreementDefault, DipsAgreementConfig
  <2>2. /\ DipsAgreementDefault.manager \in DipsAgreementConfig.manager
        /\ DipsAgreementDefault.minSeconds \in DipsAgreementConfig.minSeconds
        /\ DipsAgreementDefault.maxSeconds \in DipsAgreementConfig.maxSeconds
        /\ DipsAgreementDefault.duration \in DipsAgreementConfig.duration
        /\ DipsAgreementDefault.deadline \in DipsAgreementConfig.deadline
        /\ DipsAgreementDefault.agreementCap \in DipsAgreementConfig.agreementCap
        /\ DipsAgreementDefault.chainCap \in DipsAgreementConfig.chainCap
        /\ DipsAgreementDefault.fallbackCap \in DipsAgreementConfig.fallbackCap
        /\ DipsAgreementDefault.entityCap \in DipsAgreementConfig.entityCap
        /\ DipsAgreementDefault.resetPercent \in DipsAgreementConfig.resetPercent
        /\ DipsAgreementDefault.tripPercent \in DipsAgreementConfig.tripPercent
        /\ DipsAgreementDefault.perIndexer \in DipsAgreementConfig.perIndexer
        /\ DipsAgreementDefault.total \in DipsAgreementConfig.total
    BY DEF DipsAgreementDefault, DipsAgreementConfig, NoValue
  <2>. QED BY <2>1, <2>2 DEF Fits
<1>13. Fits(EventStreamingDefault, EventStreamingConfig)
  <2>. DEFINE N == {"enabled", "capacity", "kafka"}
  <2>1. DOMAIN EventStreamingDefault = N /\ DOMAIN EventStreamingConfig = N
    BY DEF EventStreamingDefault, EventStreamingConfig
  <2>2. /\ EventStreamingDefault.enabled \in EventStreamingConfig.enabled
        /\ EventStreamingDefault.capacity \in EventStreamingConfig.capacity
        /\ EventStreamingDefault.kafka \in EventStreamingConfig.kafka
    BY DEF EventStreamingDefault, EventStreamingConfig
  <2>. QED BY <2>1, <2>2 DEF Fits
<1>14. Fits(RestDefault, RestConfig)
  <2>. DEFINE N == {"adminPort", "loops", "maxConns", "urls", "unknownKey"}
  <2>1. DOMAIN RestDefault = N /\ DOMAIN RestConfig = N
    BY DEF RestDefault, RestConfig
  <2>2. /\ RestDefault.adminPort \in RestConfig.adminPort
        /\ RestDefault.loops \in RestConfig.loops
        /\ RestDefault.maxConns \in RestConfig.maxConns
        /\ RestDefault.urls \in RestConfig.urls
        /\ RestDefault.unknownKey \in RestConfig.unknownKey
    BY DEF RestDefault, RestConfig, NoValue
  <2>. QED BY <2>1, <2>2 DEF Fits
<1>. QED BY <1>1, <1>2, <1>3, <1>4, <1>5, <1>6, <1>7, <1>8, <1>9, <1>10, <1>11, <1>12, <1>13, <1>14

(* WrittenTyped. The file before it is edited.                             *)
LEMMA WrittenTyped == FileTyped(Written)
<1>1. DOMAIN Written = DOMAIN Settings
  BY DEF Written, Settings
<1>2. ASSUME NEW s \in DOMAIN Settings
      PROVE  Fits(Written[s], Settings[s])
  <2>1. s \in {"alerts", "health", "iisa", "indexerClient", "reassignment", "expiration",
               "escrow", "liveness", "watcher", "listener", "chainClient", "dips", "streaming",
               "rest"}
    BY <1>2 DEF Settings
  <2>2. CASE s \in {"alerts", "health", "iisa", "indexerClient"}
    BY <2>2, SectionsFit DEF Written, Settings
  <2>3. CASE s \in {"reassignment", "expiration", "escrow", "liveness"}
    BY <2>3, SectionsFit DEF Written, Settings
  <2>4. CASE s \in {"watcher", "listener", "chainClient", "dips"}
    BY <2>4, SectionsFit DEF Written, Settings
  <2>5. CASE s \in {"streaming", "rest"}
    BY <2>5, SectionsFit DEF Written, Settings
  <2>. QED BY <2>1, <2>2, <2>3, <2>4, <2>5
<1>. QED BY <1>1, <1>2 DEF FileTyped

(* Switches. A section that may be left out has a switch as well.          *)
LEMMA Switches ==
  ASSUME NEW s \in DOMAIN Settings, "present" \in DOMAIN Settings[s]
  PROVE  TRUE \in Settings[s]["present"] /\ TRUE \in Settings[s]["enabled"]
<1>1. s \in {"alerts", "health", "iisa", "indexerClient", "reassignment", "expiration",
             "escrow", "liveness", "watcher", "listener", "chainClient", "dips", "streaming",
             "rest"}
  BY DEF Settings
<1>2. s \notin {"alerts", "health", "iisa", "indexerClient"}
  BY DEF Settings, AlertsConfig, HealthConfig, IisaConfig, IndexerClientConfig
<1>3. s \notin {"dips", "streaming", "rest"}
  BY DEF Settings, DipsAgreementConfig, EventStreamingConfig, RestConfig
<1>4. ASSUME NEW x \in {ReassignmentConfig, ExpirationConfig, EscrowReconcilerConfig,
                        LivenessCheckerConfig, DipsInfoWatcherConfig, ChainListenerConfig,
                        ChainClientConfig}
      PROVE  x["present"] = BOOLEAN /\ x["enabled"] = BOOLEAN
  BY DEF ReassignmentConfig, ExpirationConfig, EscrowReconcilerConfig, LivenessCheckerConfig,
         DipsInfoWatcherConfig, ChainListenerConfig, ChainClientConfig
<1>5. Settings[s] \in {ReassignmentConfig, ExpirationConfig, EscrowReconcilerConfig,
                       LivenessCheckerConfig, DipsInfoWatcherConfig, ChainListenerConfig,
                       ChainClientConfig}
  BY <1>1, <1>2, <1>3 DEF Settings
<1>6. Settings[s]["present"] = BOOLEAN /\ Settings[s]["enabled"] = BOOLEAN
  BY <1>4, <1>5
<1>. QED BY <1>6, Zenon

(* FullTyped. The same with the optional services turned on.               *)
LEMMA FullTyped == FileTyped(WrittenInFull)
<1>1. DOMAIN WrittenInFull = DOMAIN Settings
  BY WrittenTyped DEF WrittenInFull, FileTyped
<1>2. ASSUME NEW s \in DOMAIN Settings
      PROVE  Fits(WrittenInFull[s], Settings[s])
  <2>1. Fits(Written[s], Settings[s]) /\ s \in DOMAIN Written
    BY WrittenTyped DEF FileTyped
  <2>2. CASE "present" \notin DOMAIN Written[s]
    BY <2>1, <2>2 DEF WrittenInFull
  <2>3. CASE "present" \in DOMAIN Written[s]
    <3>1. WrittenInFull[s] = [Written[s] EXCEPT !.present = TRUE, !.enabled = TRUE]
      BY <2>1, <2>3 DEF WrittenInFull
    <3>2. TRUE \in Settings[s]["present"] /\ TRUE \in Settings[s]["enabled"]
      BY <2>1, <2>3, Switches DEF Fits
    <3>. QED BY <2>1, <3>1, <3>2 DEF Fits
  <2>. QED BY <2>2, <2>3
<1>. QED BY <1>1, <1>2 DEF FileTyped

(* EditTyped. A setting that is written has a value it may take.           *)
LEMMA EditTyped ==
  ASSUME NEW c, FileTyped(c), NEW s \in DOMAIN Settings, NEW f \in DOMAIN Settings[s],
         NEW v \in Settings[s][f]
  PROVE  FileTyped([c EXCEPT ![s][f] = v])
<1>. DEFINE e == [c EXCEPT ![s][f] = v]
<1>1. DOMAIN e = DOMAIN Settings
  BY DEF FileTyped
<1>2. ASSUME NEW t \in DOMAIN Settings
      PROVE  Fits(e[t], Settings[t])
  <2>1. Fits(c[t], Settings[t])
    BY DEF FileTyped
  <2>2. CASE t # s
    <3>1. e[t] = c[t]
      BY <2>2 DEF FileTyped
    <3>. QED BY <2>1, <3>1
  <2>3. CASE t = s
    <3>1. e[t] = [c[t] EXCEPT ![f] = v]
      BY <2>3 DEF FileTyped
    <3>. QED BY <2>1, <2>3, <3>1 DEF Fits
  <2>. QED BY <2>2, <2>3
<1>. QED BY <1>1, <1>2 DEF FileTyped

(* SettingIs. The value of a setting.                                      *)
LEMMA SettingIs ==
  ASSUME NEW c, FileTyped(c)
  PROVE  /\ c.dips.minSeconds \in {60, 3600} /\ c.dips.deadline \in {0, 600, 3600}
         /\ c.dips.duration \in {-1, 600, 1259, 1260, 4799, 4800}
         /\ c.dips.perIndexer \in {-1, 0, 5, 101} /\ c.dips.total \in {-1, 0, 4, 100}
         /\ c.chainClient.gasPercent \in {50, 200} /\ c.chainClient.gasFloor \in {0, 100000}
         /\ c.chainClient.gasAddition \in {0, 200000}
         /\ c.rest.loops \in {0, 8, 11} /\ c.rest.maxConns \in {-1, 25, 26}
         /\ c.watcher.interval \in {0, 300, Day, Day + 1}
<1>1. Fits(c["dips"], Settings["dips"]) /\ Settings["dips"] = DipsAgreementConfig
  BY DEF FileTyped, Settings
<1>2. Fits(c["chainClient"], Settings["chainClient"]) /\ Settings["chainClient"] = ChainClientConfig
  BY DEF FileTyped, Settings
<1>3. Fits(c["rest"], Settings["rest"]) /\ Settings["rest"] = RestConfig
  BY DEF FileTyped, Settings
<1>4. Fits(c["watcher"], Settings["watcher"]) /\ Settings["watcher"] = DipsInfoWatcherConfig
  BY DEF FileTyped, Settings
<1>5. /\ c.dips.minSeconds \in {60, 3600} /\ c.dips.deadline \in {0, 600, 3600}
      /\ c.dips.duration \in {-1, 600, 1259, 1260, 4799, 4800}
      /\ c.dips.perIndexer \in {-1, 0, 5, 101} /\ c.dips.total \in {-1, 0, 4, 100}
  BY <1>1 DEF Fits, DipsAgreementConfig, NoValue
<1>6. /\ c.chainClient.gasPercent \in {50, 200} /\ c.chainClient.gasFloor \in {0, 100000}
      /\ c.chainClient.gasAddition \in {0, 200000}
  BY <1>2 DEF Fits, ChainClientConfig
<1>7. c.rest.loops \in {0, 8, 11} /\ c.rest.maxConns \in {-1, 25, 26}
  BY <1>3 DEF Fits, RestConfig, NoValue
<1>8. c.watcher.interval \in {0, 300, Day, Day + 1}
  BY <1>4 DEF Fits, DipsInfoWatcherConfig
<1>. QED BY <1>5, <1>6, <1>7, <1>8

-----------------------------------------------------------------------------
(* What has passed the checks, and what it commits dipper to.              *)

Started == {"valid", "built", "bound", "up", "down"}

(* A configuration is past a check only when the check accepted it, and    *)
(* stays as it was then.                                                   *)
ChecksSound ==
  /\ cfAt \in Started \cup {"parsed"} => Parses(cfFile)
  /\ cfAt \in Started => Valid(cfFile) /\ cfTerms = RuntimeTerms(cfFile.dips)
  /\ cfAt \in Started \ {"valid"} => Builds(cfFile)
  /\ cfWhy # "none" => cfWhy \in Fails(cfFile)
  /\ cfAt \in {"edit", "parsed"} => cfTerms = NoTerms
  /\ cfTerms \in {NoTerms, RuntimeTerms(cfFile.dips)}

(* An offer has the terms of the running configuration.                    *)
OfferSound ==
  \/ cfOffer = NoOffer /\ cfTaken = NoValue
  \/ /\ cfAt = "up"
     /\ \E now \in {0, Day} :
          cfOffer = [deadline |-> SaturatingAdd(now, cfTerms.deadline),
                     ends     |-> SaturatingAdd(now, cfTerms.duration)]
     /\ cfTaken \in -1 .. cfOffer.deadline

(* So has the gas limit.                                                   *)
GasSound ==
  \/ cfGas = NoGas
  \/ \E e \in Estimates :
       cfAt = "up" /\ cfGas = [estimate |-> e, limit |-> GasLimit(cfFile.chainClient, e)]

PlacesTyped ==
  /\ cfEdits \in 0 .. MaxEdits
  /\ cfAt \in {"edit", "parsed", "valid", "built", "bound", "up", "refused", "down"}
  /\ (cfWhy # "none") = (cfAt = "down")

ConfigInv == FileTyped(cfFile) /\ PlacesTyped /\ ChecksSound /\ OfferSound /\ GasSound

(* U64Is. What the arithmetic uses of the largest u64.                     *)
LEMMA U64Is == U64Max \in Nat /\ 200000 <= U64Max
  BY SMT DEF U64Max

(* TermsTyped. The terms of a configuration.                               *)
LEMMA TermsTyped ==
  ASSUME NEW c, FileTyped(c)
  PROVE  /\ RuntimeTerms(c.dips).duration \in 0 .. U64Max
         /\ RuntimeTerms(c.dips).deadline \in 0 .. U64Max
         /\ RuntimeTerms(c.dips) \in IndexingAgreementConfig
<1>1. c.dips.deadline \in 0 .. U64Max
  BY SettingIs, U64Is, SMT
<1>2. (IF c.dips.duration = NoValue THEN U64Max ELSE c.dips.duration) \in 0 .. U64Max
  BY SettingIs, U64Is, SMT DEF NoValue
<1>. QED BY <1>1, <1>2 DEF RuntimeTerms, IndexingAgreementConfig

(* AddIs. A saturating addition.                                           *)
LEMMA AddIs ==
  ASSUME NEW a \in Nat, NEW b \in Nat
  PROVE  SaturatingAdd(a, b) = IF a + b <= U64Max THEN a + b ELSE U64Max
<1>1. a + b \in Int /\ U64Max \in Int
  BY U64Is
<1>. QED BY <1>1, SmallerOfTwo DEF SaturatingAdd

(* AddBounds. It is at most the sum and the largest number.                *)
LEMMA AddBounds ==
  ASSUME NEW a \in Nat, NEW b \in Nat
  PROVE  /\ SaturatingAdd(a, b) \in Nat /\ SaturatingAdd(a, b) <= U64Max
         /\ SaturatingAdd(a, b) <= a + b
  BY AddIs, U64Is

(* GasIs. The limit for an estimate.                                       *)
LEMMA GasIs ==
  ASSUME NEW c, FileTyped(c), NEW e \in 0 .. U64Max
  PROVE  LET g == c.chainClient
             limit == GasLimit(g, e)
         IN /\ limit \in 0 .. U64Max /\ limit >= g.gasFloor
            /\ limit <= Max({g.gasFloor, e + g.gasAddition})
            /\ g.gasPercent >= 100 => limit >= e
<1>1. PICK floor \in {0, 100000}, percent \in {50, 200}, more \in {0, 200000} :
        /\ floor = c.chainClient.gasFloor /\ percent = c.chainClient.gasPercent
        /\ more = c.chainClient.gasAddition
  BY SettingIs
<1>2. e \in Nat /\ e <= U64Max /\ U64Max \in Nat /\ 100000 <= U64Max
  BY U64Is, SMT
<1>3. PICK part \in Nat : part = (e * percent) \div 100 /\ (percent = 200 => part >= e)
  <2>1. e * percent \in Nat
    BY <1>1, <1>2
  <2>2. /\ (e * percent) \div 100 \in Nat
        /\ e * percent < 100 * ((e * percent) \div 100) + 100
    BY <2>1, DivIs
  <2>3. percent = 200 => (e * percent) \div 100 >= e
    BY <1>2, <2>2
  <2>. QED BY <2>2, <2>3
<1>4. PICK top \in Nat : /\ top = SaturatingAdd(e, more) /\ top <= U64Max /\ top <= e + more
                         /\ e <= top
  BY <1>1, <1>2, AddIs
<1>5. PICK least \in Nat : /\ least = Min({part, top}) /\ least <= top /\ least <= part
                           /\ least = part \/ least = top
  BY SmallerOfTwo
<1>6. GasLimit(c.chainClient, e) = Max({floor, least})
  BY <1>1, <1>3, <1>4, <1>5 DEF GasLimit
<1>7. PICK limit \in Nat : /\ limit = Max({floor, least}) /\ limit >= floor /\ limit >= least
                           /\ limit = floor \/ limit = least
  BY <1>1, LargerOfTwo
<1>8. PICK most \in Nat : /\ most = Max({floor, e + more}) /\ most >= floor /\ most >= e + more
  <2>1. e + more \in Nat
    BY <1>1, <1>2
  <2>. QED BY <1>1, <2>1, LargerOfTwo
<1>9. limit \in 0 .. U64Max /\ limit <= most /\ (percent >= 100 => limit >= e)
  BY <1>1, <1>2, <1>3, <1>4, <1>5, <1>7, <1>8
<1>. QED BY <1>1, <1>6, <1>7, <1>8, <1>9

(* RoomIs. What is accepted by the deadline leaves the room between the    *)
(* deadline and the end.                                                   *)
LEMMA RoomIs ==
  ASSUME NEW now \in Nat, NEW wait \in Nat, NEW dur \in Nat, NEW least \in Nat, NEW taken \in Nat,
         taken <= SaturatingAdd(now, wait), dur = U64Max \/ dur - wait >= least + 600
  PROVE  SaturatingAdd(taken, least + 600) <= SaturatingAdd(now, dur)
<1>1. least + 600 \in Nat /\ U64Max \in Nat
  BY U64Is
<1>2. SaturatingAdd(now, wait) = IF now + wait <= U64Max THEN now + wait ELSE U64Max
  BY AddIs
<1>3. SaturatingAdd(now, dur) = IF now + dur <= U64Max THEN now + dur ELSE U64Max
  BY AddIs
<1>4. SaturatingAdd(taken, least + 600)
        = IF taken + (least + 600) <= U64Max THEN taken + (least + 600) ELSE U64Max
  BY <1>1, AddIs
<1>. QED BY <1>1, <1>2, <1>3, <1>4

(* OfferIs. The terms of an offer that was made.                           *)
LEMMA OfferIs ==
  ASSUME NEW c, FileTyped(c), CollectionFitsWindow(c.dips), NEW now \in {0, Day},
         NEW taken \in Int, NEW terms, terms = RuntimeTerms(c.dips),
         taken >= -1, taken <= SaturatingAdd(now, terms.deadline)
  PROVE  /\ SaturatingAdd(now, terms.deadline) \in 0 .. U64Max
         /\ SaturatingAdd(now, terms.duration) \in 0 .. U64Max
         /\ taken >= 0 => SaturatingAdd(taken, c.dips.minSeconds + CollectionWindow)
                            <= SaturatingAdd(now, terms.duration)
<1>1. PICK least \in Nat, wait \in Nat, len \in {-1, 600, 1259, 1260, 4799, 4800} :
        /\ least = c.dips.minSeconds /\ wait = c.dips.deadline /\ len = c.dips.duration
  BY SettingIs, SMT
<1>2. now \in Nat /\ U64Max \in Nat
  BY U64Is, SMT DEF Day
<1>3. PICK dur \in Nat : /\ dur = terms.duration
                         /\ len = -1 => dur = U64Max
                         /\ len # -1 => dur = len /\ dur - wait >= least + 600
  <2>1. CASE len = -1
    BY <1>1, <1>2, <2>1 DEF RuntimeTerms, NoValue
  <2>2. CASE len # -1
    BY <1>1, <2>2 DEF RuntimeTerms, NoValue, CollectionFitsWindow, CollectionWindow
  <2>. QED BY <2>1, <2>2
<1>4. terms.deadline = wait
  BY <1>1 DEF RuntimeTerms
<1>5. PICK till \in Nat : /\ till = SaturatingAdd(now, terms.deadline) /\ till <= U64Max
                          /\ till <= now + wait
  <2>1. wait \in Nat /\ now \in Nat
    BY <1>1, <1>2
  <2>. QED BY <1>4, <2>1, AddBounds
<1>6. PICK ends \in Nat : /\ ends = SaturatingAdd(now, terms.duration) /\ ends <= U64Max
                          /\ ends = U64Max \/ ends = now + dur
                          /\ dur = U64Max => ends = U64Max
  BY <1>2, <1>3, AddIs
<1>7. ASSUME taken >= 0
      PROVE  SaturatingAdd(taken, c.dips.minSeconds + CollectionWindow) <= ends
  <2>1. taken \in Nat /\ c.dips.minSeconds + CollectionWindow = least + 600
    BY <1>1, <1>7 DEF CollectionWindow
  <2>2. taken <= SaturatingAdd(now, wait) /\ (dur = U64Max \/ dur - wait >= least + 600)
    BY <1>1, <1>3, <1>4
  <2>3. SaturatingAdd(taken, least + 600) <= SaturatingAdd(now, dur)
    BY <1>2, <2>1, <2>2, RoomIs
  <2>. QED BY <1>3, <1>6, <2>1, <2>3
<1>. QED BY <1>2, <1>5, <1>6, <1>7

(* ConfigTypes. The invariant is at least the types.                       *)
LEMMA ConfigTypes == ConfigInv => ConfigurationTypeOK
<1>. SUFFICES ASSUME ConfigInv
              PROVE  ConfigurationTypeOK
  OBVIOUS
<1>1. \A s \in DOMAIN Settings : \A f \in DOMAIN Settings[s] : cfFile[s][f] \in Settings[s][f]
  BY DEF ConfigInv, FileTyped, Fits
<1>2. cfTerms \in IndexingAgreementConfig
  <2>1. NoTerms \in IndexingAgreementConfig
    BY U64Is DEF NoTerms, IndexingAgreementConfig
  <2>. QED BY <2>1, TermsTyped DEF ConfigInv, ChecksSound
<1>3. cfGas.limit \in 0 .. U64Max
  <2>1. CASE cfGas = NoGas
    BY <2>1, U64Is DEF NoGas
  <2>2. CASE cfGas # NoGas
    <3>1. PICK e \in Estimates : cfGas = [estimate |-> e, limit |-> GasLimit(cfFile.chainClient, e)]
      BY <2>2 DEF ConfigInv, GasSound
    <3>2. e \in 0 .. U64Max
      BY ConfigurationAssumption
    <3>3. GasLimit(cfFile.chainClient, e) \in 0 .. U64Max
      BY <3>2, GasIs DEF ConfigInv
    <3>. QED BY <3>1, <3>3
  <2>. QED BY <2>1, <2>2
<1>4. /\ cfOffer.ends \in -1 .. U64Max /\ cfOffer.deadline \in -1 .. U64Max
      /\ cfTaken \in -1 .. cfOffer.deadline
  <2>1. CASE cfOffer = NoOffer /\ cfTaken = NoValue
    BY <2>1, U64Is DEF NoOffer, NoValue
  <2>2. CASE ~(cfOffer = NoOffer /\ cfTaken = NoValue)
    <3>1. /\ cfAt = "up" /\ cfTaken \in -1 .. cfOffer.deadline
          /\ \E now \in {0, Day} :
               cfOffer = [deadline |-> SaturatingAdd(now, cfTerms.deadline),
                          ends     |-> SaturatingAdd(now, cfTerms.duration)]
      BY <2>2 DEF ConfigInv, OfferSound
    <3>2. PICK now \in {0, Day} :
            cfOffer = [deadline |-> SaturatingAdd(now, cfTerms.deadline),
                       ends     |-> SaturatingAdd(now, cfTerms.duration)]
      BY <3>1
    <3>3. cfTerms.deadline \in 0 .. U64Max /\ cfTerms.duration \in 0 .. U64Max
      BY <3>1, TermsTyped DEF ConfigInv, ChecksSound, Started
    <3>4. /\ SaturatingAdd(now, cfTerms.deadline) \in 0 .. U64Max
          /\ SaturatingAdd(now, cfTerms.duration) \in 0 .. U64Max
      <4>1. now \in Nat
        BY SMT DEF Day
      <4>. QED BY <3>3, <4>1, U64Is, AddIs
    <3>5. cfOffer.ends \in -1 .. U64Max /\ cfOffer.deadline \in -1 .. U64Max
      BY <3>2, <3>4, U64Is
    <3>. QED BY <3>1, <3>5
  <2>. QED BY <2>1, <2>2
<1>. QED BY <1>1, <1>2, <1>3, <1>4 DEF ConfigInv, PlacesTyped, ConfigurationTypeOK

(* CollectionHolds. An accepted configuration leaves room to collect.      *)
LEMMA CollectionHolds == ConfigInv => CollectionFits
<1>. SUFFICES ASSUME ConfigInv, cfTaken # NoValue
              PROVE  SaturatingAdd(cfTaken, cfFile.dips.minSeconds + CollectionWindow)
                       <= cfOffer.ends
  BY DEF CollectionFits
<1>1. /\ cfAt = "up" /\ cfTaken \in -1 .. cfOffer.deadline
      /\ \E now \in {0, Day} :
           cfOffer = [deadline |-> SaturatingAdd(now, cfTerms.deadline),
                      ends     |-> SaturatingAdd(now, cfTerms.duration)]
  BY DEF ConfigInv, OfferSound
<1>2. PICK now \in {0, Day} :
        cfOffer = [deadline |-> SaturatingAdd(now, cfTerms.deadline),
                   ends     |-> SaturatingAdd(now, cfTerms.duration)]
  BY <1>1
<1>3. /\ cfTerms = RuntimeTerms(cfFile.dips) /\ CollectionFitsWindow(cfFile.dips)
      /\ FileTyped(cfFile)
  BY <1>1 DEF ConfigInv, ChecksSound, Started, Valid, DipsValid
<1>4. cfOffer.deadline \in Int /\ cfOffer.deadline = SaturatingAdd(now, cfTerms.deadline)
  BY <1>2, ConfigTypes, U64Is DEF ConfigurationTypeOK
<1>5. cfTaken \in Int /\ cfTaken >= 0 /\ cfTaken <= SaturatingAdd(now, cfTerms.deadline)
  BY <1>1, <1>4 DEF NoValue
<1>6. cfOffer.ends = SaturatingAdd(now, cfTerms.duration)
  BY <1>2
<1>. QED BY <1>3, <1>5, <1>6, OfferIs

(* AssumedHolds. It meets what the other modules assume.                   *)
LEMMA AssumedHolds == ConfigInv => RunsAsAssumed
<1>. SUFFICES ASSUME ConfigInv, cfAt \in {"built", "bound", "up", "down"}
              PROVE  RunsAsAssumed
  BY DEF RunsAsAssumed
<1>1. Parses(cfFile) /\ Valid(cfFile) /\ Builds(cfFile) /\ FileTyped(cfFile)
  BY DEF ConfigInv, ChecksSound, Started
<1>2. "watcher" \in Spawned(cfFile) => cfFile.watcher.present /\ cfFile.watcher.enabled
  BY DEF Spawned
<1>3. "liveness" \in Spawned(cfFile) => cfFile.liveness.present /\ cfFile.liveness.enabled
  BY DEF Spawned
<1>4. "watcher" \in Spawned(cfFile) =>
        /\ cfFile.watcher.alert > 0 /\ cfFile.watcher.denylist > cfFile.watcher.alert
        /\ cfFile.watcher.tripPercent \in 1 .. 100
  BY <1>1, <1>2 DEF Valid, WatcherValid
<1>5. "liveness" \in Spawned(cfFile) => cfFile.liveness.tripPercent \in 1 .. 100
  BY <1>1, <1>3 DEF Valid, LivenessValid
<1>6. \A s \in {"watcher", "liveness"} \cap Spawned(cfFile) : cfFile[s].tripPercent \in 1 .. 100
  BY <1>4, <1>5
<1>7. /\ cfFile.dips.resetPercent < cfFile.dips.tripPercent
      /\ \A p \in {cfFile.dips.agreementCap, cfFile.dips.entityCap, cfFile.dips.fallbackCap} : p > 0
  BY <1>1 DEF Valid, DipsValid
<1>8. cfFile.dips.total \in Nat \ {0} => cfFile.dips.perIndexer <= cfFile.dips.total
  BY <1>1, SettingIs DEF Valid, DipsValid, CapsAgree, NoValue
<1>9. cfFile.streaming.capacity > 0 /\ cfFile.rest.loops > 0
  BY <1>1 DEF Parses, Builds
<1>10. 3 * cfFile.rest.loops < IF cfFile.rest.maxConns = NoValue THEN 32 ELSE cfFile.rest.maxConns
  BY <1>1, SettingIs DEF Builds, NoValue
<1>11. "watcher" \in Spawned(cfFile) =>
         0 < cfFile.watcher.alert /\ cfFile.watcher.alert < cfFile.watcher.denylist
  BY <1>4
<1>. QED BY <1>6, <1>7, <1>8, <1>9, <1>10, <1>11 DEF RunsAsAssumed

(* ServesHolds. It does not fail for want of a port or a timer.            *)
LEMMA ServesHolds == ConfigInv => StartedServes
<1>. SUFFICES ASSUME ConfigInv, cfWhy \in {"admin_rpc", "watcher"}
              PROVE  FALSE
  BY DEF StartedServes
<1>1. cfWhy \in Fails(cfFile) /\ cfAt = "down"
  BY DEF ConfigInv, ChecksSound, PlacesTyped
<1>2. Valid(cfFile) /\ FileTyped(cfFile)
  BY <1>1 DEF ConfigInv, ChecksSound, Started
<1>3. CASE cfWhy = "admin_rpc"
  <2>1. cfFile.health.enabled /\ cfFile.health.port = cfFile.rest.adminPort
    BY <1>1, <1>3 DEF Fails, Spawned
  <2>. QED BY <1>2, <2>1 DEF Valid, HealthValid
<1>4. CASE cfWhy = "watcher"
  <2>1. /\ cfFile.watcher.present /\ cfFile.watcher.enabled
        /\ Interval(cfFile)["watcher"] = 0
    BY <1>1, <1>4 DEF Fails, Spawned
  <2>2. cfFile.watcher.interval = 0
    BY <2>1 DEF Interval
  <2>3. cfFile.watcher.interval > 0
    BY <1>2, <2>1 DEF Valid, WatcherValid
  <2>. QED BY <2>2, <2>3
<1>. QED BY <1>3, <1>4

(* GasHolds. And it bounds the gas.                                        *)
LEMMA GasHolds == ConfigInv => GasBounded
<1>. SUFFICES ASSUME ConfigInv, cfGas # NoGas
              PROVE  GasBounded
  BY DEF GasBounded
<1>1. PICK e \in Estimates : cfGas = [estimate |-> e, limit |-> GasLimit(cfFile.chainClient, e)]
  BY DEF ConfigInv, GasSound
<1>2. e \in 0 .. U64Max
  BY ConfigurationAssumption
<1>3. cfGas.estimate = e /\ cfGas.limit = GasLimit(cfFile.chainClient, e)
  BY <1>1
<1>4. /\ GasLimit(cfFile.chainClient, e) >= cfFile.chainClient.gasFloor
      /\ GasLimit(cfFile.chainClient, e)
           <= Max({cfFile.chainClient.gasFloor, e + cfFile.chainClient.gasAddition})
      /\ cfFile.chainClient.gasPercent >= 100 => GasLimit(cfFile.chainClient, e) >= e
  BY <1>2, GasIs DEF ConfigInv
<1>. QED BY <1>3, <1>4 DEF GasBounded

(* InitConfigInv. A file before it is edited.                              *)
LEMMA InitConfigInv == ConfigurationInit => ConfigInv
<1>. SUFFICES ASSUME ConfigurationInit
              PROVE  ConfigInv
  OBVIOUS
<1>1. FileTyped(cfFile)
  BY WrittenTyped, FullTyped DEF ConfigurationInit
<1>2. PlacesTyped
  <2>1. cfEdits \in 0 .. MaxEdits
    BY ConfigurationAssumption DEF ConfigurationInit
  <2>. QED BY <2>1 DEF ConfigurationInit, PlacesTyped
<1>3. ChecksSound /\ OfferSound /\ GasSound
  BY DEF ConfigurationInit, ChecksSound, Started, OfferSound, GasSound
<1>. QED BY <1>1, <1>2, <1>3 DEF ConfigInv

(* NothingYet. Before it is up, nothing was offered and no gas computed.   *)
LEMMA NothingYet ==
  ASSUME ConfigInv, cfAt # "up"
  PROVE  cfOffer = NoOffer /\ cfTaken = NoValue /\ cfGas = NoGas
  BY DEF ConfigInv, OfferSound, GasSound

(* EditKeeps. The operator writes a setting.                               *)
LEMMA EditKeeps == ConfigInv /\ Edit => ConfigInv'
<1>. SUFFICES ASSUME ConfigInv, Edit
              PROVE  ConfigInv'
  OBVIOUS
<1>1. /\ cfAt = "edit" /\ cfEdits < MaxEdits /\ cfEdits' = cfEdits + 1
      /\ UNCHANGED <<cfAt, cfWhy, cfTerms, cfOffer, cfTaken, cfGas>>
  BY DEF Edit
<1>2. FileTyped(cfFile)'
  <2>1. PICK s \in DOMAIN Settings : \E f \in DOMAIN Settings[s] : \E v \in Settings[s][f] :
          cfFile' = [cfFile EXCEPT ![s][f] = v]
    BY Zenon DEF Edit
  <2>2. PICK f \in DOMAIN Settings[s] : \E v \in Settings[s][f] :
          cfFile' = [cfFile EXCEPT ![s][f] = v]
    BY <2>1
  <2>3. PICK v \in Settings[s][f] : cfFile' = [cfFile EXCEPT ![s][f] = v]
    BY <2>2
  <2>4. FileTyped([cfFile EXCEPT ![s][f] = v])
    BY EditTyped DEF ConfigInv
  <2>5. FileTyped(cfFile')
    BY <2>3, <2>4
  <2>. QED BY <2>5 DEF FileTyped, Fits
<1>3. PlacesTyped'
  <2>1. cfEdits' \in 0 .. MaxEdits
    BY <1>1, ConfigurationAssumption DEF ConfigInv, PlacesTyped
  <2>. QED BY <1>1, <2>1 DEF ConfigInv, PlacesTyped
<1>4. ChecksSound'
  BY <1>1 DEF ConfigInv, ChecksSound, PlacesTyped, Started
<1>5. OfferSound' /\ GasSound'
  BY <1>1, NothingYet DEF OfferSound, GasSound
<1>. QED BY <1>2, <1>3, <1>4, <1>5 DEF ConfigInv

(* ChecksKeep. A check accepts the configuration or refuses it.            *)
LEMMA ChecksKeep == ConfigInv /\ (Load \/ Validate \/ Build \/ BindHealth) => ConfigInv'
<1>. SUFFICES ASSUME ConfigInv, Load \/ Validate \/ Build \/ BindHealth
              PROVE  ConfigInv'
  OBVIOUS
<1>1. /\ cfAt \in {"edit", "parsed", "valid", "built"}
      /\ cfAt' \in {"parsed", "valid", "built", "bound", "refused"}
      /\ UNCHANGED <<cfFile, cfEdits, cfWhy, cfOffer, cfTaken, cfGas>>
  BY DEF Load, Validate, Build, BindHealth, GoTo
<1>2. FileTyped(cfFile)' /\ PlacesTyped'
  <2>1. FileTyped(cfFile)'
    BY <1>1 DEF ConfigInv, FileTyped, Fits
  <2>2. cfWhy = "none" /\ cfWhy' = "none" /\ cfAt' # "down"
    BY <1>1 DEF ConfigInv, PlacesTyped
  <2>3. PlacesTyped'
    BY <1>1, <2>2 DEF ConfigInv, PlacesTyped
  <2>. QED BY <2>1, <2>3
<1>3. OfferSound' /\ GasSound'
  BY <1>1, NothingYet DEF OfferSound, GasSound
<1>4. ChecksSound'
  <2>1. cfWhy' = "none"
    BY <1>1 DEF ConfigInv, PlacesTyped
  <2>2. CASE Load
    <3>1. cfAt = "edit" /\ cfTerms' = cfTerms /\ cfAt' = IF Parses(cfFile) THEN "parsed" ELSE "refused"
      BY <2>2 DEF Load, GoTo
    <3>2. cfTerms = NoTerms
      BY <3>1 DEF ConfigInv, ChecksSound, Started
    <3>3. cfAt' = "parsed" => Parses(cfFile)
      BY <3>1
    <3>4. cfAt' \in {"parsed", "refused"}
      BY <3>1
    <3>. QED BY <1>1, <2>1, <3>1, <3>2, <3>3, <3>4 DEF ChecksSound, Started, Parses
  <2>3. CASE Validate
    <3>1. /\ cfAt = "parsed" /\ cfAt' = IF Valid(cfFile) THEN "valid" ELSE "refused"
          /\ cfTerms' = IF Valid(cfFile) THEN RuntimeTerms(cfFile.dips) ELSE cfTerms
      BY <2>3 DEF Validate, GoTo
    <3>2. Parses(cfFile) /\ cfTerms = NoTerms
      BY <3>1 DEF ConfigInv, ChecksSound, Started
    <3>3. CASE Valid(cfFile)
      <4>1. cfAt' = "valid" /\ cfTerms' = RuntimeTerms(cfFile.dips)
        BY <3>1, <3>3
      <4>2. Valid(cfFile)' /\ Parses(cfFile)' /\ cfTerms' = RuntimeTerms(cfFile.dips)'
        BY <1>1, <3>2, <3>3, <4>1
      <4>. QED BY <2>1, <4>1, <4>2 DEF ChecksSound, Started
    <3>4. CASE ~Valid(cfFile)
      <4>1. cfAt' = "refused" /\ cfTerms' = NoTerms
        BY <3>1, <3>2, <3>4
      <4>. QED BY <2>1, <4>1 DEF ChecksSound, Started
    <3>. QED BY <3>3, <3>4
  <2>4. CASE Build \/ BindHealth
    <3>1. /\ cfAt \in {"valid", "built"} /\ cfTerms' = cfTerms
          /\ cfAt = "valid" => cfAt' = IF Builds(cfFile) THEN "built" ELSE "refused"
          /\ cfAt = "built" => cfAt' = "bound"
      BY <2>4 DEF Build, BindHealth, GoTo
    <3>2. /\ Parses(cfFile) /\ Valid(cfFile) /\ cfTerms = RuntimeTerms(cfFile.dips)
          /\ cfAt = "built" => Builds(cfFile)
      BY <3>1 DEF ConfigInv, ChecksSound, Started
    <3>3. cfAt' # "refused" => Builds(cfFile)
      BY <3>1, <3>2
    <3>4. /\ Parses(cfFile)' /\ Valid(cfFile)' /\ cfTerms' = RuntimeTerms(cfFile.dips)'
          /\ cfAt' # "refused" => Builds(cfFile)'
      BY <1>1, <3>1, <3>2, <3>3
    <3>. QED BY <1>1, <2>1, <3>1, <3>2, <3>3, <3>4 DEF ChecksSound, Started
  <2>. QED BY <2>2, <2>3, <2>4
<1>. QED BY <1>2, <1>3, <1>4 DEF ConfigInv

(* SpawnKeeps. The tasks are started, and one of them may fail.            *)
LEMMA SpawnKeeps == ConfigInv /\ Spawn => ConfigInv'
<1>. SUFFICES ASSUME ConfigInv, Spawn
              PROVE  ConfigInv'
  OBVIOUS
<1>1. /\ cfAt = "bound" /\ cfAt' \in {"up", "down"}
      /\ cfAt' = "up" => cfWhy' = cfWhy
      /\ cfAt' = "down" => cfWhy' \in Fails(cfFile)
      /\ UNCHANGED <<cfFile, cfEdits, cfTerms, cfOffer, cfTaken, cfGas>>
  BY DEF Spawn
<1>2. cfWhy = "none"
  BY <1>1 DEF ConfigInv, PlacesTyped
<1>3. "none" \notin Fails(cfFile)
  BY DEF Fails, Spawned
<1>4. (cfWhy' # "none") = (cfAt' = "down")
  BY <1>1, <1>2, <1>3
<1>5. FileTyped(cfFile)' /\ PlacesTyped'
  BY <1>1, <1>4 DEF ConfigInv, PlacesTyped, FileTyped, Fits
<1>6. OfferSound' /\ GasSound'
  BY <1>1, NothingYet DEF OfferSound, GasSound
<1>7. ChecksSound'
  <2>1. /\ Parses(cfFile) /\ Valid(cfFile) /\ Builds(cfFile)
        /\ cfTerms = RuntimeTerms(cfFile.dips)
    BY <1>1 DEF ConfigInv, ChecksSound, Started
  <2>2. cfWhy' # "none" => cfWhy' \in Fails(cfFile)
    BY <1>1, <1>4
  <2>3. /\ Parses(cfFile)' /\ Valid(cfFile)' /\ Builds(cfFile)'
        /\ cfTerms' = RuntimeTerms(cfFile.dips)'
        /\ cfWhy' # "none" => cfWhy' \in Fails(cfFile)'
    BY <1>1, <2>1, <2>2
  <2>. QED BY <1>1, <2>3 DEF ChecksSound, Started
<1>. QED BY <1>5, <1>6, <1>7 DEF ConfigInv

(* RunningKeeps. A running configuration makes an offer, has it taken, or  *)
(* computes a gas limit.                                                   *)
LEMMA RunningKeeps ==
  ASSUME ConfigInv, UNCHANGED <<cfFile, cfEdits, cfAt, cfWhy, cfTerms>>, OfferSound', GasSound'
  PROVE  ConfigInv'
<1>1. FileTyped(cfFile)' /\ PlacesTyped'
  BY DEF ConfigInv, PlacesTyped, FileTyped, Fits
<1>2. ChecksSound'
  <2>1. ChecksSound
    BY DEF ConfigInv
  <2>2. /\ Parses(cfFile)' = Parses(cfFile) /\ Valid(cfFile)' = Valid(cfFile)
        /\ Builds(cfFile)' = Builds(cfFile) /\ Fails(cfFile)' = Fails(cfFile)
        /\ RuntimeTerms(cfFile.dips)' = RuntimeTerms(cfFile.dips)
    OBVIOUS
  <2>. QED BY <2>1, <2>2 DEF ChecksSound
<1>. QED BY <1>1, <1>2 DEF ConfigInv

(* GasStays. A step that leaves the gas limit leaves it sound.             *)
LEMMA GasStays ==
  ASSUME ConfigInv, UNCHANGED <<cfFile, cfAt, cfGas>>
  PROVE  GasSound'
<1>1. GasSound
  BY DEF ConfigInv
<1>2. \A e : GasLimit(cfFile.chainClient, e)' = GasLimit(cfFile.chainClient, e)
  OBVIOUS
<1>. QED BY <1>1, <1>2 DEF GasSound

(* MadeKeeps. An offer is made.                                            *)
LEMMA MadeKeeps ==
  ASSUME ConfigInv, NEW now \in {0, Day}, MakeOffer(now)
  PROVE  ConfigInv'
<1>1. /\ cfAt = "up" /\ cfOffer = NoOffer
      /\ cfOffer' = [deadline |-> SaturatingAdd(now, cfTerms.deadline),
                     ends     |-> SaturatingAdd(now, cfTerms.duration)]
      /\ UNCHANGED <<cfFile, cfEdits, cfAt, cfWhy, cfTerms, cfTaken, cfGas>>
  BY DEF MakeOffer
<1>2. cfTaken = NoValue
  <2>1. CASE cfOffer = NoOffer /\ cfTaken = NoValue
    BY <2>1
  <2>2. CASE ~(cfOffer = NoOffer /\ cfTaken = NoValue)
    <3>1. cfTaken \in -1 .. cfOffer.deadline
      BY <2>2 DEF ConfigInv, OfferSound
    <3>. QED BY <1>1, <3>1 DEF NoOffer, NoValue
  <2>. QED BY <2>1, <2>2
<1>3. SaturatingAdd(now, cfTerms.deadline) \in Nat
  <2>1. cfTerms.deadline \in 0 .. U64Max
    BY <1>1, TermsTyped DEF ConfigInv, ChecksSound, Started
  <2>2. now \in Nat
    BY SMT DEF Day
  <2>3. cfTerms.deadline \in Nat
    BY <2>1, U64Is
  <2>. QED BY <2>2, <2>3, AddBounds
<1>4. cfTaken' \in -1 .. cfOffer'.deadline
  BY <1>1, <1>2, <1>3 DEF NoValue
<1>5. OfferSound'
  BY <1>1, <1>4, Zenon DEF OfferSound, SaturatingAdd
<1>. QED BY <1>1, <1>5, GasStays, RunningKeeps

(* TakenKeeps. The indexer accepts it, by the deadline.                    *)
LEMMA TakenKeeps ==
  ASSUME ConfigInv, NEW at \in {0, 600, Day, Day + 600, Day + 3600}, TakeOffer(at)
  PROVE  ConfigInv'
<1>1. /\ cfOffer # NoOffer /\ at <= cfOffer.deadline /\ cfTaken' = at
      /\ UNCHANGED <<cfFile, cfEdits, cfAt, cfWhy, cfTerms, cfOffer, cfGas>>
  BY DEF TakeOffer
<1>2. cfOffer.deadline \in Int
  BY ConfigTypes, U64Is DEF ConfigurationTypeOK
<1>3. cfTaken' \in -1 .. cfOffer.deadline
  BY <1>1, <1>2, SMT DEF Day
<1>4. cfAt = "up" /\ \E now \in {0, Day} :
                       cfOffer = [deadline |-> SaturatingAdd(now, cfTerms.deadline),
                                  ends     |-> SaturatingAdd(now, cfTerms.duration)]
  BY <1>1 DEF ConfigInv, OfferSound
<1>5. OfferSound'
  BY <1>1, <1>3, <1>4 DEF OfferSound
<1>. QED BY <1>1, <1>5, GasStays, RunningKeeps

(* EstimateKeeps. A gas limit is computed.                                 *)
LEMMA EstimateKeeps ==
  ASSUME ConfigInv, NEW e \in Estimates, EstimateGas(e)
  PROVE  ConfigInv'
<1>1. /\ cfAt = "up"
      /\ cfGas' = [estimate |-> e, limit |-> GasLimit(cfFile.chainClient, e)]
      /\ UNCHANGED <<cfFile, cfEdits, cfAt, cfWhy, cfTerms, cfOffer, cfTaken>>
  BY DEF EstimateGas
<1>2. GasLimit(cfFile.chainClient, e)' = GasLimit(cfFile.chainClient, e)
  BY <1>1
<1>3. GasSound'
  BY <1>1, <1>2, Zenon DEF GasSound
<1>4. OfferSound'
  BY <1>1 DEF ConfigInv, OfferSound
<1>. QED BY <1>1, <1>3, <1>4, RunningKeeps

(* ConfigStepKeeps. Every step of a configuration keeps its invariant.     *)
LEMMA ConfigStepKeeps == ConfigInv /\ [ConfigurationNext]_cfVars => ConfigInv'
<1>. SUFFICES ASSUME ConfigInv, [ConfigurationNext]_cfVars
              PROVE  ConfigInv'
  OBVIOUS
<1>1. CASE UNCHANGED cfVars
  <2>1. UNCHANGED <<cfFile, cfEdits, cfAt, cfWhy, cfTerms>> /\ UNCHANGED <<cfOffer, cfTaken, cfGas>>
    BY <1>1 DEF cfVars
  <2>2. OfferSound'
    BY <2>1 DEF ConfigInv, OfferSound
  <2>. QED BY <2>1, <2>2, GasStays, RunningKeeps
<1>2. CASE ConfigurationNext
  BY <1>2, EditKeeps, ChecksKeep, SpawnKeeps, MadeKeeps, TakenKeeps, EstimateKeeps
     DEF ConfigurationNext
<1>. QED BY <1>1, <1>2

(* ConfigurationSound. However many of its settings the operator writes,   *)
(* and whatever gas a node estimates, a configuration that passes the      *)
(* checks leaves a late indexer room to collect, meets what the other      *)
(* modules assume, can be started and bounds the gas (config.rs, gas.rs).  *)
THEOREM ConfigurationSound ==
  ConfigurationSpec => [](ConfigurationTypeOK /\ CollectionFits /\ RunsAsAssumed
                            /\ StartedServes /\ GasBounded)
<1>1. ConfigurationSpec => []ConfigInv
  BY InitConfigInv, ConfigStepKeeps, PTL DEF ConfigurationSpec
<1>2. ConfigInv => ConfigurationTypeOK /\ CollectionFits /\ RunsAsAssumed
                     /\ StartedServes /\ GasBounded
  BY ConfigTypes, CollectionHolds, AssumedHolds, ServesHolds, GasHolds
<1>. QED BY <1>1, <1>2, PTL
-----------------------------------------------------------------------------
(* The calls of a job.                                                     *)

(* What of a call's span may have passed before the attempt with this      *)
(* number, and with the wait after it.                                     *)
IisaSpent(attempt) == attempt * (IisaTimeout + 7)
WaitSpent == IF ocWait THEN IisaTimeout ELSE 0

(* An attempt has a number the retries allow, and the chain is not asked   *)
(* while a retry waits.                                                    *)
AttemptsSound ==
  ocResult = "running" =>
    /\ Iisa => ocAttempt <= IisaRetries
    /\ Iisa /\ ocWait => ocAttempt < IisaRetries
    /\ ocCall \in {"chain-clock", "surplus-cancels"} => ~ocWait

(* The time of a reassessment is spent by its calls, each within its span. *)
SpentSound ==
  ocResult = "running" =>
    /\ ocCall = "dips-indexers" => ocElapsed <= IisaSpent(ocAttempt) + WaitSpent
    /\ ocCall = "select-indexers" => ocElapsed <= IisaSpan + (IisaSpent(ocAttempt) + WaitSpent)

CallsInv == CallsTypeOK /\ AttemptsSound /\ SpentSound /\ SelectionWithinSpan /\ OutageKeepsJob

(* CallNumbers. The timeouts, the retries and the span are numbers.        *)
LEMMA CallNumbers ==
  /\ IisaTimeout \in Nat /\ IisaTimeout > 0 /\ RpcTimeout \in Nat /\ RpcTimeout > 0
  /\ HandlerBackstop \in Nat /\ HandlerBackstop > 0 /\ IisaRetries \in Nat /\ RpcRetries \in Nat
  /\ IisaSpan \in Nat /\ ChainTime \in Nat /\ MaxSurplus \in Nat
<1>1. /\ IisaTimeout \in Nat /\ IisaTimeout > 0 /\ RpcTimeout \in Nat /\ RpcTimeout > 0
      /\ HandlerBackstop \in Nat /\ HandlerBackstop > 0 /\ IisaRetries \in Nat /\ RpcRetries \in Nat
      /\ ChainTime \in Nat /\ MaxSurplus \in Nat
  BY CallAssumption
<1>. QED BY <1>1 DEF IisaSpan

(* SpentIs. An attempt that ends is within the span of its call, and the   *)
(* wait after it leads to the next.                                        *)
LEMMA SpentIs ==
  ASSUME NEW n \in Nat
  PROVE  /\ IisaSpent(n) \in Nat /\ IisaSpent(0) = 0
         /\ IisaSpent(n + 1) = IisaSpent(n) + IisaTimeout + 7
         /\ n <= IisaRetries => IisaSpent(n) + IisaTimeout <= IisaSpan
<1>1. PICK unit \in Nat : unit = IisaTimeout + 7
  BY CallNumbers
<1>2. n * unit \in Nat /\ (n + 1) * unit = n * unit + unit /\ 0 * unit = 0
  OBVIOUS
<1>3. IisaSpan = IisaRetries * unit + IisaTimeout
  BY <1>1, CallNumbers DEF IisaSpan
<1>4. n <= IisaRetries => n * unit <= IisaRetries * unit
  BY CallNumbers
<1>5. IisaRetries * unit \in Nat
  BY CallNumbers
<1>. QED BY <1>1, <1>2, <1>3, <1>4, <1>5, CallNumbers DEF IisaSpent

(* DelayFits. A wait takes a second or more, and for IISA at most 7.       *)
LEMMA DelayFits ==
  ASSUME NEW n \in Nat
  PROVE  /\ RetryDelay(n) \in Nat /\ RetryDelay(n) >= 1
         /\ Iisa => RetryDelay(n) <= 7
<1>1. 2 ^ 0 = 1 /\ 2 ^ 1 = 2 /\ 2 ^ 2 = 4 /\ 2 ^ 3 = 8 /\ 2 ^ 4 = 16 /\ 2 ^ 5 = 32 /\ 2 ^ 6 = 64
  OBVIOUS
<1>2. /\ Least(n, 6) \in {0, 1, 2, 3, 4, 5, 6}
      /\ Least(n, 5) \in {0, 1, 2, 3, 4, 5}
  BY DEF Least
<1>3. 2 ^ Least(n, 6) \in {1, 2, 4, 8, 16, 32, 64} /\ 2 ^ Least(n, 5) \in {1, 2, 4, 8, 16, 32}
  BY <1>1, <1>2
<1>4. PICK p \in {1, 2, 4, 8, 16, 32, 64}, q \in {1, 2, 4, 8, 16, 32} :
        p = 2 ^ Least(n, 6) /\ q = 2 ^ Least(n, 5)
  BY <1>3
<1>5. RetryDelay(n) = IF Iisa THEN Least(7, 1 + p \div 8) ELSE Least(30, q)
  BY <1>4 DEF RetryDelay
<1>6. p \div 8 \in Nat
  BY <1>4
<1>7. Least(7, 1 + p \div 8) \in 1 .. 7
  BY <1>6 DEF Least
<1>8. Least(30, q) \in Nat /\ Least(30, q) >= 1
  BY <1>4 DEF Least
<1>. QED BY <1>5, <1>7, <1>8

(* InitCallsInv. A job begins with its first attempt.                      *)
LEMMA InitCallsInv == CallsInit => CallsInv
<1>. SUFFICES ASSUME CallsInit
              PROVE  CallsInv
  OBVIOUS
<1>1. CallsTypeOK
  <2>1. ocAttempt \in Nat /\ ocElapsed \in 0 .. HandlerBackstop
    BY CallNumbers DEF CallsInit
  <2>. QED BY <2>1 DEF CallsInit, CallsTypeOK, Results
<1>2. AttemptsSound
  BY CallNumbers DEF CallsInit, AttemptsSound, Iisa
<1>3. SpentSound
  <2>1. ocCall # "select-indexers" /\ ocWait = FALSE /\ ocAttempt = 0 /\ ocElapsed = 0
    BY DEF CallsInit
  <2>2. IisaSpent(0) + WaitSpent = 0
    BY <2>1, SpentIs DEF WaitSpent
  <2>. QED BY <2>1, <2>2 DEF SpentSound
<1>4. SelectionWithinSpan /\ OutageKeepsJob
  BY CallNumbers DEF CallsInit, SelectionWithinSpan, OutageKeepsJob
<1>. QED BY <1>1, <1>2, <1>3, <1>4 DEF CallsInv

(* CallTyped. The numbers of a job's calls.                                *)
LEMMA CallTyped ==
  ASSUME CallsInv
  PROVE  /\ ocAttempt \in Nat /\ ocElapsed \in Nat
         /\ ocElapsed <= HandlerBackstop
  BY CallNumbers DEF CallsInv, CallsTypeOK

(* WithinSpan. The attempt a reassessment is at, and the wait it is in,    *)
(* end within the span of the call.                                        *)
LEMMA WithinSpan ==
  ASSUME CallsInv, ocResult = "running", Iisa, NEW s \in Nat,
         ocWait => s <= 7, ~ocWait => s <= IisaTimeout
  PROVE  /\ ocCall = "dips-indexers" => ocElapsed + s <= IisaSpan
         /\ ocCall = "select-indexers" => ocElapsed + s <= 2 * IisaSpan
         /\ ocCall = "dips-indexers" /\ ocWait => ocElapsed + s <= IisaSpent(ocAttempt + 1)
         /\ ocCall = "dips-indexers" /\ ~ocWait =>
              ocElapsed + s <= IisaSpent(ocAttempt) + IisaTimeout
         /\ ocCall = "select-indexers" /\ ocWait =>
              ocElapsed + s <= IisaSpan + IisaSpent(ocAttempt + 1)
         /\ ocCall = "select-indexers" /\ ~ocWait =>
              ocElapsed + s <= IisaSpan + IisaSpent(ocAttempt) + IisaTimeout
<1>1. /\ ocAttempt <= IisaRetries /\ (ocWait => ocAttempt < IisaRetries)
      /\ ocWait \in BOOLEAN /\ ocCall \in {"dips-indexers", "select-indexers"}
  BY DEF CallsInv, AttemptsSound, CallsTypeOK, Iisa
<1>2. PICK x \in Nat : x = IisaSpent(ocAttempt)
  BY CallTyped, SpentIs
<1>3. /\ IisaSpent(ocAttempt + 1) = x + IisaTimeout + 7
      /\ x + IisaTimeout <= IisaSpan
  BY <1>1, <1>2, CallTyped, SpentIs
<1>4. ocWait => x + IisaTimeout + 7 <= IisaSpan
  <2>. SUFFICES ASSUME ocWait
                PROVE  x + IisaTimeout + 7 <= IisaSpan
    OBVIOUS
  <2>1. ocAttempt + 1 \in Nat /\ ocAttempt + 1 <= IisaRetries
    BY <1>1, CallTyped, CallNumbers
  <2>2. IisaSpent(ocAttempt + 1) + IisaTimeout <= IisaSpan
    BY <2>1, SpentIs
  <2>3. IisaTimeout \in Nat /\ IisaSpan \in Nat
    BY CallNumbers
  <2>. QED BY <1>2, <1>3, <2>2, <2>3
<1>5. CASE ocWait = TRUE
  <2>1. s <= 7 /\ x + IisaTimeout + 7 <= IisaSpan /\ WaitSpent = IisaTimeout
    BY <1>4, <1>5 DEF WaitSpent
  <2>2. CASE ocCall = "dips-indexers"
    <3>1. ocElapsed <= x + IisaTimeout
      BY <1>2, <2>1, <2>2 DEF CallsInv, SpentSound
    <3>2. ocElapsed + s <= x + IisaTimeout + 7 /\ ocElapsed + s <= IisaSpan
      BY <1>2, <2>1, <3>1, CallTyped, CallNumbers
    <3>. QED BY <1>3, <1>5, <2>2, <3>2
  <2>3. CASE ocCall = "select-indexers"
    <3>1. ocElapsed <= IisaSpan + (x + IisaTimeout)
      BY <1>2, <2>1, <2>3 DEF CallsInv, SpentSound
    <3>2. ocElapsed + s <= IisaSpan + (x + IisaTimeout + 7) /\ ocElapsed + s <= 2 * IisaSpan
      BY <1>2, <2>1, <3>1, CallTyped, CallNumbers
    <3>. QED BY <1>3, <1>5, <2>3, <3>2
  <2>. QED BY <1>1, <2>2, <2>3
<1>6. CASE ocWait = FALSE
  <2>1. s <= IisaTimeout /\ WaitSpent = 0
    BY <1>6 DEF WaitSpent
  <2>2. CASE ocCall = "dips-indexers"
    <3>1. ocElapsed <= x + 0
      BY <1>2, <2>1, <2>2 DEF CallsInv, SpentSound
    <3>2. ocElapsed + s <= x + IisaTimeout /\ ocElapsed + s <= IisaSpan
      BY <1>2, <1>3, <2>1, <3>1, CallTyped, CallNumbers
    <3>. QED BY <1>2, <1>6, <2>2, <3>2
  <2>3. CASE ocCall = "select-indexers"
    <3>1. ocElapsed <= IisaSpan + (x + 0)
      BY <1>2, <2>1, <2>3 DEF CallsInv, SpentSound
    <3>2. ocElapsed + s <= IisaSpan + x + IisaTimeout /\ ocElapsed + s <= 2 * IisaSpan
      BY <1>2, <1>3, <2>1, <3>1, CallTyped, CallNumbers
    <3>. QED BY <1>2, <1>6, <2>3, <3>2
  <2>. QED BY <1>1, <2>2, <2>3
<1>. QED BY <1>1, <1>5, <1>6

(* CutKeeps. A job cut by its backstop was within the span of its call.    *)
LEMMA CutKeeps ==
  ASSUME CallsInv, ocResult = "running", NEW s \in Nat, Spend(s), ocElapsed + s >= HandlerBackstop,
         Iisa => (ocWait => s <= 7) /\ (~ocWait => s <= IisaTimeout),
         ocSilent' \in BOOLEAN, ocLastSeen' \in IisaMeets \cup RpcMeets \cup {"nothing"}
  PROVE  CallsInv'
<1>1. /\ ocElapsed' = HandlerBackstop /\ ocResult' = "backstop"
      /\ UNCHANGED <<ocCall, ocAttempt, ocWait>>
  BY DEF Spend
<1>2. CallsTypeOK'
  <2>1. ocElapsed' \in 0 .. HandlerBackstop
    BY <1>1, CallNumbers
  <2>. QED BY <1>1, <2>1 DEF CallsInv, CallsTypeOK, Results
<1>3. AttemptsSound' /\ SpentSound' /\ OutageKeepsJob'
  BY <1>1 DEF AttemptsSound, SpentSound, OutageKeepsJob
<1>4. SelectionWithinSpan'
  <2>1. CASE ~Iisa
    BY <1>1, <2>1 DEF SelectionWithinSpan, Iisa
  <2>2. CASE Iisa
    <3>1. /\ ocCall = "dips-indexers" => ocElapsed + s <= IisaSpan
          /\ ocCall = "select-indexers" => ocElapsed + s <= 2 * IisaSpan
      BY <2>2, WithinSpan
    <3>2. /\ ocCall = "dips-indexers" => HandlerBackstop <= IisaSpan
          /\ ocCall = "select-indexers" => HandlerBackstop <= 2 * IisaSpan
      BY <3>1, CallTyped, CallNumbers
    <3>3. HandlerBackstop <= 2 * IisaSpan
      BY <2>2, <3>2, CallNumbers DEF Iisa
    <3>. QED BY <1>1, <3>2, <3>3 DEF SelectionWithinSpan
  <2>. QED BY <2>1, <2>2
<1>. QED BY <1>2, <1>3, <1>4 DEF CallsInv

(* LastsIs. An attempt lasts at most its timeout.                          *)
LEMMA LastsIs ==
  ASSUME NEW meets, NEW s \in Lasts(meets)
  PROVE  s \in Nat /\ s <= TimeoutOf
<1>1. TimeoutOf \in Nat /\ TimeoutOf > 0
  BY CallNumbers DEF TimeoutOf
<1>2. TimeoutOf \div 2 \in Nat /\ TimeoutOf \div 2 <= TimeoutOf
  BY <1>1
<1>. QED BY <1>1, <1>2 DEF Lasts

(* SeenTyped. What is seen and whether it was silent is typed.             *)
LEMMA SeenTyped ==
  ASSUME CallsInv, NEW meets \in IisaMeets \cup RpcMeets,
         ocSilent' = (ocSilent \/ meets = "silent"), ocLastSeen' = meets
  PROVE  ocSilent' \in BOOLEAN /\ ocLastSeen' \in IisaMeets \cup RpcMeets \cup {"nothing"}
  BY DEF CallsInv, CallsTypeOK

(* AttemptKeeps. An attempt is met by an answer, an error or silence.      *)
LEMMA AttemptKeeps == CallsInv /\ Attempt => CallsInv'
<1>. SUFFICES ASSUME CallsInv, Attempt
              PROVE  CallsInv'
  OBVIOUS
<1>1. ocResult = "running" /\ ocWait = FALSE /\ (Iisa \/ ocCall = "submit-proposal")
  BY DEF Attempt, CallsInv, CallsTypeOK
<1>0. PICK meets \in IF Iisa THEN IisaMeets ELSE RpcMeets : \E s \in Lasts(meets) :
        /\ Spend(s) /\ (ocElapsed + s < HandlerBackstop => AfterAttempt(meets))
        /\ ocSilent' = (ocSilent \/ meets = "silent") /\ ocLastSeen' = meets
  BY Zenon DEF Attempt
<1>2. PICK s \in Lasts(meets) :
        /\ Spend(s) /\ (ocElapsed + s < HandlerBackstop => AfterAttempt(meets))
        /\ ocSilent' = (ocSilent \/ meets = "silent") /\ ocLastSeen' = meets
  BY <1>0
<1>3. s \in Nat /\ s <= TimeoutOf /\ meets \in IisaMeets \cup RpcMeets
  BY <1>0, <1>2, LastsIs
<1>4. ocSilent' \in BOOLEAN /\ ocLastSeen' \in IisaMeets \cup RpcMeets \cup {"nothing"}
  BY <1>2, <1>3, SeenTyped
<1>5. Iisa => s <= IisaTimeout
  BY <1>3 DEF TimeoutOf
<1>6. CASE ocElapsed + s >= HandlerBackstop
  BY <1>1, <1>2, <1>3, <1>4, <1>5, <1>6, CutKeeps
<1>7. CASE ocElapsed + s < HandlerBackstop
  <2>1. ocElapsed' = ocElapsed + s /\ AfterAttempt(meets)
    <3>1. ~(ocElapsed + s >= HandlerBackstop)
      BY <1>3, <1>7, CallTyped, CallNumbers
    <3>. QED BY <1>2, <1>7, <3>1 DEF Spend
  <2>2. ocElapsed' \in 0 .. HandlerBackstop /\ ocElapsed' \in Nat /\ ocElapsed <= ocElapsed'
    BY <1>3, <1>7, <2>1, CallTyped, CallNumbers
  <2>3. CASE meets \in Retried /\ MayRetryCall
    <3>1. ocWait' = TRUE /\ UNCHANGED <<ocCall, ocAttempt, ocResult>>
      BY <2>1, <2>3 DEF AfterAttempt
    <3>2. CallsTypeOK'
      BY <1>4, <2>2, <3>1 DEF CallsInv, CallsTypeOK
    <3>3. AttemptsSound'
      <4>1. Iisa => ocAttempt < IisaRetries
        BY <2>3 DEF MayRetryCall
      <4>2. Iisa' = Iisa /\ ocCall' \notin {"chain-clock", "surplus-cancels"}
        BY <1>1, <3>1 DEF Iisa
      <4>3. Iisa => ocAttempt <= IisaRetries
        BY <1>1 DEF CallsInv, AttemptsSound
      <4>. QED BY <3>1, <4>1, <4>2, <4>3 DEF AttemptsSound
    <3>4. SpentSound'
      <4>. SUFFICES ASSUME ocCall # "submit-proposal"
                    PROVE  SpentSound'
        BY <3>1 DEF SpentSound
      <4>1. s <= IisaTimeout /\ Iisa
        BY <1>1, <1>5
      <4>2. /\ ocCall = "dips-indexers" => ocElapsed' <= IisaSpent(ocAttempt) + IisaTimeout
            /\ ocCall = "select-indexers" =>
                 ocElapsed' <= IisaSpan + IisaSpent(ocAttempt) + IisaTimeout
        BY <1>1, <1>3, <2>1, <4>1, WithinSpan
      <4>3. ocAttempt' = ocAttempt /\ WaitSpent' = IisaTimeout
        BY <3>1 DEF WaitSpent
      <4>4. IisaSpent(ocAttempt) \in Nat
        BY CallTyped, SpentIs
      <4>5. IisaSpan + IisaSpent(ocAttempt) + IisaTimeout = IisaSpan + (IisaSpent(ocAttempt) + IisaTimeout)
        BY <4>4, CallNumbers
      <4>6. IisaSpent(ocAttempt)' = IisaSpent(ocAttempt)
        BY <3>1 DEF IisaSpent
      <4>. QED BY <3>1, <4>2, <4>3, <4>5, <4>6 DEF SpentSound
    <3>5. SelectionWithinSpan' /\ OutageKeepsJob'
      <4>1. /\ ocCall = "dips-indexers" => ocElapsed' <= IisaSpan
            /\ ocCall = "select-indexers" => ocElapsed' <= 2 * IisaSpan
        BY <1>1, <1>3, <1>5, <2>1, WithinSpan DEF Iisa
      <4>. QED BY <1>1, <3>1, <4>1 DEF SelectionWithinSpan, OutageKeepsJob
    <3>. QED BY <3>2, <3>3, <3>4, <3>5 DEF CallsInv
  <2>4. CASE ~(meets \in Retried /\ MayRetryCall) /\ ocCall = "dips-indexers"
    <3>1. /\ ocCall' = "select-indexers" /\ ocAttempt' = 0 /\ ocWait' = FALSE
          /\ UNCHANGED ocResult
      BY <2>1, <2>4, Zenon DEF AfterAttempt, EndCall
    <3>2. CallsTypeOK'
      <4>1. ocAttempt' \in Nat
        BY <3>1
      <4>. QED BY <1>4, <2>2, <3>1, <4>1 DEF CallsInv, CallsTypeOK
    <3>3. AttemptsSound'
      BY <2>2, <3>1, CallNumbers DEF AttemptsSound
    <3>4. SpentSound'
      <4>1. s <= IisaTimeout /\ Iisa
        BY <1>5, <2>4 DEF Iisa
      <4>2. ocElapsed' <= IisaSpan
        BY <1>1, <1>3, <2>1, <2>4, <4>1, WithinSpan
      <4>3. (IisaSpent(ocAttempt) + WaitSpent)' = 0
        BY <3>1, CallNumbers DEF WaitSpent, IisaSpent
      <4>. QED BY <2>2, <3>1, <4>2, <4>3, CallNumbers DEF SpentSound
    <3>5. SelectionWithinSpan' /\ OutageKeepsJob'
      <4>1. ocElapsed' <= IisaSpan
        BY <1>1, <1>3, <1>5, <2>1, <2>4, WithinSpan DEF Iisa
      <4>2. ocElapsed' <= 2 * IisaSpan
        BY <2>2, <4>1, CallNumbers
      <4>. QED BY <1>1, <3>1, <4>1, <4>2 DEF SelectionWithinSpan, OutageKeepsJob
    <3>. QED BY <3>2, <3>3, <3>4, <3>5 DEF CallsInv
  <2>5. CASE /\ ~(meets \in Retried /\ MayRetryCall)
             /\ ocCall = "select-indexers" /\ meets = "selected"
    <3>1. /\ ocCall' = "chain-clock" /\ ocAttempt' = 0 /\ ocWait' = FALSE
          /\ UNCHANGED ocResult
      BY <2>1, <2>5, Zenon DEF AfterAttempt, EndCall
    <3>2. CallsTypeOK'
      <4>1. ocAttempt' \in Nat
        BY <3>1
      <4>. QED BY <1>4, <2>2, <3>1, <4>1 DEF CallsInv, CallsTypeOK
    <3>3. AttemptsSound' /\ SpentSound' /\ SelectionWithinSpan' /\ OutageKeepsJob'
      BY <1>1, <3>1 DEF AttemptsSound, SpentSound, SelectionWithinSpan, OutageKeepsJob, Iisa
    <3>. QED BY <3>2, <3>3 DEF CallsInv
  <2>6. CASE /\ ~(meets \in Retried /\ MayRetryCall) /\ ocCall # "dips-indexers"
             /\ ~(ocCall = "select-indexers" /\ meets = "selected")
    <3>1. /\ ocResult' = IF meets = "answered" THEN "done" ELSE GiveUpCall(meets)
          /\ UNCHANGED <<ocCall, ocAttempt, ocWait>>
      BY <2>1, <2>6, Zenon DEF AfterAttempt, EndCall
    <3>2. /\ ocResult' \in {"done", "undelivered", "fatal", "retryable"}
          /\ ocResult' = "fatal" => meets \in {"garbledBody", "unsendable"}
      BY <3>1 DEF GiveUpCall
    <3>3. CallsTypeOK'
      BY <1>4, <2>2, <3>1, <3>2 DEF CallsInv, CallsTypeOK, Results
    <3>4. AttemptsSound' /\ SpentSound'
      BY <3>2 DEF AttemptsSound, SpentSound
    <3>5. SelectionWithinSpan'
      <4>1. ocCall = "select-indexers" => ocElapsed' <= 2 * IisaSpan
        BY <1>1, <1>3, <1>5, <2>1, WithinSpan DEF Iisa
      <4>. QED BY <2>6, <3>1, <3>2, <4>1 DEF SelectionWithinSpan
    <3>6. OutageKeepsJob'
      BY <1>2, <3>2 DEF OutageKeepsJob
    <3>. QED BY <3>3, <3>4, <3>5, <3>6 DEF CallsInv
  <2>. QED BY <2>3, <2>4, <2>5, <2>6
<1>. QED BY <1>3, <1>6, <1>7, CallTyped, CallNumbers

(* WaitKeeps. The wait before a retry passes.                              *)
LEMMA WaitKeeps == CallsInv /\ WaitRetry => CallsInv'
<1>. SUFFICES ASSUME CallsInv, WaitRetry
              PROVE  CallsInv'
  OBVIOUS
<1>1. /\ ocResult = "running" /\ ocWait = TRUE
      /\ ocCall \notin {"chain-clock", "surplus-cancels"}
  BY DEF WaitRetry, CallsInv, CallsTypeOK, AttemptsSound
<1>2. PICK s \in Nat : s = RetryDelay(ocAttempt) /\ s >= 1
  BY CallTyped, DelayFits
<1>3. /\ Spend(s) /\ UNCHANGED <<ocSilent, ocLastSeen>>
      /\ ocElapsed + s < HandlerBackstop =>
           /\ ocAttempt' = ocAttempt + 1 /\ ocWait' = FALSE
           /\ UNCHANGED <<ocCall, ocResult>>
  BY <1>2 DEF WaitRetry
<1>4. Iisa => s <= 7
  BY <1>2, CallTyped, DelayFits
<1>5. ocSilent' \in BOOLEAN /\ ocLastSeen' \in IisaMeets \cup RpcMeets \cup {"nothing"}
  BY <1>3 DEF CallsInv, CallsTypeOK
<1>6. CASE ocElapsed + s >= HandlerBackstop
  BY <1>1, <1>2, <1>3, <1>4, <1>5, <1>6, CutKeeps
<1>7. CASE ocElapsed + s < HandlerBackstop
  <2>1. ocElapsed' = ocElapsed + s
    <3>1. ~(ocElapsed + s >= HandlerBackstop)
      BY <1>2, <1>7, CallTyped, CallNumbers
    <3>. QED BY <1>3, <3>1 DEF Spend
  <2>2. /\ ocAttempt' = ocAttempt + 1 /\ ocWait' = FALSE
        /\ UNCHANGED <<ocCall, ocResult>>
    BY <1>3, <1>7
  <2>3. ocElapsed' \in 0 .. HandlerBackstop /\ ocAttempt' \in Nat
    BY <1>1, <1>2, <1>7, <2>1, <2>2, CallTyped, CallNumbers
  <2>4. CallsTypeOK'
    BY <1>3, <2>2, <2>3 DEF CallsInv, CallsTypeOK
  <2>5. AttemptsSound'
    <3>1. Iisa => ocAttempt < IisaRetries
      BY <1>1 DEF CallsInv, AttemptsSound
    <3>2. Iisa => ocAttempt' <= IisaRetries
      BY <2>2, <3>1, CallTyped, CallNumbers
    <3>3. Iisa' = Iisa
      BY <2>2 DEF Iisa
    <3>. QED BY <1>1, <2>2, <2>3, <3>2, <3>3 DEF AttemptsSound
  <2>6. SpentSound'
    <3>. SUFFICES ASSUME ocCall # "submit-proposal"
                  PROVE  SpentSound'
      BY <2>2 DEF SpentSound
    <3>1. Iisa /\ s <= 7
      BY <1>1, <1>4 DEF Iisa, CallsInv, CallsTypeOK
    <3>2. /\ ocCall = "dips-indexers" => ocElapsed' <= IisaSpent(ocAttempt + 1)
          /\ ocCall = "select-indexers" => ocElapsed' <= IisaSpan + IisaSpent(ocAttempt + 1)
      BY <1>1, <1>2, <2>1, <3>1, WithinSpan
    <3>3. IisaSpent(ocAttempt + 1) \in Nat
      <4>1. ocAttempt + 1 \in Nat
        BY CallTyped
      <4>. QED BY <4>1, SpentIs
    <3>4. (IisaSpent(ocAttempt) + WaitSpent)' = IisaSpent(ocAttempt + 1)
      <4>1. IisaSpent(ocAttempt)' = IisaSpent(ocAttempt + 1) /\ WaitSpent' = 0
        BY <2>2 DEF IisaSpent, WaitSpent
      <4>. QED BY <3>3, <4>1
    <3>. QED BY <2>2, <3>2, <3>4 DEF SpentSound
  <2>7. SelectionWithinSpan' /\ OutageKeepsJob'
    <3>1. /\ ocCall = "dips-indexers" => ocElapsed' <= IisaSpan
          /\ ocCall = "select-indexers" => ocElapsed' <= 2 * IisaSpan
      BY <1>1, <1>2, <1>4, <2>1, WithinSpan DEF Iisa
    <3>. QED BY <1>1, <2>2, <3>1 DEF SelectionWithinSpan, OutageKeepsJob
  <2>. QED BY <2>4, <2>5, <2>6, <2>7 DEF CallsInv
<1>. QED BY <1>2, <1>6, <1>7, CallTyped, CallNumbers

(* ChainCallKeeps. What a pass does on the chain comes after its           *)
(* selection, for as long as the backstop leaves it.                       *)
LEMMA ChainCallKeeps == CallsInv /\ (ReadDeadlineClock \/ CancelUnpaired) => CallsInv'
<1>. SUFFICES ASSUME CallsInv, ReadDeadlineClock \/ CancelUnpaired
              PROVE  CallsInv'
  OBVIOUS
<1>1. PICK s \in ChainTakes :
        /\ Spend(s)
        /\ ocElapsed + s < HandlerBackstop =>
             \/ /\ ocCall' = "surplus-cancels" /\ ocResult' \in {"running", "retryable"}
                /\ UNCHANGED <<ocAttempt, ocWait>>
             \/ /\ ocAttempt' = ocAttempt + 1
                /\ UNCHANGED <<ocCall, ocWait, ocResult>>
  BY DEF ReadDeadlineClock, CancelUnpaired
<1>2. /\ ocResult = "running" /\ ocCall \in {"chain-clock", "surplus-cancels"} /\ ocWait = FALSE
      /\ UNCHANGED <<ocSilent, ocLastSeen>>
  BY DEF ReadDeadlineClock, CancelUnpaired, CallsInv, AttemptsSound, CallsTypeOK
<1>3. s \in Nat
  BY CallNumbers DEF ChainTakes
<1>4. ocSilent' \in BOOLEAN /\ ocLastSeen' \in IisaMeets \cup RpcMeets \cup {"nothing"}
  BY <1>2 DEF CallsInv, CallsTypeOK
<1>5. CASE ocElapsed + s >= HandlerBackstop
  <2>1. ~Iisa
    BY <1>2 DEF Iisa
  <2>. QED BY <1>1, <1>2, <1>3, <1>4, <1>5, <2>1, CutKeeps
<1>6. CASE ocElapsed + s < HandlerBackstop
  <2>1. ocElapsed' = ocElapsed + s
    <3>1. ~(ocElapsed + s >= HandlerBackstop)
      BY <1>3, <1>6, CallTyped, CallNumbers
    <3>. QED BY <1>1, <3>1 DEF Spend
  <2>2. ocElapsed' \in 0 .. HandlerBackstop
    BY <1>3, <1>6, <2>1, CallTyped, CallNumbers
  <2>3. /\ ocCall' \in {"chain-clock", "surplus-cancels"} /\ ocWait' = FALSE
        /\ ocResult' \in {"running", "retryable"} /\ ocAttempt' \in Nat
    BY <1>1, <1>2, <1>6, CallTyped
  <2>4. CallsTypeOK'
    BY <1>4, <2>2, <2>3 DEF CallsTypeOK, Results
  <2>5. AttemptsSound' /\ SpentSound' /\ SelectionWithinSpan' /\ OutageKeepsJob'
    BY <2>3 DEF AttemptsSound, SpentSound, SelectionWithinSpan, OutageKeepsJob, Iisa
  <2>. QED BY <2>4, <2>5 DEF CallsInv
<1>. QED BY <1>3, <1>5, <1>6, CallTyped, CallNumbers

(* CallsStepKeeps. Every step of a job's calls keeps their invariant.      *)
LEMMA CallsStepKeeps == CallsInv /\ [CallsNext]_ocVars => CallsInv'
<1>. SUFFICES ASSUME CallsInv, [CallsNext]_ocVars
              PROVE  CallsInv'
  OBVIOUS
<1>1. CASE SelectNone
  <2>1. /\ ocCall' = "chain-clock" /\ ocResult = "running" /\ ocWait = FALSE
        /\ UNCHANGED <<ocAttempt, ocWait, ocElapsed, ocResult, ocSilent, ocLastSeen>>
    BY <1>1 DEF SelectNone, CallsInv, CallsTypeOK
  <2>2. CallsTypeOK'
    BY <2>1 DEF CallsInv, CallsTypeOK
  <2>3. AttemptsSound' /\ SpentSound' /\ SelectionWithinSpan' /\ OutageKeepsJob'
    BY <2>1 DEF AttemptsSound, SpentSound, SelectionWithinSpan, OutageKeepsJob, Iisa
  <2>. QED BY <2>2, <2>3 DEF CallsInv
<1>2. CASE EndReassessment
  <2>1. /\ ocCall \in {"chain-clock", "surplus-cancels"} /\ ocResult' = "done"
        /\ UNCHANGED <<ocCall, ocAttempt, ocWait, ocElapsed, ocSilent, ocLastSeen>>
    BY <1>2 DEF EndReassessment
  <2>2. CallsTypeOK'
    BY <2>1 DEF CallsInv, CallsTypeOK, Results
  <2>3. AttemptsSound' /\ SpentSound' /\ SelectionWithinSpan' /\ OutageKeepsJob'
    BY <2>1 DEF AttemptsSound, SpentSound, SelectionWithinSpan, OutageKeepsJob, Iisa
  <2>. QED BY <2>2, <2>3 DEF CallsInv
<1>3. CASE UNCHANGED ocVars
  BY <1>3 DEF ocVars, CallsInv, CallsTypeOK, AttemptsSound, SpentSound, WaitSpent, Iisa, IisaSpent,
              SelectionWithinSpan, OutageKeepsJob
<1>. QED BY <1>1, <1>2, <1>3, AttemptKeeps, WaitKeeps, ChainCallKeeps DEF CallsNext

(* CallsSound. For any timeouts, retries and backstop, and however slowly  *)
(* IISA and the chain answer or fail to: IISA takes a reassessment no      *)
(* longer than its two spans, the backstop cuts it while it asks IISA only *)
(* when those outlast it, and an outage leaves the job to be retried       *)
(* (http_client.rs, reassess_indexing_request.rs, run_job_with_timeout).   *)
THEOREM CallsSound == CallsSpec => [](CallsTypeOK /\ SelectionWithinSpan /\ OutageKeepsJob)
<1>1. CallsSpec => []CallsInv
  BY InitCallsInv, CallsStepKeeps, PTL DEF CallsSpec
<1>2. CallsInv => CallsTypeOK /\ SelectionWithinSpan /\ OutageKeepsJob
  BY DEF CallsInv
<1>. QED BY <1>1, <1>2, PTL
-----------------------------------------------------------------------------
(* The life of a job and its retries.                                      *)

(* DelayIs. A longer base waits longer.                                    *)
LEMMA DelayIs ==
  ASSUME NEW base \in Nat, NEW other \in Nat, other <= base, NEW n \in Nat
  PROVE  RequeueDelay(base, n) \in Nat /\ RequeueDelay(other, n) <= RequeueDelay(base, n)
<1>1. LongDelay \in Nat
  BY RetriesAssumption
<1>2. CASE n >= 5
  BY <1>1, <1>2 DEF RequeueDelay
<1>4. CASE n < 5
  <2>1. n \in {0, 1, 2, 3, 4}
    BY <1>4
  <2>2. 2 ^ 0 = 1 /\ 2 ^ 1 = 2 /\ 2 ^ 2 = 4 /\ 2 ^ 3 = 8 /\ 2 ^ 4 = 16
    OBVIOUS
  <2>3. 2 ^ n \in {1, 2, 4, 8, 16}
    BY <2>1, <2>2
  <2>4. PICK k \in {1, 2, 4, 8, 16} : k = 2 ^ n
    BY <2>3
  <2>5. RequeueDelay(base, n) = base * k /\ RequeueDelay(other, n) = other * k
    BY <1>4, <2>4 DEF RequeueDelay
  <2>6. base * k \in Nat /\ other * k <= base * k
    BY <2>4
  <2>. QED BY <2>5, <2>6
<1>. QED BY <1>2, <1>4

(* WaitedIs. The time the retries wait is the sum of their delays.         *)
LEMMA WaitedIs ==
  ASSUME NEW base \in Nat
  PROVE  /\ \A n \in 0 .. BudgetCap : Waited(base)[n] \in Nat
         /\ Waited(base)[0] = 0
         /\ \A n \in 1 .. BudgetCap :
              Waited(base)[n] = Waited(base)[n - 1] + RequeueDelay(base, n - 1)
<1>. DEFINE d == [n \in Nat |-> RequeueDelay(base, n)]
<1>1. d \in [Nat -> Nat]
  BY DelayIs
<1>2. BudgetCap \in Nat
  BY RetriesAssumption
<1>3. PICK f \in [0 .. BudgetCap -> Nat] :
        f[0] = 0 /\ \A n \in 1 .. BudgetCap : f[n] = f[n - 1] + d[n - 1]
  <2>. HIDE DEF d
  <2>. QED BY <1>1, <1>2, SumExists
<1>4. f = [n \in 0 .. BudgetCap |-> IF n = 0 THEN 0 ELSE f[n - 1] + RequeueDelay(base, n - 1)]
  BY <1>2, <1>3
<1>. DEFINE W == Waited(base)
<1>5. W = [n \in 0 .. BudgetCap |-> IF n = 0 THEN 0 ELSE W[n - 1] + RequeueDelay(base, n - 1)]
  BY <1>4, Zenon DEF Waited
<1>. HIDE DEF W
<1>6. W[0] = 0 /\ \A n \in 1 .. BudgetCap : W[n] = W[n - 1] + RequeueDelay(base, n - 1)
  BY <1>2, <1>5
<1>7. \A n \in 1 .. BudgetCap : W[n] = W[n - 1] + d[n - 1]
  BY <1>6
<1>. HIDE DEF d
<1>8. \A n \in 0 .. BudgetCap : W[n] \in Nat
  BY <1>1, <1>2, <1>6, <1>7, SumTyped
<1>. QED BY <1>6, <1>8 DEF W

ShorterBase == Smaller(DroppedBase, TransientBase)

(* A job that may run has an attempt left, one that gave up has none, and  *)
(* an offer has its own budget.                                            *)
CountsSound ==
  /\ orJob \in {"Queued", "Running"} => orCount < orMax /\ ~orGaveUp
  /\ orJob \in {"pushed", "removed"} => ~orGaveUp
  /\ orJob = "pushed" => orCount = 0
  /\ orGaveUp => 1 <= orCount /\ orCount = orMax
  /\ orKind = "submit_offer" /\ orJob # "pushed" => orMax = SubmitOfferMaxRetries(orWindow) + 1

(* An offer has waited at least what its retries wait after the shorter    *)
(* backoff.                                                                *)
ClockSoundRetries ==
  orKind = "submit_offer" =>
    /\ ~orGaveUp => Smaller(orWindow + 1, Waited(ShorterBase)[orCount]) <= orClock
    /\ orGaveUp  => Smaller(orWindow + 1, Waited(ShorterBase)[orCount - 1]) <= orClock

RetriesInv == RetriesTypeOK /\ CountsSound /\ ClockSoundRetries

(* RetryNumbers. The delays and budgets are numbers.                       *)
LEMMA RetryNumbers ==
  /\ DroppedBase \in Nat /\ TransientBase \in Nat /\ BudgetCap \in Nat /\ BudgetCap >= 1
  /\ DefaultRetries \in Nat /\ Windows \subseteq Nat /\ RunLengths \subseteq Nat
  /\ ShorterBase \in Nat /\ ShorterBase <= DroppedBase /\ ShorterBase <= TransientBase
  BY RetriesAssumption DEF ShorterBase, Smaller

(* BudgetIs. The budget of an offer is at most the cap, and below it one   *)
(* more retry would come after the window.                                 *)
LEMMA BudgetIs ==
  ASSUME NEW w \in Nat
  PROVE  /\ SubmitOfferMaxRetries(w) \in 0 .. BudgetCap
         /\ SubmitOfferMaxRetries(w) < BudgetCap =>
              Waited(ShorterBase)[SubmitOfferMaxRetries(w) + 1] > w
<1>. DEFINE Late == {r \in 0 .. (BudgetCap - 1) : Waited(ShorterBase)[r + 1] > w}
<1>1. CASE Late = {}
  BY <1>1, RetryNumbers DEF SubmitOfferMaxRetries, RetriesWithinWindow, ShorterBase
<1>2. CASE Late # {}
  <2>1. Late \in SUBSET Nat
    BY RetryNumbers
  <2>2. \E r \in Late : \A s \in Late : r <= s
    <3>. HIDE DEF Late
    <3>. QED BY <1>2, <2>1, SmallestIn
  <2>3. SubmitOfferMaxRetries(w) = CHOOSE r \in Late : \A s \in Late : r <= s
    BY <1>2 DEF SubmitOfferMaxRetries, RetriesWithinWindow, ShorterBase
  <2>4. SubmitOfferMaxRetries(w) \in Late
    <3>. HIDE DEF Late
    <3>. QED BY <2>2, <2>3
  <2>. QED BY <2>4, RetryNumbers
<1>. QED BY <1>1, <1>2

(* InitRetriesInv. A job is pushed with nothing waited.                    *)
LEMMA InitRetriesInv == RetriesInit => RetriesInv
<1>. SUFFICES ASSUME RetriesInit
              PROVE  RetriesInv
  OBVIOUS
<1>1. orWindow \in Nat
  BY RetryNumbers DEF RetriesInit
<1>2. RetriesTypeOK
  <2>1. orCount \in 0 .. orMax /\ orMax \in 0 .. (BudgetCap + 1) /\ orClock \in 0 .. (orWindow + 1)
    BY <1>1, RetryNumbers DEF RetriesInit
  <2>. QED BY <2>1 DEF RetriesInit, RetriesTypeOK
<1>3. CountsSound
  BY DEF RetriesInit, CountsSound
<1>4. Waited(ShorterBase)[0] = 0
  BY RetryNumbers, WaitedIs
<1>5. ClockSoundRetries
  BY <1>1, <1>4 DEF RetriesInit, ClockSoundRetries, Smaller
<1>. QED BY <1>2, <1>3, <1>5 DEF RetriesInv

(* BudgetHolds. Once the retries ran out, the next one would be too late.  *)
LEMMA BudgetHolds == RetriesInv => BudgetOutlastsWindow
<1>. SUFFICES ASSUME RetriesInv, orKind = "submit_offer", orGaveUp, orMax <= BudgetCap
              PROVE  orClock + RequeueDelay(ShorterBase, orCount - 1) > orWindow
  BY DEF BudgetOutlastsWindow, ShorterBase
<1>1. orWindow \in Nat /\ orClock \in Nat /\ orMax \in Nat /\ orJob # "pushed"
  BY RetryNumbers DEF RetriesInv, RetriesTypeOK, CountsSound
<1>2. orMax = SubmitOfferMaxRetries(orWindow) + 1 /\ orCount = orMax
  BY <1>1 DEF RetriesInv, CountsSound
<1>3. PICK r \in 0 .. BudgetCap : r = SubmitOfferMaxRetries(orWindow)
  BY <1>1, BudgetIs
<1>4. r < BudgetCap /\ orCount = r + 1
  BY <1>2, <1>3, RetryNumbers
<1>5. Waited(ShorterBase)[r + 1] > orWindow
  BY <1>1, <1>3, <1>4, BudgetIs
<1>6. /\ Waited(ShorterBase)[r] \in Nat
      /\ Waited(ShorterBase)[r + 1] = Waited(ShorterBase)[r] + RequeueDelay(ShorterBase, r)
  <2>1. r + 1 \in 1 .. BudgetCap /\ (r + 1) - 1 = r
    BY <1>4, RetryNumbers
  <2>. QED BY <2>1, RetryNumbers, WaitedIs
<1>7. RequeueDelay(ShorterBase, r) \in Nat
  BY RetryNumbers, DelayIs
<1>8. Smaller(orWindow + 1, Waited(ShorterBase)[r]) <= orClock
  <2>1. orCount - 1 = r
    BY <1>4
  <2>. QED BY <2>1 DEF RetriesInv, ClockSoundRetries
<1>9. orClock + RequeueDelay(ShorterBase, r) > orWindow
  BY <1>1, <1>5, <1>6, <1>7, <1>8 DEF Smaller
<1>10. orCount - 1 = r
  BY <1>4
<1>. QED BY <1>9, <1>10

(* JobTyped. The numbers of a job.                                         *)
LEMMA JobTyped ==
  ASSUME RetriesInv
  PROVE  /\ orWindow \in Nat /\ orClock \in Nat /\ orClock <= orWindow + 1
         /\ orMax \in Nat /\ orCount \in Nat /\ orCount <= orMax
  BY RetryNumbers DEF RetriesInv, RetriesTypeOK

(* ClockIs. The clock stops past the window.                               *)
LEMMA ClockIs ==
  ASSUME RetriesInv, NEW s \in Nat
  PROVE  /\ ClockAfter(s) \in 0 .. (orWindow + 1)
         /\ orClock <= ClockAfter(s)
         /\ \A n \in Nat : Smaller(orWindow + 1, n) <= orClock
                             => Smaller(orWindow + 1, n + s) <= ClockAfter(s)
  BY JobTyped DEF ClockAfter, Smaller

(* PushKeeps. A job is pushed with its budget.                             *)
LEMMA PushKeeps == RetriesInv /\ PushJob => RetriesInv'
<1>. SUFFICES ASSUME RetriesInv, PushJob
              PROVE  RetriesInv'
  OBVIOUS
<1>1. /\ orJob' = "Queued" /\ orCount = 0 /\ orGaveUp = FALSE
      /\ UNCHANGED <<orKind, orWindow, orCount, orClock, orGaveUp>>
  BY DEF PushJob, RetriesInv, RetriesTypeOK, CountsSound
<1>2. /\ orKind = "submit_offer" => orMax' = SubmitOfferMaxRetries(orWindow) + 1
      /\ orKind # "submit_offer" => orMax' = DefaultRetries + 1
  BY DEF PushJob, MaxAttemptsOf, RetryBudget
<1>3. SubmitOfferMaxRetries(orWindow) \in 0 .. BudgetCap
  BY JobTyped, BudgetIs
<1>4. /\ orMax' \in (0 .. (BudgetCap + 1)) \cup (0 .. (DefaultRetries + 1))
      /\ orMax' \in Nat /\ orMax' >= 1
  <2>1. CASE orKind = "submit_offer"
    BY <1>2, <1>3, <2>1, RetryNumbers
  <2>2. CASE orKind # "submit_offer"
    BY <1>2, <2>2, RetryNumbers
  <2>. QED BY <2>1, <2>2
<1>5. RetriesTypeOK'
  <2>1. orCount' \in 0 .. orMax'
    BY <1>1, <1>4
  <2>. QED BY <1>1, <1>4, <2>1 DEF RetriesInv, RetriesTypeOK
<1>6. CountsSound'
  <2>1. orCount' < orMax'
    BY <1>1, <1>4
  <2>. QED BY <1>1, <1>2, <2>1 DEF CountsSound, SubmitOfferMaxRetries, RetriesWithinWindow
<1>7. ClockSoundRetries'
  BY <1>1 DEF RetriesInv, ClockSoundRetries
<1>. QED BY <1>5, <1>6, <1>7 DEF RetriesInv

(* PopKeeps. A job is popped, or is done.                                  *)
LEMMA PopKeeps == RetriesInv /\ (PopJob \/ AttemptEnds) => RetriesInv'
<1>. SUFFICES ASSUME RetriesInv, PopJob \/ AttemptEnds
              PROVE  RetriesInv'
  OBVIOUS
<1>1. /\ orJob \in {"Queued", "Running"} /\ orJob' \in {"Running", "removed"}
      /\ UNCHANGED <<orKind, orWindow, orCount, orMax, orClock, orGaveUp>>
  BY DEF PopJob, AttemptEnds
<1>2. RetriesTypeOK'
  BY <1>1 DEF RetriesInv, RetriesTypeOK
<1>3. CountsSound'
  BY <1>1 DEF RetriesInv, CountsSound
<1>4. ClockSoundRetries'
  BY <1>1 DEF RetriesInv, ClockSoundRetries
<1>. QED BY <1>2, <1>3, <1>4 DEF RetriesInv

(* DeferKeeps. A job that is put off waits, and no attempt is counted.     *)
LEMMA DeferKeeps == RetriesInv /\ AttemptDefers => RetriesInv'
<1>. SUFFICES ASSUME RetriesInv, AttemptDefers
              PROVE  RetriesInv'
  OBVIOUS
<1>1. /\ orJob = "Running" /\ orJob' = "Queued" /\ orKind = "other"
      /\ orClock' = ClockAfter(60)
      /\ UNCHANGED <<orKind, orWindow, orCount, orMax, orGaveUp>>
  BY DEF AttemptDefers
<1>2. orClock' \in 0 .. (orWindow + 1)
  BY <1>1, ClockIs
<1>3. RetriesTypeOK'
  BY <1>1, <1>2 DEF RetriesInv, RetriesTypeOK
<1>4. CountsSound'
  BY <1>1 DEF RetriesInv, CountsSound
<1>5. ClockSoundRetries'
  BY <1>1 DEF ClockSoundRetries
<1>. QED BY <1>3, <1>4, <1>5 DEF RetriesInv

(* OfferWaits. What an offer that may run again has waited is a number.    *)
LEMMA OfferWaits ==
  ASSUME RetriesInv, orKind = "submit_offer", orJob = "Running"
  PROVE  /\ Waited(ShorterBase)[orCount] \in Nat
         /\ orCount + 1 < orMax =>
              Waited(ShorterBase)[orCount + 1]
                = Waited(ShorterBase)[orCount] + RequeueDelay(ShorterBase, orCount)
<1>1. orCount < orMax /\ orMax = SubmitOfferMaxRetries(orWindow) + 1
  BY DEF RetriesInv, CountsSound
<1>2. SubmitOfferMaxRetries(orWindow) \in 0 .. BudgetCap
  BY JobTyped, BudgetIs
<1>3. orCount \in 0 .. BudgetCap /\ (orCount + 1 < orMax => orCount + 1 \in 1 .. BudgetCap)
  BY <1>1, <1>2, JobTyped, RetryNumbers
<1>4. (orCount + 1) - 1 = orCount
  BY JobTyped
<1>. QED BY <1>3, <1>4, RetryNumbers, WaitedIs

(* FailureKeeps. An attempt fails: the job waits, or it was the last.      *)
LEMMA FailureKeeps == RetriesInv /\ AttemptFails => RetriesInv'
<1>. SUFFICES ASSUME RetriesInv, AttemptFails
              PROVE  RetriesInv'
  OBVIOUS
<1>1. /\ orJob = "Running" /\ orGaveUp = FALSE /\ orCount < orMax
      /\ UNCHANGED <<orKind, orWindow, orMax>>
  BY DEF AttemptFails, RetriesInv, RetriesTypeOK, CountsSound
<1>2. PICK s \in RunLengths, base \in {DroppedBase, TransientBase} : CountAttempt(s, base)
  BY DEF AttemptFails
<1>3. s \in Nat /\ base \in Nat /\ ShorterBase <= base
  BY <1>2, RetryNumbers
<1>4. PICK wait \in Nat : wait = RequeueDelay(base, orCount)
  BY <1>3, JobTyped, DelayIs
<1>5. orCount' = orCount + 1
  BY <1>2 DEF CountAttempt
<1>6. CASE orCount + 1 >= orMax
  <2>1. orJob' = "Failed" /\ orGaveUp' = TRUE /\ orClock' = ClockAfter(s)
    BY <1>2, <1>6 DEF CountAttempt
  <2>2. orCount' = orMax' /\ 1 <= orCount' /\ orCount' \in 0 .. orMax' /\ orCount' - 1 = orCount
    BY <1>1, <1>5, <1>6, JobTyped
  <2>3. orClock' \in 0 .. (orWindow + 1) /\ orClock <= orClock'
    BY <1>3, <2>1, ClockIs
  <2>4. RetriesTypeOK'
    BY <1>1, <2>1, <2>2, <2>3 DEF RetriesInv, RetriesTypeOK
  <2>5. CountsSound'
    BY <1>1, <2>1, <2>2 DEF RetriesInv, CountsSound
  <2>6. ClockSoundRetries'
    <3>. SUFFICES ASSUME orKind = "submit_offer"
                  PROVE  Smaller(orWindow + 1, Waited(ShorterBase)[orCount]) <= orClock'
      BY <1>1, <2>1, <2>2 DEF ClockSoundRetries
    <3>1. Smaller(orWindow + 1, Waited(ShorterBase)[orCount]) <= orClock
      BY <1>1 DEF RetriesInv, ClockSoundRetries
    <3>2. Waited(ShorterBase)[orCount] \in Nat
      BY <1>1, OfferWaits
    <3>. QED BY <2>3, <3>1, <3>2, JobTyped DEF Smaller
  <2>. QED BY <2>4, <2>5, <2>6 DEF RetriesInv
<1>7. CASE orCount + 1 < orMax
  <2>1. orJob' = "Queued" /\ orGaveUp' = FALSE /\ orClock' = ClockAfter(s + wait)
    <3>1. ~(orCount + 1 >= orMax)
      BY <1>7, JobTyped
    <3>. QED BY <1>1, <1>2, <1>4, <3>1 DEF CountAttempt
  <2>2. orCount' < orMax' /\ orCount' \in 0 .. orMax'
    BY <1>1, <1>5, <1>7, JobTyped
  <2>3. s + wait \in Nat /\ orClock' \in 0 .. (orWindow + 1)
    <3>1. s + wait \in Nat
      BY <1>3, <1>4
    <3>. QED BY <2>1, <3>1, ClockIs
  <2>4. RetriesTypeOK'
    BY <1>1, <2>1, <2>2, <2>3 DEF RetriesInv, RetriesTypeOK
  <2>5. CountsSound'
    BY <1>1, <2>1, <2>2 DEF RetriesInv, CountsSound
  <2>6. ClockSoundRetries'
    <3>. SUFFICES ASSUME orKind = "submit_offer"
                  PROVE  Smaller(orWindow + 1, Waited(ShorterBase)[orCount + 1]) <= orClock'
      BY <1>1, <1>5, <2>1 DEF ClockSoundRetries
    <3>1. Smaller(orWindow + 1, Waited(ShorterBase)[orCount]) <= orClock
      BY <1>1 DEF RetriesInv, ClockSoundRetries
    <3>2. /\ Waited(ShorterBase)[orCount] \in Nat
          /\ Waited(ShorterBase)[orCount + 1]
               = Waited(ShorterBase)[orCount] + RequeueDelay(ShorterBase, orCount)
      BY <1>1, <1>7, OfferWaits
    <3>3. PICK least \in Nat : least = RequeueDelay(ShorterBase, orCount) /\ least <= wait
      <4>1. ShorterBase \in Nat /\ orCount \in Nat
        BY RetryNumbers, JobTyped
      <4>2. /\ RequeueDelay(ShorterBase, orCount) \in Nat
            /\ RequeueDelay(ShorterBase, orCount) <= RequeueDelay(base, orCount)
        BY <1>3, <4>1, DelayIs
      <4>. QED BY <1>4, <4>2
    <3>4. Smaller(orWindow + 1, Waited(ShorterBase)[orCount] + (s + wait)) <= orClock'
      BY <2>1, <2>3, <3>1, <3>2, ClockIs
    <3>5. PICK w \in Nat : w = Waited(ShorterBase)[orCount]
      BY <3>2
    <3>6. Waited(ShorterBase)[orCount + 1] = w + least
      BY <3>2, <3>3, <3>5
    <3>7. Smaller(orWindow + 1, w + (s + wait)) <= orClock'
      BY <3>4, <3>5
    <3>8. Smaller(orWindow + 1, w + least) <= Smaller(orWindow + 1, w + (s + wait))
      BY <1>3, <1>4, <3>3, <3>5, JobTyped DEF Smaller
    <3>9. orClock' \in Nat /\ orWindow \in Nat
      BY <2>3, JobTyped
    <3>. QED BY <1>3, <1>4, <3>3, <3>5, <3>6, <3>7, <3>8, <3>9 DEF Smaller
  <2>. QED BY <2>4, <2>5, <2>6 DEF RetriesInv
<1>. QED BY <1>6, <1>7, JobTyped

(* RetriesStepKeeps. Every step of a job's life keeps its invariant.       *)
LEMMA RetriesStepKeeps == RetriesInv /\ [RetriesNext]_orVars => RetriesInv'
<1>. SUFFICES ASSUME RetriesInv, [RetriesNext]_orVars
              PROVE  RetriesInv'
  OBVIOUS
<1>1. CASE RetriesNext
  BY <1>1, PushKeeps, PopKeeps, DeferKeeps, FailureKeeps DEF RetriesNext
<1>2. CASE UNCHANGED orVars
  BY <1>2 DEF orVars, RetriesInv, RetriesTypeOK, CountsSound, ClockSoundRetries
<1>. QED BY <1>1, <1>2

(* RetriesSound. Whatever the window, the two backoffs, the cap and the    *)
(* time an attempt takes, and in whichever order the failures come, the    *)
(* retries of an offer outlast the indexer's window to accept it           *)
(* (retries_within_window, requeue).                                       *)
THEOREM RetriesSound == RetriesSpec => [](RetriesTypeOK /\ BudgetOutlastsWindow)
<1>1. RetriesSpec => []RetriesInv
  BY InitRetriesInv, RetriesStepKeeps, PTL DEF RetriesSpec
<1>2. RetriesInv => RetriesTypeOK /\ BudgetOutlastsWindow
  BY BudgetHolds DEF RetriesInv
<1>. QED BY <1>1, <1>2, PTL
-----------------------------------------------------------------------------
(* The liveness checker.                                                   *)

(* Indexers that serve are treated alike.                                  *)
ServingAlike ==
  \A i, j \in Watched : kind[i] = "serving" /\ kind[j] = "serving" => row[i] = row[j]

(* A trip that few gone indexers cannot cause began in an outage, which    *)
(* has not been over for longer than the trip was quiet.                   *)
TripsInOutage ==
  FewGone /\ trippedSince # NotYet /\ (\E i \in Accepted : kind[i] = "serving")
    => outage.from # NotYet /\ outage.from <= trippedSince /\ outage.good <= quiet

(* The span of the trip reaches as far as it held, but for the cycles that *)
(* failed, until it is too old to matter.                                  *)
SpanReaches ==
  trippedSince # NotYet =>
    \/ cycle - trippedSince > 2 * MaxHold
    \/ /\ held[trippedSince] >= trippedSince
       /\ \/ held[trippedSince] + liveFaults >= cycle - 1
          \/ held[trippedSince] + liveFaults >= trippedSince + MaxHold

(* The longest without progress before a trip.                             *)
Patience(faults) == (2 + faults) * MaxHold + 1 + 2 * faults

ProgressSound ==
  \A i \in Accepted : row[i].progressAt # NotYet =>
    /\ trippedSince = NotYet => cycle - row[i].progressAt <= Patience(liveFaults)
    /\ trippedSince # NotYet => trippedSince - row[i].progressAt <= Patience(liveFaults)
    /\ cycle - row[i].progressAt <= Patience(liveFaults) + MaxHold + 1

CyclesPast ==
  /\ trippedSince < cycle /\ outage.from < cycle
  /\ \A i \in Watched : row[i].progressAt < cycle

LivenessInv == LivenessTypeOK /\ CyclesPast /\ ServingAlike /\ TripsInOutage /\ SpanReaches
                 /\ ProgressSound

(* LivenessNumbers. The numbers of the checker are numbers.                *)
LEMMA LivenessNumbers ==
  /\ CyclesPerDay \in Nat /\ MaxTolerance \in Nat /\ TripPercent \in Nat /\ TripMin \in Nat
  /\ MaxCycles \in Nat /\ LiveFaults \in Nat
  /\ 1 <= TripPercent /\ TripPercent <= 100 /\ 0 < CyclesPerDay
  /\ NotYet = -1 /\ ClearCycles = 3
  BY LivenessAssumption DEF NotYet, ClearCycles

(* HoldIs. A trip holds for days.                                          *)
LEMMA HoldIs ==
  /\ MaxHold \in Nat /\ CyclesPerDay <= MaxHold
  /\ \A k \in Nat : (k <= MaxTolerance \/ k <= 1) /\ 1 <= k
       => CyclesPerDay <= k * CyclesPerDay /\ k * CyclesPerDay <= MaxHold
<1>1. Max({MaxTolerance, 1}) = IF MaxTolerance >= 1 THEN MaxTolerance ELSE 1
  BY LivenessNumbers, LargerOfTwo
<1>2. PICK m \in Nat : m = Max({MaxTolerance, 1}) /\ 1 <= m /\ MaxTolerance <= m
  BY <1>1, LivenessNumbers
<1>3. MaxHold = m * CyclesPerDay
  BY <1>2 DEF MaxHold
<1>4. m * CyclesPerDay \in Nat /\ CyclesPerDay <= m * CyclesPerDay
  <2>1. (m - 1) * CyclesPerDay \in Nat
    BY <1>2, LivenessNumbers
  <2>. QED BY <1>2, <2>1, LivenessNumbers
<1>5. ASSUME NEW k \in Nat, k <= MaxTolerance \/ k <= 1, 1 <= k
      PROVE  CyclesPerDay <= k * CyclesPerDay /\ k * CyclesPerDay <= MaxHold
  <2>1. (k - 1) * CyclesPerDay \in Nat /\ (m - k) * CyclesPerDay \in Nat
    BY <1>2, <1>5, LivenessNumbers
  <2>. QED BY <1>2, <1>3, <2>1, LivenessNumbers
<1>. QED BY <1>3, <1>4, <1>5

(* AcceptedFinite. So many agreements are watched.                         *)
LEMMA AcceptedFinite ==
  /\ IsFiniteSet(Accepted) /\ Cardinality(Accepted) \in Nat
  /\ \A i \in Accepted : Cardinality(Accepted) > 0
<1>1. Accepted \in SUBSET Watched
  BY DEF Accepted
<1>2. IsFiniteSet(Accepted)
  BY <1>1, LivenessAssumption, FS_Subset
<1>3. Cardinality(Accepted) \in Nat
  BY <1>2, FS_CardinalityType
<1>4. Cardinality(Accepted) = 0 <=> Accepted = {}
  BY <1>2, FS_EmptySet
<1>. QED BY <1>2, <1>3, <1>4

(* ToleranceIs. A day is tolerated, and at most as long as a trip holds.   *)
LEMMA ToleranceIs ==
  Tolerance \in Nat /\ CyclesPerDay <= Tolerance /\ Tolerance <= MaxHold
<1>1. PICK n \in Nat : n = ActiveCount
  BY AcceptedFinite DEF ActiveCount
<1>2. Min({n, MaxTolerance}) = IF n <= MaxTolerance THEN n ELSE MaxTolerance
  BY LivenessNumbers, SmallerOfTwo
<1>3. PICK m \in Nat : m = Min({n, MaxTolerance}) /\ m <= MaxTolerance
  BY <1>2, LivenessNumbers
<1>4. Max({m, 1}) = IF m >= 1 THEN m ELSE 1
  BY LargerOfTwo
<1>5. PICK k \in Nat : k = Max({m, 1}) /\ 1 <= k /\ (k <= MaxTolerance \/ k <= 1)
  BY <1>3, <1>4, LivenessNumbers
<1>6. Tolerance = k * CyclesPerDay
  BY <1>1, <1>3, <1>5 DEF Tolerance
<1>7. CyclesPerDay <= k * CyclesPerDay /\ k * CyclesPerDay <= MaxHold
  BY <1>5, HoldIs
<1>8. k * CyclesPerDay \in Nat
  BY LivenessNumbers
<1>. QED BY <1>6, <1>7, <1>8

(* GraceIs. The time left out is at most the longest a trip holds, and at  *)
(* least the time of each span since then.                                 *)
LEMMA GraceIs ==
  ASSUME NEW at \in Int, NEW spans \in [0 .. MaxCycles -> Int]
  PROVE  /\ Grace(at, spans) \in 0 .. MaxHold
         /\ \A k \in 0 .. MaxCycles :
              at <= k => Grace(at, spans) = MaxHold \/ Grace(at, spans) >= spans[k] - k
<1>. DEFINE N == MaxCycles + 1
            d == [n \in Nat |-> IF n <= MaxCycles THEN Max({0, spans[n] - Max({n, at})}) ELSE 0]
<1>1. N \in Nat
  BY LivenessNumbers
<1>2. ASSUME NEW n \in 0 .. MaxCycles
      PROVE  /\ Max({0, spans[n] - Max({n, at})}) \in Nat
             /\ at <= n => Max({0, spans[n] - Max({n, at})}) >= spans[n] - n
  <2>1. Max({n, at}) = IF n >= at THEN n ELSE at
    BY LargerOfTwo, LivenessNumbers
  <2>2. PICK m \in Int : m = Max({n, at}) /\ (at <= n => m = n)
    BY <2>1, LivenessNumbers
  <2>3. spans[n] \in Int
    OBVIOUS
  <2>4. PICK x \in Int : x = spans[n] - m
    BY <2>2, <2>3
  <2>5. Max({0, x}) = IF 0 >= x THEN 0 ELSE x
    BY LargerOfTwo
  <2>6. Max({0, spans[n] - Max({n, at})}) = Max({0, x})
    BY <2>2, <2>4
  <2>7. Max({0, x}) \in Nat /\ Max({0, x}) >= x
    BY <2>5
  <2>. QED BY <2>2, <2>3, <2>4, <2>6, <2>7
<1>3. d \in [Nat -> Nat]
  <2>1. ASSUME NEW n \in Nat
        PROVE  (IF n <= MaxCycles THEN Max({0, spans[n] - Max({n, at})}) ELSE 0) \in Nat
    <3>1. CASE n <= MaxCycles
      <4>1. n \in 0 .. MaxCycles
        BY <3>1, LivenessNumbers
      <4>. QED BY <3>1, <4>1, <1>2
    <3>. QED BY <3>1
  <2>. QED BY <2>1
<1>4. \A n \in 0 .. MaxCycles : d[n] = Max({0, spans[n] - Max({n, at})})
  <2>. SUFFICES ASSUME NEW n \in 0 .. MaxCycles
                PROVE  d[n] = Max({0, spans[n] - Max({n, at})})
    OBVIOUS
  <2>1. n \in Nat /\ n <= MaxCycles
    BY LivenessNumbers
  <2>. QED BY <2>1
<1>5. \A n \in 1 .. N : d[n - 1] = Max({0, spans[n - 1] - Max({n - 1, at})})
  BY <1>4, LivenessNumbers
<1>. DEFINE T == CHOOSE T : T = [n \in 0 .. MaxCycles + 1 |->
                   IF n = 0 THEN 0 ELSE T[n - 1] + Max({0, spans[n - 1] - Max({n - 1, at})})]
<1>6. Grace(at, spans) = Min({MaxHold, T[N]})
  BY Zenon DEF Grace
<1>7. T[0] = 0 /\ \A n \in 1 .. N : T[n] = T[n - 1] + d[n - 1]
  <2>. HIDE DEF d
  <2>1. PICK f \in [0 .. N -> Nat] : f[0] = 0 /\ \A n \in 1 .. N : f[n] = f[n - 1] + d[n - 1]
    BY <1>1, <1>3, SumExists
  <2>2. f = [n \in 0 .. MaxCycles + 1 |->
               IF n = 0 THEN 0 ELSE f[n - 1] + Max({0, spans[n - 1] - Max({n - 1, at})})]
    <3>1. ASSUME NEW n \in 0 .. N
          PROVE  f[n] = IF n = 0 THEN 0 ELSE f[n - 1] + Max({0, spans[n - 1] - Max({n - 1, at})})
      <4>1. CASE n = 0
        BY <2>1, <4>1
      <4>2. CASE n # 0
        <5>1. n \in 1 .. N
          BY <4>2, <1>1
        <5>2. f[n] = f[n - 1] + d[n - 1] /\ d[n - 1] = Max({0, spans[n - 1] - Max({n - 1, at})})
          BY <2>1, <5>1, <1>5
        <5>. QED BY <4>2, <5>2
      <4>. QED BY <4>1, <4>2
    <3>. QED BY <3>1, Zenon
  <2>3. T = [n \in 0 .. MaxCycles + 1 |->
               IF n = 0 THEN 0 ELSE T[n - 1] + Max({0, spans[n - 1] - Max({n - 1, at})})]
    BY <2>2, Zenon
  <2>4. ASSUME NEW n \in 0 .. N
        PROVE  T[n] = IF n = 0 THEN 0 ELSE T[n - 1] + Max({0, spans[n - 1] - Max({n - 1, at})})
    BY <2>3, Zenon
  <2>. HIDE DEF T
  <2>5. T[0] = 0
    <3>1. 0 \in 0 .. N
      BY <1>1
    <3>. QED BY <3>1, <2>4
  <2>6. ASSUME NEW n \in 1 .. N
        PROVE  T[n] = T[n - 1] + d[n - 1]
    <3>1. n \in 0 .. N /\ n # 0
      BY <1>1
    <3>2. T[n] = T[n - 1] + Max({0, spans[n - 1] - Max({n - 1, at})})
      BY <3>1, <2>4
    <3>. QED BY <3>2, <1>5
  <2>. QED BY <2>5, <2>6
<1>. HIDE DEF T, d
<1>8. T[N] \in Nat /\ \A k \in 0 .. N - 1 : T[N] >= d[k]
  <2>1. T[N] \in Nat
    <3>1. \A n \in 0 .. N : T[n] \in Nat
      BY <1>1, <1>3, <1>7, SumTyped
    <3>2. N \in 0 .. N
      BY <1>1
    <3>. QED BY <3>1, <3>2
  <2>2. ASSUME NEW k \in 0 .. N - 1
        PROVE  T[N] >= d[k]
    BY <1>1, <1>3, <1>7, SumCovers
  <2>. QED BY <2>1, <2>2
<1>9. PICK x \in Nat : x = T[N]
  BY <1>8
<1>10. Min({MaxHold, x}) = IF MaxHold <= x THEN MaxHold ELSE x
  BY HoldIs, SmallerOfTwo
<1>11. Grace(at, spans) \in 0 .. MaxHold /\ (Grace(at, spans) = MaxHold \/ Grace(at, spans) = x)
  BY <1>6, <1>9, <1>10, HoldIs
<1>12. ASSUME NEW k \in 0 .. MaxCycles, at <= k
       PROVE  x >= spans[k] - k
  <2>1. k \in 0 .. N - 1
    BY LivenessNumbers
  <2>2. x >= d[k] /\ d[k] = Max({0, spans[k] - Max({k, at})})
    BY <1>4, <1>8, <1>9, <2>1
  <2>3. d[k] \in Nat /\ d[k] >= spans[k] - k
    BY <1>2, <1>12, <2>2
  <2>4. spans[k] \in Int /\ k \in Int
    BY LivenessNumbers
  <2>. QED BY <2>2, <2>3, <2>4
<1>. QED BY <1>11, <1>12

(* RowTyped. A row's fields are what they are.                             *)
LEMMA RowTyped ==
  ASSUME LivenessTypeOK, NEW i \in Watched
  PROVE  /\ row[i].progressAt \in Int /\ NotYet <= row[i].progressAt
         /\ row[i].status \in {"accepted", "abandoned"}
  BY LivenessNumbers DEF LivenessTypeOK

(* What an agreement's clock is taken to have started at, in a cycle.      *)
ClockOf(i, down) ==
  IF Reports(i, down) = "unreachable" /\ ~Holds(trippedSince') /\ row[i].progressAt # NotYet
  THEN row[i].progressAt + Grace(row[i].progressAt, Retained)
  ELSE row[i].progressAt

(* The trip of a cycle.                                                    *)
Trips(down) ==
  UnreachableTrips(Cardinality(Accepted),
                   Cardinality({i \in Accepted : Reports(i, down) = "unreachable"}))

(* CycleTrips. What a cycle does to the breaker.                           *)
LEMMA CycleTrips ==
  ASSUME NEW down, NEW writes, LivenessCycle(down, writes)
  PROVE  /\ Trips(down) => /\ trippedSince' = IF trippedSince = NotYet THEN cycle ELSE trippedSince
                           /\ quiet' = 0
         /\ ~Trips(down) /\ trippedSince = NotYet => trippedSince' = NotYet /\ quiet' = quiet
         /\ ~Trips(down) /\ trippedSince # NotYet /\ quiet + 1 < ClearCycles
              => trippedSince' = trippedSince /\ quiet' = quiet + 1
         /\ ~Trips(down) /\ trippedSince # NotYet /\ ~(quiet + 1 < ClearCycles)
              => trippedSince' = NotYet /\ quiet' = 0
<1>1. {i \in Accepted : Reports(i, down) = "unreachable"}
        = {i \in Accepted : [j \in Accepted |-> Reports(j, down)][i] = "unreachable"}
  OBVIOUS
<1>2. trippedSince' = Noted(Trips(down)).since /\ quiet' = Noted(Trips(down)).quiet
  BY <1>1, Zenon DEF LivenessCycle, Trips
<1>3. CASE Trips(down)
  <2>1. Noted(Trips(down))
          = [since |-> IF trippedSince = NotYet THEN cycle ELSE trippedSince, quiet |-> 0]
    BY <1>3, Zenon DEF Noted
  <2>2. /\ trippedSince' = IF trippedSince = NotYet THEN cycle ELSE trippedSince
        /\ quiet' = 0
    BY <1>2, <2>1
  <2>. QED BY <1>3, <2>2, Zenon
<1>4. CASE ~Trips(down) /\ trippedSince = NotYet
  <2>1. Noted(Trips(down)) = [since |-> trippedSince, quiet |-> quiet]
    BY <1>4, Zenon DEF Noted
  <2>. QED BY <1>2, <1>4, <2>1
<1>5. CASE ~Trips(down) /\ trippedSince # NotYet /\ quiet + 1 < ClearCycles
  <2>1. Noted(Trips(down)) = [since |-> trippedSince, quiet |-> quiet + 1]
    BY <1>5, Zenon DEF Noted
  <2>. QED BY <1>2, <1>5, <2>1
<1>6. CASE ~Trips(down) /\ trippedSince # NotYet /\ ~(quiet + 1 < ClearCycles)
  <2>1. Noted(Trips(down)) = [since |-> NotYet, quiet |-> 0]
    BY <1>6, Zenon DEF Noted
  <2>. QED BY <1>2, <1>6, <2>1
<1>7. \/ Trips(down)
      \/ ~Trips(down) /\ trippedSince = NotYet
      \/ ~Trips(down) /\ trippedSince # NotYet /\ quiet + 1 < ClearCycles
      \/ ~Trips(down) /\ trippedSince # NotYet /\ ~(quiet + 1 < ClearCycles)
  BY Zenon
<1>. QED BY <1>3, <1>4, <1>5, <1>6, <1>7, Zenon

(* CycleSpans. What a cycle does to the spans.                             *)
LEMMA CycleSpans ==
  ASSUME NEW down, NEW writes, LivenessCycle(down, writes)
  PROVE  /\ Accepted # {}
         /\ Holds(trippedSince') => held' = Extended(Retained, trippedSince')
         /\ ~Holds(trippedSince') => held' = Retained
  BY Zenon DEF LivenessCycle

(* CycleRows. What a cycle does to a row.                                  *)
LEMMA CycleRows ==
  ASSUME NEW down, NEW writes \in BOOLEAN, LivenessCycle(down, writes)
  PROVE  row' = [i \in Watched |->
                   IF i \in Accepted
                   THEN Checked(i, Reports(i, down), Holds(trippedSince'), Retained, writes)
                   ELSE row[i]]
<1>1. \A i \in Accepted : [j \in Accepted |-> Reports(j, down)][i] = Reports(i, down)
  OBVIOUS
<1>2. row' = [i \in Watched |->
                IF i \in Accepted
                THEN Checked(i, [j \in Accepted |-> Reports(j, down)][i], Holds(trippedSince'),
                             Retained, writes)
                ELSE row[i]]
  BY Zenon DEF LivenessCycle
<1>. QED BY <1>1, <1>2, Zenon

(* CheckedIs. What becomes of an accepted agreement's row.                 *)
LEMMA CheckedIs ==
  ASSUME NEW down, NEW i \in Accepted
  PROVE  LET r == Reports(i, down)
             c == Checked(i, r, Holds(trippedSince'), Retained, TRUE)
         IN /\ Checked(i, r, Holds(trippedSince'), Retained, FALSE) = row[i]
            /\ \/ c = [row[i] EXCEPT !.height = IF r = "unreachable" THEN 0 ELSE 1,
                                     !.progressAt = cycle]
               \/ /\ c = [row[i] EXCEPT !.status = "abandoned"]
                  /\ r # "changed"
                  /\ ~(r = "unreachable" /\ Holds(trippedSince'))
                  /\ ClockOf(i, down) # NotYet /\ cycle - ClockOf(i, down) > Tolerance
               \/ /\ c = row[i]
                  /\ \/ r = "unreachable" /\ Holds(trippedSince')
                     \/ ClockOf(i, down) # NotYet => ~(cycle - ClockOf(i, down) > Tolerance)
<1>. DEFINE r == Reports(i, down)
            c == Checked(i, r, Holds(trippedSince'), Retained, TRUE)
            a == Action(i, r, ClockOf(i, down))
<1>1. row[i].status = "accepted"
  BY DEF Accepted
<1>2. Checked(i, r, Holds(trippedSince'), Retained, FALSE) = row[i]
  BY <1>1, Zenon DEF Checked
<1>3. a \in {"initialize", "reset", "cancel", "wait"}
  BY Zenon DEF Action
<1>4. a = "cancel" => /\ r # "changed"
                      /\ ClockOf(i, down) # NotYet /\ cycle - ClockOf(i, down) > Tolerance
  BY Zenon DEF Action
<1>5. a = "wait" => (ClockOf(i, down) # NotYet => ~(cycle - ClockOf(i, down) > Tolerance))
  BY Zenon DEF Action
<1>6. a \in {"initialize", "reset"}
        => c = [row[i] EXCEPT !.height = IF r = "unreachable" THEN 0 ELSE 1, !.progressAt = cycle]
  BY <1>1, Zenon DEF Checked, ClockOf
<1>7. a = "cancel" /\ ~(r = "unreachable" /\ Holds(trippedSince'))
        => c = [row[i] EXCEPT !.status = "abandoned"]
  BY <1>1, Zenon DEF Checked, ClockOf
<1>8. a = "cancel" /\ r = "unreachable" /\ Holds(trippedSince') => c = row[i]
  BY <1>1, Zenon DEF Checked, ClockOf
<1>9. a = "wait" => c = row[i]
  BY <1>1, Zenon DEF Checked, ClockOf
<1>. HIDE DEF r, c, a
<1>. QED BY <1>2, <1>3, <1>4, <1>5, <1>6, <1>7, <1>8, <1>9 DEF r, c, a

(* A cycle that runs, with the time it takes.                              *)
Cycled(down, writes) ==
  /\ cycle < MaxCycles /\ cycle' = cycle + 1
  /\ LivenessCycle(down, writes)
  /\ outage' = Outage(down)
  /\ kind' = kind
  /\ liveFaults' \in 0 .. LiveFaults /\ liveFaults <= liveFaults'
  /\ ~writes => liveFaults' = liveFaults + 1

(* CycledRow. A row stays, its clock starts anew, or it is abandoned.      *)
LEMMA CycledRow ==
  ASSUME LivenessTypeOK, NEW down \in BOOLEAN, NEW writes \in BOOLEAN, Cycled(down, writes),
         NEW i \in Watched
  PROVE  \/ /\ row'[i] = row[i]
            /\ i \in Accepted =>
                 \/ ~writes
                 \/ Reports(i, down) = "unreachable" /\ Holds(trippedSince')
                 \/ ClockOf(i, down) # NotYet => ~(cycle - ClockOf(i, down) > Tolerance)
         \/ /\ i \in Accepted /\ row'[i].status = "accepted" /\ row'[i].progressAt = cycle
            /\ row'[i].height \in {0, 1} /\ row'[i] \in [status : {"accepted", "abandoned"},
                 height : {NotYet, 0, 1}, progressAt : {NotYet} \cup 0 .. MaxCycles]
         \/ /\ i \in Accepted /\ row'[i] = [row[i] EXCEPT !.status = "abandoned"]
            /\ writes /\ Reports(i, down) # "changed"
            /\ ~(Reports(i, down) = "unreachable" /\ Holds(trippedSince'))
            /\ ClockOf(i, down) # NotYet /\ cycle - ClockOf(i, down) > Tolerance
<1>1. row'[i] = IF i \in Accepted
                THEN Checked(i, Reports(i, down), Holds(trippedSince'), Retained, writes)
                ELSE row[i]
  BY CycleRows, Zenon DEF Cycled
<1>2. CASE i \notin Accepted
  BY <1>1, <1>2, Zenon
<1>3. CASE i \in Accepted /\ ~writes
  <2>1. writes = FALSE
    BY <1>3
  <2>2. row'[i] = row[i]
    BY <1>1, <1>3, <2>1, CheckedIs, Zenon
  <2>. QED BY <1>3, <2>2, Zenon
<1>4. CASE i \in Accepted /\ writes
  <2>. DEFINE c == Checked(i, Reports(i, down), Holds(trippedSince'), Retained, TRUE)
  <2>1. writes = TRUE
    BY <1>4
  <2>2. row'[i] = c
    BY <1>1, <1>4, <2>1, Zenon
  <2>3. \/ c = [row[i] EXCEPT !.height = IF Reports(i, down) = "unreachable" THEN 0 ELSE 1,
                              !.progressAt = cycle]
        \/ /\ c = [row[i] EXCEPT !.status = "abandoned"]
           /\ Reports(i, down) # "changed"
           /\ ~(Reports(i, down) = "unreachable" /\ Holds(trippedSince'))
           /\ ClockOf(i, down) # NotYet /\ cycle - ClockOf(i, down) > Tolerance
        \/ /\ c = row[i]
           /\ \/ Reports(i, down) = "unreachable" /\ Holds(trippedSince')
              \/ ClockOf(i, down) # NotYet => ~(cycle - ClockOf(i, down) > Tolerance)
    BY <1>4, CheckedIs, Zenon
  <2>. HIDE DEF c
  <2>4. CASE c = [row[i] EXCEPT !.height = IF Reports(i, down) = "unreachable" THEN 0 ELSE 1,
                                !.progressAt = cycle]
    <3>1. PICK h \in {0, 1} : h = IF Reports(i, down) = "unreachable" THEN 0 ELSE 1
      OBVIOUS
    <3>2. row'[i] = [row[i] EXCEPT !.height = h, !.progressAt = cycle]
      BY <2>2, <2>4, <3>1, Zenon
    <3>3. row[i] \in [status : {"accepted", "abandoned"}, height : {NotYet, 0, 1},
                      progressAt : {NotYet} \cup 0 .. MaxCycles] /\ cycle \in 0 .. MaxCycles
      BY DEF LivenessTypeOK
    <3>4. row[i].status = "accepted"
      BY <1>4 DEF Accepted
    <3>5. /\ row'[i].status = "accepted" /\ row'[i].progressAt = cycle /\ row'[i].height \in {0, 1}
          /\ row'[i] \in [status : {"accepted", "abandoned"}, height : {NotYet, 0, 1},
                          progressAt : {NotYet} \cup 0 .. MaxCycles]
      BY <3>2, <3>3, <3>4
    <3>. QED BY <1>4, <3>5, Zenon
  <2>. QED BY <1>4, <2>2, <2>3, <2>4, Zenon
<1>. QED BY <1>2, <1>3, <1>4, Zenon

(* SpansTyped. The spans left are spans.                                   *)
LEMMA SpansTyped ==
  ASSUME LivenessTypeOK
  PROVE  Retained \in [0 .. MaxCycles -> {NotYet} \cup 0 .. MaxCycles]
  BY DEF LivenessTypeOK, Retained

(* CycledSince. When the trip of a cycle began.                            *)
LEMMA CycledSince ==
  ASSUME LivenessTypeOK, NEW down, NEW writes, LivenessCycle(down, writes)
  PROVE  /\ trippedSince' \in {NotYet, trippedSince, cycle} /\ quiet' \in 0 .. ClearCycles - 1
         /\ trippedSince' = cycle => trippedSince \in {NotYet, cycle}
<1>1. quiet \in 0 .. ClearCycles - 1
  BY DEF LivenessTypeOK
<1>2. CASE Trips(down)
  BY <1>2, CycleTrips, LivenessNumbers
<1>3. CASE ~Trips(down) /\ trippedSince = NotYet
  BY <1>1, <1>3, CycleTrips
<1>4. CASE ~Trips(down) /\ trippedSince # NotYet /\ quiet + 1 < ClearCycles
  BY <1>1, <1>4, CycleTrips, LivenessNumbers
<1>5. CASE ~Trips(down) /\ trippedSince # NotYet /\ ~(quiet + 1 < ClearCycles)
  <2>1. NotYet # cycle
    BY LivenessNumbers DEF LivenessTypeOK
  <2>. QED BY <1>5, <2>1, CycleTrips, LivenessNumbers
<1>. QED BY <1>2, <1>3, <1>4, <1>5

(* OutageIs. What a cycle sees of the outage.                              *)
LEMMA OutageIs ==
  ASSUME LivenessTypeOK, NEW down \in BOOLEAN
  PROVE  /\ Outage(down) \in [from : {NotYet} \cup 0 .. MaxCycles, good : 0 .. ClearCycles]
         /\ Outage(down).from \in {NotYet, outage.from, cycle}
         /\ down => /\ Outage(down).good = 0
                    /\ Outage(down).from = IF outage.from = NotYet THEN cycle ELSE outage.from
         /\ ~down /\ outage.from # NotYet /\ outage.good + 1 < ClearCycles
              => /\ Outage(down).good = outage.good + 1
                 /\ Outage(down).from = outage.from
<1>1. /\ outage \in [from : {NotYet} \cup 0 .. MaxCycles, good : 0 .. ClearCycles]
      /\ cycle \in 0 .. MaxCycles
  BY DEF LivenessTypeOK
<1>2. CASE down
  <2>1. Outage(down) = [from |-> IF outage.from = NotYet THEN cycle ELSE outage.from, good |-> 0]
    BY <1>2, Zenon DEF Outage
  <2>2. PICK v \in {NotYet} \cup 0 .. MaxCycles :
          v = (IF outage.from = NotYet THEN cycle ELSE outage.from) /\ v \in {outage.from, cycle}
    BY <1>1
  <2>3. Outage(down) = [from |-> v, good |-> 0]
    BY <2>1, <2>2
  <2>4. 0 \in 0 .. ClearCycles
    BY LivenessNumbers
  <2>5. Outage(down).from = v /\ Outage(down).good = 0
    BY <2>3
  <2>6. Outage(down) \in [from : {NotYet} \cup 0 .. MaxCycles, good : 0 .. ClearCycles]
    BY <2>2, <2>3, <2>4
  <2>. QED BY <1>2, <2>2, <2>5, <2>6, Zenon
<1>3. CASE ~down /\ outage.from # NotYet /\ outage.good + 1 < ClearCycles
  <2>1. Outage(down) = [outage EXCEPT !.good = outage.good + 1]
    BY <1>3, Zenon DEF Outage
  <2>2. outage.good + 1 \in 0 .. ClearCycles
    BY <1>1, <1>3, LivenessNumbers
  <2>3. Outage(down).from = outage.from /\ Outage(down).good = outage.good + 1
    BY <1>1, <2>1
  <2>4. Outage(down) \in [from : {NotYet} \cup 0 .. MaxCycles, good : 0 .. ClearCycles]
    BY <1>1, <2>1, <2>2
  <2>. QED BY <1>3, <2>3, <2>4, Zenon
<1>4. CASE ~down /\ ~(outage.from # NotYet /\ outage.good + 1 < ClearCycles)
  <2>1. Outage(down) = [from |-> NotYet, good |-> 0]
    BY <1>4, Zenon DEF Outage
  <2>2. 0 \in 0 .. ClearCycles
    BY LivenessNumbers
  <2>. QED BY <1>1, <1>4, <2>1, <2>2
<1>. QED BY <1>2, <1>3, <1>4

(* CycledTyped. A cycle keeps the types and the times.                     *)
LEMMA CycledTyped ==
  ASSUME LivenessTypeOK, CyclesPast, NEW down \in BOOLEAN, NEW writes \in BOOLEAN,
         Cycled(down, writes)
  PROVE  LivenessTypeOK' /\ CyclesPast'
<1>1. cycle \in 0 .. MaxCycles /\ cycle' \in 0 .. MaxCycles /\ cycle' = cycle + 1
  BY LivenessNumbers DEF LivenessTypeOK, Cycled
<1>2. kind' \in [Watched -> {"serving", "stuck", "gone"}]
  BY DEF LivenessTypeOK, Cycled
<1>3. ASSUME NEW i \in Watched
      PROVE  /\ row'[i] \in [status : {"accepted", "abandoned"}, height : {NotYet, 0, 1},
                             progressAt : {NotYet} \cup 0 .. MaxCycles]
             /\ row'[i].progressAt < cycle'
  <2>1. /\ row[i] \in [status : {"accepted", "abandoned"}, height : {NotYet, 0, 1},
                       progressAt : {NotYet} \cup 0 .. MaxCycles]
        /\ row[i].progressAt < cycle
    BY DEF LivenessTypeOK, CyclesPast
  <2>2. row[i].progressAt \in Int
    BY RowTyped
  <2>3. CASE row'[i] = row[i]
    BY <1>1, <2>1, <2>2, <2>3
  <2>4. CASE /\ row'[i] \in [status : {"accepted", "abandoned"}, height : {NotYet, 0, 1},
                             progressAt : {NotYet} \cup 0 .. MaxCycles]
             /\ row'[i].progressAt = cycle
    BY <1>1, <2>4
  <2>5. CASE row'[i] = [row[i] EXCEPT !.status = "abandoned"]
    <3>1. row'[i].progressAt = row[i].progressAt
      BY <2>1, <2>5
    <3>2. row'[i] \in [status : {"accepted", "abandoned"}, height : {NotYet, 0, 1},
                       progressAt : {NotYet} \cup 0 .. MaxCycles]
      BY <2>1, <2>5
    <3>. QED BY <1>1, <2>1, <2>2, <3>1, <3>2
  <2>. QED BY <2>3, <2>4, <2>5, CycledRow, Zenon
<1>4. DOMAIN row' = Watched /\ row' = [i \in Watched |-> row'[i]]
  BY CycleRows, Zenon DEF Cycled
<1>5. row' \in [Watched -> [status : {"accepted", "abandoned"}, height : {NotYet, 0, 1},
                            progressAt : {NotYet} \cup 0 .. MaxCycles]]
  BY <1>3, <1>4
<1>6. trippedSince' \in {NotYet} \cup 0 .. MaxCycles /\ quiet' \in 0 .. ClearCycles - 1
      /\ trippedSince' < cycle'
  <2>1. trippedSince \in {NotYet} \cup 0 .. MaxCycles /\ trippedSince < cycle
    BY DEF LivenessTypeOK, CyclesPast
  <2>2. trippedSince' \in {NotYet, trippedSince, cycle} /\ quiet' \in 0 .. ClearCycles - 1
    BY CycledSince DEF Cycled
  <2>. QED BY <1>1, <2>1, <2>2, LivenessNumbers
<1>7. held' \in [0 .. MaxCycles -> {NotYet} \cup 0 .. MaxCycles]
  <2>1. CASE Holds(trippedSince')
    <3>1. held' = [Retained EXCEPT ![trippedSince'] = cycle]
      BY <2>1, CycleSpans DEF Cycled, Extended
    <3>. QED BY <1>1, <3>1, SpansTyped
  <2>2. CASE ~Holds(trippedSince')
    BY <2>2, CycleSpans, SpansTyped DEF Cycled
  <2>. QED BY <2>1, <2>2
<1>8. outage' \in [from : {NotYet} \cup 0 .. MaxCycles, good : 0 .. ClearCycles]
      /\ outage'.from < cycle'
  <2>1. outage' = Outage(down)
    BY DEF Cycled
  <2>2. Outage(down) \in [from : {NotYet} \cup 0 .. MaxCycles, good : 0 .. ClearCycles]
        /\ Outage(down).from \in {NotYet, outage.from, cycle}
    BY OutageIs
  <2>3. outage.from \in Int /\ outage.from < cycle
    BY LivenessNumbers DEF LivenessTypeOK, CyclesPast
  <2>. QED BY <1>1, <2>1, <2>2, <2>3, LivenessNumbers
<1>9. liveFaults' \in 0 .. LiveFaults
  BY DEF Cycled
<1>. QED BY <1>1, <1>2, <1>3, <1>5, <1>6, <1>7, <1>8, <1>9 DEF LivenessTypeOK, CyclesPast

(* CycledAlike. A cycle treats the indexers that serve alike.              *)
LEMMA CycledAlike ==
  ASSUME LivenessTypeOK, ServingAlike, NEW down \in BOOLEAN, NEW writes \in BOOLEAN,
         Cycled(down, writes)
  PROVE  ServingAlike'
<1>. SUFFICES ASSUME NEW i \in Watched, NEW j \in Watched,
                     kind[i] = "serving", kind[j] = "serving"
              PROVE  row'[i] = row'[j]
  BY DEF ServingAlike, Cycled
<1>1. row[i] = row[j]
  BY DEF ServingAlike
<1>2. i \in Accepted <=> j \in Accepted
  BY <1>1 DEF Accepted
<1>3. Reports(i, down) = Reports(j, down)
  BY Zenon DEF Reports
<1>4. \A r, at : Action(i, r, at) = Action(j, r, at)
  BY <1>1, Zenon DEF Action
<1>5. Checked(i, Reports(i, down), Holds(trippedSince'), Retained, writes)
        = Checked(j, Reports(j, down), Holds(trippedSince'), Retained, writes)
  <2>. DEFINE r == Reports(i, down)
              h == Holds(trippedSince')
              at(k) == IF r = "unreachable" /\ ~h /\ row[k].progressAt # NotYet
                       THEN row[k].progressAt + Grace(row[k].progressAt, Retained)
                       ELSE row[k].progressAt
              c(k) == CASE row[k].status # "accepted" -> row[k]
                        [] ~writes -> row[k]
                        [] writes /\ Action(k, r, at(k)) \in {"initialize", "reset"}
                             -> [row[k] EXCEPT !.height = IF r = "unreachable" THEN 0 ELSE 1,
                                               !.progressAt = cycle]
                        [] writes /\ Action(k, r, at(k)) = "cancel" /\ ~(r = "unreachable" /\ h)
                             -> [row[k] EXCEPT !.status = "abandoned"]
                        [] OTHER -> row[k]
  <2>1. Checked(i, r, h, Retained, writes) = c(i) /\ Checked(j, r, h, Retained, writes) = c(j)
    BY Zenon DEF Checked
  <2>2. at(i) = at(j)
    BY <1>1, Zenon
  <2>3. Action(i, r, at(i)) = Action(j, r, at(j))
    BY <1>4, <2>2, Zenon
  <2>. HIDE DEF at, r, h
  <2>4. c(i) = c(j)
    BY <1>1, <2>3, Zenon
  <2>5. Checked(j, Reports(j, down), h, Retained, writes) = c(j)
    BY <1>3, <2>1 DEF r
  <2>. HIDE DEF c
  <2>. QED BY <2>1, <2>4, <2>5 DEF r, h
<1>6. \A k \in Watched :
        row'[k] = IF k \in Accepted
                  THEN Checked(k, Reports(k, down), Holds(trippedSince'), Retained, writes)
                  ELSE row[k]
  BY CycleRows, Zenon DEF Cycled
<1>. QED BY <1>1, <1>2, <1>5, <1>6, Zenon

(* CycledSpan. A cycle extends the span of the trip while it holds.        *)
LEMMA CycledSpan ==
  ASSUME LivenessTypeOK, CyclesPast, SpanReaches, NEW down \in BOOLEAN, NEW writes \in BOOLEAN,
         Cycled(down, writes)
  PROVE  SpanReaches'
<1>. SUFFICES ASSUME trippedSince' # NotYet
              PROVE  \/ cycle' - trippedSince' > 2 * MaxHold
                     \/ /\ held'[trippedSince'] >= trippedSince'
                        /\ \/ held'[trippedSince'] + liveFaults' >= cycle' - 1
                           \/ held'[trippedSince'] + liveFaults' >= trippedSince' + MaxHold
  BY DEF SpanReaches, MaxHold
<1>1. cycle \in Nat /\ cycle' = cycle + 1 /\ cycle \in 0 .. MaxCycles
  BY LivenessNumbers DEF LivenessTypeOK, Cycled
<1>2. liveFaults \in Nat /\ liveFaults' \in Nat /\ liveFaults <= liveFaults'
  BY LivenessNumbers DEF LivenessTypeOK, Cycled
<1>3. MaxHold \in Nat
  BY HoldIs
<1>4. trippedSince' \in {trippedSince, cycle}
  BY CycledSince DEF Cycled
<1>5. trippedSince \in {NotYet} \cup 0 .. MaxCycles
  BY DEF LivenessTypeOK
<1>6. CASE Holds(trippedSince')
  <2>1. held' = [Retained EXCEPT ![trippedSince'] = cycle]
    BY <1>6, CycleSpans DEF Cycled, Extended
  <2>2. PICK s \in 0 .. MaxCycles : s = trippedSince' /\ s <= cycle
    BY <1>1, <1>4, <1>5, LivenessNumbers DEF CyclesPast
  <2>3. held'[s] = cycle
    BY <2>1, <2>2, SpansTyped
  <2>4. held'[s] >= s /\ held'[s] + liveFaults' >= (cycle + 1) - 1
    <3>1. PICK g \in Nat : g = liveFaults'
      BY <1>2
    <3>2. cycle >= s /\ cycle + g >= (cycle + 1) - 1
      <4>. USE <1>1, <2>2
      <4>. QED OBVIOUS
    <3>. QED BY <2>3, <3>1, <3>2
  <2>. QED BY <1>1, <2>2, <2>4
<1>7. CASE ~Holds(trippedSince')
  <2>0. PICK s \in 0 .. MaxCycles : s = trippedSince'
    BY <1>1, <1>4, <1>5
  <2>1. cycle - trippedSince' > MaxHold
    <3>1. ~(cycle - s <= MaxHold)
      BY <1>7, <2>0 DEF Holds
    <3>2. cycle - s > MaxHold
      <4>1. s \in Int /\ cycle \in Int
        BY <1>1
      <4>. QED BY <1>3, <3>1, <4>1
    <3>. QED BY <2>0, <3>2
  <2>2. trippedSince' = trippedSince
    BY <1>1, <1>3, <1>4, <2>1
  <2>3. PICK t \in 0 .. MaxCycles : t = trippedSince
    BY <1>5, <2>2
  <2>4. held' = Retained
    BY <1>7, CycleSpans DEF Cycled
  <2>5. held[t] \in Int
    BY LivenessNumbers DEF LivenessTypeOK
  <2>6. held'[t] = IF cycle - held[t] <= MaxHold + MaxHold THEN held[t] ELSE NotYet
    BY <2>4 DEF Retained
  <2>7. \/ cycle - t > 2 * MaxHold
        \/ held[t] >= t /\ (held[t] + liveFaults >= cycle - 1 \/ held[t] + liveFaults >= t + MaxHold)
    BY <2>2, <2>3 DEF SpanReaches
  <2>8. t \in Nat /\ cycle - t > MaxHold
    BY <2>1, <2>2, <2>3, LivenessNumbers
  <2>9. \/ cycle + 1 - t > 2 * MaxHold
        \/ /\ held'[t] >= t
           /\ held'[t] + liveFaults' >= t + MaxHold
    <3>1. CASE cycle - t > 2 * MaxHold
      BY <1>1, <1>3, <2>8, <3>1
    <3>2. CASE ~(cycle - t > 2 * MaxHold) /\ held[t] >= t /\ held[t] + liveFaults >= t + MaxHold
      <4>1. cycle - held[t] <= MaxHold + MaxHold
        BY <1>1, <1>3, <2>5, <2>8, <3>2
      <4>2. held'[t] = held[t]
        BY <2>6, <4>1
      <4>. QED BY <1>2, <1>3, <2>5, <2>8, <3>2, <4>2
    <3>3. CASE ~(cycle - t > 2 * MaxHold) /\ held[t] >= t /\ held[t] + liveFaults >= cycle - 1
      <4>1. held[t] + liveFaults >= t + MaxHold
        BY <1>1, <1>2, <1>3, <2>5, <2>8, <3>3
      <4>. QED BY <3>2, <3>3, <4>1
    <3>. QED BY <2>7, <3>1, <3>2, <3>3
  <2>. QED BY <1>1, <2>2, <2>3, <2>9
<1>. QED BY <1>6, <1>7

(* ClockForward. A clock is put forward by at most the longest a trip holds.    *)
LEMMA ClockForward ==
  ASSUME LivenessTypeOK, NEW down, NEW i \in Watched
  PROVE  /\ ClockOf(i, down) \in Int
         /\ row[i].progressAt = NotYet => ClockOf(i, down) = NotYet
         /\ row[i].progressAt # NotYet => /\ row[i].progressAt <= ClockOf(i, down)
                                          /\ ClockOf(i, down) <= row[i].progressAt + MaxHold
                                          /\ ClockOf(i, down) # NotYet
<1>1. row[i].progressAt \in Int /\ NotYet <= row[i].progressAt
  BY RowTyped
<1>2. Retained \in [0 .. MaxCycles -> Int]
  BY SpansTyped, LivenessNumbers
<1>3. PICK p \in Int : p = row[i].progressAt /\ NotYet <= p
  BY <1>1
<1>4. PICK g \in Nat : g = Grace(p, Retained) /\ g <= MaxHold
  <2>1. Grace(p, Retained) \in 0 .. MaxHold
    BY <1>2, GraceIs
  <2>. QED BY <2>1, HoldIs
<1>5. (ClockOf(i, down) = p + g /\ p # NotYet) \/ ClockOf(i, down) = p
  BY <1>3, <1>4, Zenon DEF ClockOf
<1>6. PICK k \in Int : k = ClockOf(i, down) /\ ((k = p + g /\ p # NotYet) \/ k = p)
  BY <1>5
<1>7. PICK m \in Nat : m = MaxHold /\ g <= m
  BY <1>4, HoldIs
<1>8. /\ p = NotYet => k = NotYet
      /\ p # NotYet => p <= k /\ k <= p + m /\ k # NotYet
  <2>1. p \in Int /\ -1 <= p /\ NotYet = -1
    BY <1>3, LivenessNumbers
  <2>. QED BY <1>6, <1>7, <2>1
<1>. QED BY <1>3, <1>6, <1>7, <1>8, Zenon

(* PatienceIs. Each fault adds a hold and two cycles.                       *)
LEMMA PatienceIs ==
  ASSUME NEW f \in Nat
  PROVE  /\ Patience(f) \in Nat /\ 2 * MaxHold + 1 <= Patience(f)
         /\ Patience(f + 1) = Patience(f) + MaxHold + 2
<1>1. PICK m \in Nat : m = MaxHold
  BY HoldIs
<1>2. f * m \in Nat
  OBVIOUS
<1>3. Patience(f) = 2 * m + f * m + 1 + 2 * f
  BY <1>1 DEF Patience
<1>4. Patience(f + 1) = 2 * m + f * m + m + 1 + 2 * f + 2
  BY <1>1 DEF Patience
<1>6. PICK x \in Nat : x = f * m
  BY <1>2
<1>7. Patience(f) \in Nat /\ 2 * m + 1 <= Patience(f)
  BY <1>3, <1>6
<1>8. Patience(f + 1) = Patience(f) + m + 2
  BY <1>3, <1>4, <1>6
<1>. QED BY <1>1, <1>7, <1>8, Zenon

(* PatienceGrows. More faults, more time.                                   *)
LEMMA PatienceGrows ==
  ASSUME NEW f \in Nat, NEW g \in Nat, f <= g
  PROVE  Patience(f) <= Patience(g)
<1>1. PICK m \in Nat : m = MaxHold
  BY HoldIs
<1>2. PICK n \in Nat : n = g - f /\ n * m \in Nat
  OBVIOUS
<1>3. g * m = f * m + n * m /\ f * m \in Nat
  BY <1>2
<1>4. Patience(f) = 2 * m + f * m + 1 + 2 * f /\ Patience(g) = 2 * m + g * m + 1 + 2 * g
  BY <1>1 DEF Patience
<1>. QED BY <1>2, <1>3, <1>4

(* CycledProgress. A cycle that is written keeps only agreements with      *)
(* progress recent enough, or holds them.                                  *)
LEMMA CycledProgress ==
  ASSUME LivenessTypeOK, CyclesPast, ProgressSound, NEW down \in BOOLEAN,
         NEW writes \in BOOLEAN, Cycled(down, writes)
  PROVE  ProgressSound'
<1>1. PICK c \in Nat : c = cycle /\ cycle' = c + 1
  BY LivenessNumbers DEF LivenessTypeOK, Cycled
<1>2. PICK f \in Nat : f = liveFaults
  BY LivenessNumbers DEF LivenessTypeOK
<1>3. PICK g \in Nat : g = liveFaults' /\ f <= g /\ (~writes => g = f + 1)
  BY <1>2, LivenessNumbers DEF LivenessTypeOK, Cycled
<1>4. PICK m \in Nat : m = MaxHold
  BY HoldIs
<1>5. PICK L \in Nat : L = Patience(f) /\ 2 * m + 1 <= L
  <2>1. Patience(f) \in Nat /\ 2 * MaxHold + 1 <= Patience(f)
    BY PatienceIs
  <2>. QED BY <1>4, <2>1
<1>6. PICK K \in Nat : K = Patience(g) /\ L <= K /\ (~writes => K = L + m + 2)
  <2>1. Patience(g) \in Nat
    BY PatienceIs
  <2>2. Patience(f) <= Patience(g)
    BY <1>3, PatienceGrows
  <2>3. Patience(f + 1) = Patience(f) + MaxHold + 2
    BY PatienceIs
  <2>. QED BY <1>3, <1>4, <1>5, <2>1, <2>2, <2>3
<1>7. PICK s \in Int : s = trippedSince' /\ (s = NotYet \/ (0 <= s /\ s <= c))
  <2>1. trippedSince' \in {NotYet, trippedSince, cycle}
    BY CycledSince DEF Cycled
  <2>2. trippedSince \in {NotYet} \cup 0 .. MaxCycles /\ trippedSince < cycle
    BY DEF LivenessTypeOK, CyclesPast
  <2>. QED BY <1>1, <2>1, <2>2, LivenessNumbers
<1>. SUFFICES ASSUME NEW i \in Watched, row'[i].status = "accepted", row'[i].progressAt # NotYet
              PROVE  /\ s = NotYet => (c + 1) - row'[i].progressAt <= K
                     /\ s # NotYet => s - row'[i].progressAt <= K
                     /\ (c + 1) - row'[i].progressAt <= K + m + 1
  <2>1. MaxHold' = MaxHold /\ Patience(liveFaults)' = K
    BY <1>3, <1>6 DEF MaxHold, Patience
  <2>2. Accepted' = {i \in Watched : row'[i].status = "accepted"}
    BY DEF Accepted
  <2>. QED BY <1>1, <1>4, <1>7, <2>1, <2>2, Zenon DEF ProgressSound
<1>8. row[i].progressAt \in Int /\ NotYet <= row[i].progressAt
  BY RowTyped
<1>9. ASSUME i \in Accepted, row[i].progressAt # NotYet
      PROVE  /\ trippedSince = NotYet => c - row[i].progressAt <= L
             /\ trippedSince # NotYet => trippedSince - row[i].progressAt <= L
             /\ c - row[i].progressAt <= L + m + 1
  BY <1>1, <1>2, <1>4, <1>5, <1>9 DEF ProgressSound
<1>10. CASE row'[i].progressAt = cycle
  BY <1>1, <1>4, <1>5, <1>6, <1>7, <1>10
<1>11. CASE row'[i] = row[i]
  <2>1. i \in Accepted /\ row[i].progressAt # NotYet
    BY <1>11 DEF Accepted
  <2>2. PICK p \in Nat : p = row[i].progressAt /\ p = row'[i].progressAt
    BY <1>8, <1>11, <2>1, LivenessNumbers
  <2>3. CASE ~writes
    <3>1. c - p <= L + m + 1
      BY <1>9, <2>1, <2>2
    <3>2. K = L + m + 2
      BY <1>6, <2>3
    <3>3. (c + 1) - p <= K
      BY <3>1, <3>2
    <3>. QED BY <1>4, <1>6, <1>7, <2>2, <3>3
  <2>4. CASE Holds(trippedSince')
    <3>1. s # NotYet /\ c - s <= m
      BY <1>1, <1>4, <1>7, <2>4 DEF Holds
    <3>2. s - p <= L
      <4>1. CASE trippedSince # NotYet
        <5>1. s \in {trippedSince, c} /\ (s = c => trippedSince \in {NotYet, c})
          BY <1>1, <1>7, <3>1, CycledSince DEF Cycled
        <5>2. s = trippedSince
          BY <4>1, <5>1
        <5>. QED BY <1>9, <2>1, <2>2, <4>1, <5>2
      <4>2. CASE trippedSince = NotYet
        <5>1. c - p <= L
          BY <1>9, <2>1, <2>2, <4>2
        <5>2. s <= c
          BY <1>7, <3>1
        <5>. QED BY <5>1, <5>2
      <4>. QED BY <4>1, <4>2
    <3>3. (c + 1) - p <= L + m + 1
      BY <3>1, <3>2
    <3>. QED BY <1>6, <2>2, <3>1, <3>2, <3>3
  <2>5. CASE ClockOf(i, down) # NotYet => ~(cycle - ClockOf(i, down) > Tolerance)
    <3>1. PICK k \in Int : k = ClockOf(i, down) /\ k <= p + m /\ k # NotYet
      <4>1. /\ ClockOf(i, down) \in Int /\ ClockOf(i, down) # NotYet
            /\ ClockOf(i, down) <= row[i].progressAt + MaxHold
        BY <2>1, ClockForward, Zenon
      <4>. QED BY <1>4, <2>2, <4>1
    <3>2. PICK t \in Nat : t = Tolerance /\ t <= m
      BY <1>4, ToleranceIs
    <3>3. ~(c - k > t)
      BY <1>1, <2>5, <3>1, <3>2
    <3>4. c - p <= 2 * m
      BY <3>1, <3>2, <3>3
    <3>5. (c + 1) - p <= L
      BY <1>5, <3>4
    <3>. QED BY <1>4, <1>6, <1>7, <2>2, <3>5
  <2>6. row'[i] # [row[i] EXCEPT !.status = "abandoned"]
    BY <1>11, <2>1 DEF Accepted, LivenessTypeOK
  <2>7. \/ row'[i].progressAt = cycle \/ ~writes \/ Holds(trippedSince')
        \/ ClockOf(i, down) # NotYet => ~(cycle - ClockOf(i, down) > Tolerance)
    BY <2>1, <2>6, CycledRow, Zenon
  <2>. QED BY <1>10, <2>3, <2>4, <2>5, <2>7, Zenon
<1>12. CASE row'[i] = [row[i] EXCEPT !.status = "abandoned"]
  <2>1. row'[i].status = "abandoned"
    BY <1>12 DEF LivenessTypeOK
  <2>. QED BY <2>1
<1>. QED BY <1>10, <1>11, <1>12, CycledRow, Zenon

(* FewOf. A share below the limit stays below it when some of the others   *)
(* are no longer counted.                                                  *)
LEMMA FewOf ==
  ASSUME NEW percent \in Nat, percent <= 100, NEW gone \in Nat, NEW serving \in Nat,
         NEW lost \in Nat, lost <= gone, NEW all \in Nat, lost + serving <= all,
         100 * gone < percent * (gone + serving)
  PROVE  100 * lost < percent * all
<1>1. PICK rest \in Nat : rest = 100 - percent
  OBVIOUS
<1>2. PICK more \in Nat : more = gone - lost
  OBVIOUS
<1>3. PICK left \in Nat : left = all - (lost + serving)
  OBVIOUS
<1>4. percent * (gone + serving) = percent * gone + percent * serving
  OBVIOUS
<1>5. percent * gone + rest * gone = 100 * gone
  BY <1>1
<1>6. rest * gone = rest * lost + rest * more /\ rest * more \in Nat
  BY <1>2
<1>7. rest * lost < percent * serving
  BY <1>4, <1>5, <1>6
<1>8. percent * lost + rest * lost = 100 * lost
  BY <1>1
<1>9. percent * all = percent * lost + percent * serving + percent * left
      /\ percent * left \in Nat
  BY <1>3
<1>. QED BY <1>7, <1>8, <1>9

(* FewDoNotTrip. Without an outage the few that are gone do not trip the   *)
(* breaker while those that serve are accepted.                            *)
LEMMA FewDoNotTrip ==
  ASSUME LivenessTypeOK, ServingAlike, FewGone, NEW i \in Accepted, kind[i] = "serving"
  PROVE  ~Trips(FALSE)
<1>. DEFINE Gone    == {j \in Watched : kind[j] = "gone"}
            Serving == {j \in Watched : kind[j] = "serving"}
            Lost    == {j \in Accepted : Reports(j, FALSE) = "unreachable"}
<1>1. Accepted \in SUBSET Watched /\ i \in Watched /\ row[i].status = "accepted"
  BY DEF Accepted
<1>2. Lost \in SUBSET Gone
  <2>. SUFFICES ASSUME NEW j \in Accepted, Reports(j, FALSE) = "unreachable"
                PROVE  kind[j] = "gone"
    BY <1>1
  <2>. QED BY Zenon DEF Reports
<1>3. Serving \in SUBSET Accepted
  <2>. SUFFICES ASSUME NEW j \in Watched, kind[j] = "serving"
                PROVE  row[j].status = "accepted"
    BY DEF Accepted
  <2>1. row[i] = row[j]
    BY <1>1 DEF ServingAlike
  <2>. QED BY <1>1, <2>1
<1>4. {j \in Watched : kind[j] # "stuck"} = Gone \cup Serving
  BY DEF LivenessTypeOK
<1>5. Gone \cap Serving = {} /\ Lost \cap Serving = {}
  BY <1>2
<1>6. Gone \in SUBSET Watched /\ Serving \in SUBSET Watched /\ Lost \in SUBSET Accepted
  OBVIOUS
<1>7. FewGone <=> 100 * Cardinality(Gone) < TripPercent * Cardinality(Gone \cup Serving)
  BY <1>4, Zenon DEF FewGone
<1>8. Trips(FALSE) => Cardinality(Lost) * 100 >= TripPercent * Cardinality(Accepted)
  BY Zenon DEF Trips, UnreachableTrips
<1>. HIDE DEF Gone, Serving, Lost
<1>9. IsFiniteSet(Gone) /\ IsFiniteSet(Serving) /\ IsFiniteSet(Lost)
      /\ IsFiniteSet(Lost \cup Serving)
  <2>1. Lost \in SUBSET Watched /\ Lost \cup Serving \in SUBSET Watched
    BY <1>1, <1>6
  <2>. QED BY <1>6, <2>1, LivenessAssumption, FS_Subset
<1>10. PICK g \in Nat : g = Cardinality(Gone)
  BY <1>9, FS_CardinalityType
<1>11. PICK s \in Nat : s = Cardinality(Serving)
  BY <1>9, FS_CardinalityType
<1>12. PICK l \in Nat : l = Cardinality(Lost) /\ l <= g
  <2>1. Cardinality(Lost) \in Nat
    BY <1>9, FS_CardinalityType
  <2>2. Cardinality(Lost) <= Cardinality(Gone)
    BY <1>2, <1>9, FS_Subset
  <2>. QED BY <1>10, <2>1, <2>2
<1>13. Cardinality(Gone \cup Serving) = g + s
  <2>1. Cardinality(Gone \cup Serving)
          = Cardinality(Gone) + Cardinality(Serving) - Cardinality(Gone \cap Serving)
    BY <1>9, FS_Union
  <2>2. Cardinality(Gone \cap Serving) = 0
    BY <1>5, FS_EmptySet
  <2>. QED BY <1>10, <1>11, <2>1, <2>2
<1>14. Cardinality(Lost \cup Serving) = l + s
  <2>1. Cardinality(Lost \cup Serving)
          = Cardinality(Lost) + Cardinality(Serving) - Cardinality(Lost \cap Serving)
    BY <1>9, FS_Union
  <2>2. Cardinality(Lost \cap Serving) = 0
    BY <1>5, FS_EmptySet
  <2>. QED BY <1>11, <1>12, <2>1, <2>2
<1>15. PICK a \in Nat : a = Cardinality(Accepted) /\ l + s <= a
  <2>1. Cardinality(Accepted) \in Nat /\ IsFiniteSet(Accepted)
    BY AcceptedFinite
  <2>2. Lost \cup Serving \in SUBSET Accepted
    BY <1>3, <1>6
  <2>3. Cardinality(Lost \cup Serving) <= Cardinality(Accepted)
    BY <2>1, <2>2, FS_Subset
  <2>. QED BY <1>14, <2>1, <2>3
<1>16. PICK percent \in Nat : percent = TripPercent /\ percent <= 100
  BY LivenessNumbers
<1>17. 100 * g < percent * (g + s)
  BY <1>7, <1>10, <1>13, <1>16
<1>18. 100 * l < percent * a
  BY <1>12, <1>15, <1>16, <1>17, FewOf
<1>. SUFFICES ASSUME Trips(FALSE) PROVE FALSE
  OBVIOUS
<1>19. l * 100 >= percent * a
  BY <1>8, <1>12, <1>15, <1>16
<1>20. l * 100 = 100 * l /\ percent * a \in Nat /\ 100 * l \in Nat
  OBVIOUS
<1>. QED BY <1>18, <1>19, <1>20

(* OutageTrips. An outage trips the breaker while enough are watched.      *)
LEMMA OutageTrips ==
  ASSUME NEW down, down, NEW i \in Accepted, ~(Cardinality(Accepted) < TripMin)
  PROVE  Trips(down) /\ Reports(i, down) = "unreachable"
<1>1. \A j \in Accepted : Reports(j, down) = "unreachable"
  BY Zenon DEF Reports
<1>2. {j \in Accepted : Reports(j, down) = "unreachable"} = Accepted
  BY <1>1
<1>3. PICK a \in Nat : a = Cardinality(Accepted) /\ a > 0
  BY AcceptedFinite
<1>4. a >= TripMin
  BY <1>3, LivenessNumbers
<1>5. a * 100 >= TripPercent * a
  <2>1. PICK rest \in Nat : rest = 100 - TripPercent
    BY LivenessNumbers
  <2>2. PICK percent \in Nat : percent = TripPercent
    BY LivenessNumbers
  <2>3. a * 100 = percent * a + rest * a /\ rest * a \in Nat
    BY <2>1, <2>2
  <2>. QED BY <2>2, <2>3
<1>6. UnreachableTrips(a, a)
  BY <1>3, <1>4, <1>5 DEF UnreachableTrips
<1>. QED BY <1>1, <1>2, <1>3, <1>6, Zenon DEF Trips

(* CycledOutage. A cycle trips the breaker only in an outage, or clears it *)
(* as soon as the outage is over.                                          *)
LEMMA CycledOutage ==
  ASSUME LivenessTypeOK, ServingAlike, TripsInOutage, CyclesPast, NEW down \in BOOLEAN,
         NEW writes \in BOOLEAN, Cycled(down, writes)
  PROVE  TripsInOutage'
<1>. SUFFICES ASSUME FewGone, trippedSince' # NotYet, NEW i \in Accepted, kind[i] = "serving"
              PROVE  /\ outage'.from # NotYet /\ outage'.from <= trippedSince'
                     /\ outage'.good <= quiet'
  <2>1. FewGone' <=> FewGone
    BY DEF FewGone, Cycled
  <2>2. ASSUME NEW j \in Watched, row'[j].status = "accepted"
        PROVE  row[j].status = "accepted"
    <3>1. j \in Accepted => row[j].status = "accepted"
      BY DEF Accepted
    <3>. QED BY <2>2, <3>1, CycledRow, Zenon
  <2>3. \A j \in Accepted' : j \in Accepted /\ (kind'[j] = "serving" => kind[j] = "serving")
    BY <2>2 DEF Accepted, Cycled
  <2>. QED BY <2>1, <2>3, Zenon DEF TripsInOutage
<1>1. outage' = Outage(down) /\ outage.from \in Int /\ outage.good \in Nat
      /\ outage.from < cycle /\ cycle \in Nat /\ quiet \in Nat
  BY LivenessNumbers DEF LivenessTypeOK, Cycled, CyclesPast
<1>2. trippedSince \in Int
  BY LivenessNumbers DEF LivenessTypeOK
<1>3. trippedSince # NotYet
        => outage.from # NotYet /\ outage.from <= trippedSince /\ outage.good <= quiet
  BY DEF TripsInOutage
<1>4. CASE Trips(down)
  <2>1. down
    BY <1>4, FewDoNotTrip, Zenon
  <2>2. outage'.good = 0
        /\ outage'.from = IF outage.from = NotYet THEN cycle ELSE outage.from
    BY <1>1, <2>1, OutageIs
  <2>3. trippedSince' = (IF trippedSince = NotYet THEN cycle ELSE trippedSince) /\ quiet' = 0
    BY <1>4, CycleTrips, Zenon DEF Cycled
  <2>4. cycle # NotYet
    BY <1>1, LivenessNumbers
  <2>5. CASE trippedSince = NotYet
    <3>1. trippedSince' = cycle
      BY <2>3, <2>5
    <3>. QED BY <1>1, <2>2, <2>3, <2>4, <3>1
  <2>6. CASE trippedSince # NotYet
    <3>1. trippedSince' = trippedSince /\ outage'.from = outage.from
      BY <1>3, <2>2, <2>3, <2>6
    <3>. QED BY <1>3, <2>2, <2>3, <2>6, <3>1
  <2>. QED BY <2>5, <2>6
<1>5. CASE ~Trips(down)
  <2>1. /\ trippedSince # NotYet /\ quiet + 1 < ClearCycles
        /\ trippedSince' = trippedSince /\ quiet' = quiet + 1
    BY <1>5, CycleTrips, Zenon DEF Cycled
  <2>2. CASE down
    <3>1. outage'.good = 0 /\ outage'.from = outage.from
      BY <1>1, <1>3, <2>1, <2>2, OutageIs
    <3>. QED BY <1>1, <1>3, <2>1, <3>1
  <2>3. CASE ~down
    <3>1. outage.good + 1 < ClearCycles
      BY <1>1, <1>3, <2>1, LivenessNumbers
    <3>2. outage'.good = outage.good + 1 /\ outage'.from = outage.from
      BY <1>1, <1>3, <2>1, <2>3, <3>1, OutageIs
    <3>. QED BY <1>1, <1>3, <2>1, <3>2
  <2>. QED BY <2>2, <2>3
<1>. QED BY <1>4, <1>5

(* SkippedKeeps. A cycle that cannot read the database only takes time.    *)
LEMMA SkippedKeeps ==
  ASSUME LivenessInv, cycle < MaxCycles, cycle' = cycle + 1, liveFaults < LiveFaults,
         liveFaults' = liveFaults + 1,
         UNCHANGED <<row, trippedSince, quiet, held, outage, kind>>
  PROVE  LivenessInv'
<1>1. PICK c \in Nat : c = cycle /\ cycle' = c + 1 /\ c + 1 \in 0 .. MaxCycles
  BY LivenessNumbers DEF LivenessInv, LivenessTypeOK
<1>2. PICK f \in Nat : f = liveFaults /\ liveFaults' = f + 1 /\ f + 1 \in 0 .. LiveFaults
  BY LivenessNumbers DEF LivenessInv, LivenessTypeOK
<1>3. PICK m \in Nat : m = MaxHold /\ MaxHold' = m
  BY HoldIs DEF MaxHold
<1>4. LivenessTypeOK'
  BY <1>1, <1>2 DEF LivenessInv, LivenessTypeOK
<1>5. trippedSince \in Int /\ outage.from \in Int /\ quiet \in Int
  BY LivenessNumbers DEF LivenessInv, LivenessTypeOK
<1>6. \A i \in Watched : row[i].progressAt \in Int
  BY RowTyped DEF LivenessInv
<1>7. CyclesPast'
  BY <1>1, <1>5, <1>6 DEF LivenessInv, CyclesPast
<1>8. ServingAlike'
  BY DEF LivenessInv, ServingAlike
<1>9. TripsInOutage'
  BY DEF LivenessInv, TripsInOutage, Accepted, FewGone
<1>10. SpanReaches'
  <2>. SUFFICES ASSUME trippedSince # NotYet
                PROVE  \/ cycle' - trippedSince > 2 * MaxHold
                       \/ /\ held[trippedSince] >= trippedSince
                          /\ \/ held[trippedSince] + liveFaults' >= cycle' - 1
                             \/ held[trippedSince] + liveFaults' >= trippedSince + MaxHold
    BY DEF SpanReaches, MaxHold
  <2>1. PICK t \in 0 .. MaxCycles : t = trippedSince
    BY DEF LivenessInv, LivenessTypeOK
  <2>2. PICK h \in Int : h = held[t]
    BY LivenessNumbers DEF LivenessInv, LivenessTypeOK
  <2>3. c - t > 2 * m \/ (h >= t /\ (h + f >= c - 1 \/ h + f >= t + m))
    BY <1>1, <1>2, <1>3, <2>1, <2>2 DEF LivenessInv, SpanReaches
  <2>4. c + 1 - t > 2 * m \/ (h >= t /\ (h + (f + 1) >= (c + 1) - 1 \/ h + (f + 1) >= t + m))
    BY <2>3
  <2>. QED BY <1>1, <1>2, <1>3, <2>1, <2>2, <2>4
<1>11. ProgressSound'
  <2>1. PICK L \in Nat : L = Patience(f)
    <3>1. Patience(f) \in Nat
      BY PatienceIs
    <3>. QED BY <3>1
  <2>2. Patience(f + 1) = L + m + 2
    <3>1. Patience(f + 1) = Patience(f) + MaxHold + 2
      BY PatienceIs
    <3>. QED BY <1>3, <2>1, <3>1
  <2>3. Patience(liveFaults)' = Patience(f + 1)
    BY <1>2 DEF Patience, MaxHold
  <2>4. Accepted' = Accepted
    BY DEF Accepted
  <2>5. ASSUME NEW i \in Accepted, row[i].progressAt # NotYet
        PROVE  /\ trippedSince = NotYet => (c + 1) - row[i].progressAt <= L + m + 2
               /\ trippedSince # NotYet => trippedSince - row[i].progressAt <= L + m + 2
               /\ (c + 1) - row[i].progressAt <= (L + m + 2) + m + 1
    <3>1. PICK p \in Int : p = row[i].progressAt
      BY <1>6 DEF Accepted
    <3>2. c - p <= L + m + 1
      BY <1>1, <1>2, <1>3, <2>1, <2>5, <3>1 DEF LivenessInv, ProgressSound
    <3>3. trippedSince < c
      BY <1>1 DEF LivenessInv, CyclesPast
    <3>. QED BY <1>5, <3>1, <3>2, <3>3
  <2>. QED BY <1>1, <1>3, <2>2, <2>3, <2>4, <2>5, Zenon DEF ProgressSound
<1>. QED BY <1>4, <1>7, <1>8, <1>9, <1>10, <1>11 DEF LivenessInv

(* ForgottenKeeps. A restart forgets the breaker.                          *)
LEMMA ForgottenKeeps ==
  ASSUME LivenessInv, LivenessRestart
  PROVE  LivenessInv'
<1>1. PICK f \in Nat : f = liveFaults /\ liveFaults' = f + 1 /\ f + 1 \in 0 .. LiveFaults
  BY LivenessNumbers DEF LivenessInv, LivenessTypeOK, LivenessRestart
<1>2. trippedSince' = NotYet /\ quiet' = 0 /\ held' = NoneHeld
      /\ UNCHANGED <<cycle, kind, row, outage>>
  BY DEF LivenessRestart
<1>3. PICK m \in Nat : m = MaxHold /\ MaxHold' = m
  BY HoldIs DEF MaxHold
<1>4. PICK c \in Nat : c = cycle
  BY LivenessNumbers DEF LivenessInv, LivenessTypeOK
<1>5. LivenessTypeOK'
  <2>1. NoneHeld \in [0 .. MaxCycles -> {NotYet} \cup 0 .. MaxCycles]
    BY DEF NoneHeld
  <2>2. 0 \in 0 .. ClearCycles - 1
    BY LivenessNumbers
  <2>. QED BY <1>1, <1>2, <2>1, <2>2 DEF LivenessInv, LivenessTypeOK
<1>6. CyclesPast'
  BY <1>2, <1>4, LivenessNumbers DEF LivenessInv, CyclesPast
<1>7. ServingAlike'
  BY <1>2 DEF LivenessInv, ServingAlike
<1>8. TripsInOutage' /\ SpanReaches'
  BY <1>2 DEF TripsInOutage, SpanReaches
<1>9. ProgressSound'
  <2>1. PICK L \in Nat : L = Patience(f)
    <3>1. Patience(f) \in Nat
      BY PatienceIs
    <3>. QED BY <3>1
  <2>2. Patience(f + 1) = L + m + 2
    <3>1. Patience(f + 1) = Patience(f) + MaxHold + 2
      BY PatienceIs
    <3>. QED BY <1>3, <2>1, <3>1
  <2>3. Patience(liveFaults)' = Patience(f + 1)
    BY <1>1 DEF Patience, MaxHold
  <2>4. Accepted' = Accepted
    BY <1>2 DEF Accepted
  <2>5. ASSUME NEW i \in Accepted, row[i].progressAt # NotYet
        PROVE  /\ c - row[i].progressAt <= L + m + 2
               /\ c - row[i].progressAt <= (L + m + 2) + m + 1
    <3>1. PICK p \in Int : p = row[i].progressAt
      BY RowTyped DEF Accepted, LivenessInv
    <3>2. c - p <= L + m + 1
      BY <1>1, <1>3, <1>4, <2>1, <2>5, <3>1 DEF LivenessInv, ProgressSound
    <3>. QED BY <3>1, <3>2
  <2>. QED BY <1>2, <1>3, <1>4, <2>2, <2>3, <2>4, <2>5, Zenon DEF ProgressSound
<1>. QED BY <1>5, <1>6, <1>7, <1>8, <1>9 DEF LivenessInv

(* CycledSpares. In a cycle a serving indexer's agreement is abandoned     *)
(* only after the breaker gave up on an outage.                            *)
LEMMA CycledSpares ==
  ASSUME LivenessInv, NEW down \in BOOLEAN, NEW writes \in BOOLEAN, Cycled(down, writes)
  PROVE  OutageSparesServing
<1>. SUFFICES ASSUME NEW i \in Watched, kind[i] = "serving", row[i].status = "accepted",
                     row'[i].status = "abandoned", ~(Cardinality(Accepted) < TripMin), FewGone
              PROVE  /\ outage.from # NotYet /\ cycle - outage.from > MaxHold
                     /\ row[i].progressAt < outage.from
                          => cycle - row[i].progressAt > MaxHold + CyclesPerDay - liveFaults
  BY Zenon DEF OutageSparesServing
<1>1. i \in Accepted
  BY DEF Accepted
<1>2. /\ Reports(i, down) # "changed"
      /\ ~(Reports(i, down) = "unreachable" /\ Holds(trippedSince'))
      /\ ClockOf(i, down) # NotYet /\ cycle - ClockOf(i, down) > Tolerance
  BY CycledRow, Zenon DEF LivenessInv
<1>3. down
  BY <1>2, Zenon DEF Reports
<1>5. Trips(down) /\ Reports(i, down) = "unreachable"
  BY <1>1, <1>3, OutageTrips
<1>6. ~Holds(trippedSince')
  BY <1>2, <1>5, Zenon
<1>7. trippedSince' = IF trippedSince = NotYet THEN cycle ELSE trippedSince
  BY <1>5, CycleTrips, Zenon DEF Cycled
<1>8. PICK c \in Nat : c = cycle
  BY LivenessNumbers DEF LivenessInv, LivenessTypeOK
<1>9. PICK m \in Nat : m = MaxHold /\ CyclesPerDay <= m
  BY HoldIs
<1>10. trippedSince # NotYet
  <2>. SUFFICES ASSUME trippedSince = NotYet PROVE FALSE
    OBVIOUS
  <2>1. trippedSince' = cycle
    BY <1>7
  <2>2. Holds(cycle)
    BY <1>8, <1>9, LivenessNumbers DEF Holds
  <2>. QED BY <1>6, <2>1, <2>2
<1>11. PICK t \in 0 .. MaxCycles : t = trippedSince /\ t = trippedSince'
  BY <1>7, <1>10 DEF LivenessInv, LivenessTypeOK
<1>12. t \in Nat /\ ~(c - t <= m)
  <2>1. ~Holds(t) /\ t # NotYet
    BY <1>6, <1>10, <1>11
  <2>2. Holds(t) <=> (t # NotYet /\ c - t <= m)
    BY <1>8, <1>9, Zenon DEF Holds
  <2>3. t \in Nat
    OBVIOUS
  <2>. QED BY <2>1, <2>2, <2>3
<1>13. c - t > m
  BY <1>12
<1>14. PICK o \in Int : o = outage.from /\ o # NotYet /\ o <= t
  <2>1. outage.from # NotYet /\ outage.from <= trippedSince
    BY <1>1, <1>10 DEF LivenessInv, TripsInOutage
  <2>2. outage.from \in Int
    BY LivenessNumbers DEF LivenessInv, LivenessTypeOK
  <2>. QED BY <1>11, <2>1, <2>2
<1>15. c - o > m
  BY <1>13, <1>14, <1>12
<1>16. PICK p \in Int : p = row[i].progressAt
  BY RowTyped DEF LivenessInv
<1>17. PICK f \in Nat : f = liveFaults
  BY LivenessNumbers DEF LivenessInv, LivenessTypeOK
<1>18. PICK d \in Nat : d = CyclesPerDay /\ d <= m
  BY <1>9, LivenessNumbers
<1>19. ASSUME p < o
       PROVE  c - p > m + d - f
  <2>1. p # NotYet
    BY <1>2, <1>16, ClockForward DEF LivenessInv
  <2>2. ClockOf(i, down) = p + Grace(p, Retained)
    BY <1>5, <1>6, <1>16, <2>1, Zenon DEF ClockOf
  <2>3. Retained \in [0 .. MaxCycles -> Int]
    BY SpansTyped, LivenessNumbers DEF LivenessInv
  <2>4. PICK g \in Nat : /\ g = Grace(p, Retained)
                         /\ g = m \/ g >= Retained[t] - t
    <3>1. p <= t
      BY <1>12, <1>14, <1>19
    <3>2. Grace(p, Retained) \in 0 .. MaxHold
      BY <2>3, GraceIs
    <3>3. Grace(p, Retained) = MaxHold \/ Grace(p, Retained) >= Retained[t] - t
      BY <2>3, <3>1, GraceIs
    <3>. QED BY <1>9, <3>2, <3>3
  <2>5. PICK tol \in Nat : tol = Tolerance /\ d <= tol
    BY <1>18, ToleranceIs
  <2>6. c - (p + g) > tol
    BY <1>2, <1>8, <2>2, <2>4, <2>5
  <2>7. PICK h \in Int : h = held[t]
    BY LivenessNumbers DEF LivenessInv, LivenessTypeOK
  <2>8. c - t > 2 * m \/ (h >= t /\ (h + f >= c - 1 \/ h + f >= t + m))
    BY <1>8, <1>9, <1>10, <1>11, <1>17, <2>7 DEF LivenessInv, SpanReaches
  <2>9. CASE c - t > 2 * m
    BY <1>12, <1>14, <1>18, <1>19, <2>9
  <2>10. CASE ~(c - t > 2 * m) /\ h >= t
    <3>1. c - h <= m + m
      BY <1>12, <2>10
    <3>2. Retained[t] = h
      BY <1>8, <1>9, <2>7, <3>1 DEF Retained
    <3>3. h + f >= t + m
      BY <1>12, <1>13, <2>8, <2>10
    <3>4. g = m \/ g >= h - t
      BY <2>4, <3>2
    <3>5. g >= m - f
      BY <1>12, <3>3, <3>4
    <3>. QED BY <2>5, <2>6, <3>5
  <2>. QED BY <2>8, <2>9, <2>10
<1>. QED BY <1>8, <1>9, <1>14, <1>15, <1>16, <1>17, <1>18, <1>19

(* InitLivenessInv. The invariant holds at the start.                      *)
LEMMA InitLivenessInv == LivenessInit => LivenessInv
<1>. SUFFICES ASSUME LivenessInit PROVE LivenessInv
  OBVIOUS
<1>1. /\ cycle = 0 /\ liveFaults = 0 /\ quiet = 0 /\ trippedSince = NotYet /\ held = NoneHeld
      /\ outage = [from |-> NotYet, good |-> 0]
      /\ row = [i \in Watched |-> [status |-> "accepted", height |-> NotYet, progressAt |-> NotYet]]
      /\ kind \in [Watched -> {"serving", "stuck", "gone"}]
  BY DEF LivenessInit
<1>2. NoneHeld \in [0 .. MaxCycles -> {NotYet} \cup 0 .. MaxCycles]
  BY DEF NoneHeld
<1>3. 0 \in 0 .. ClearCycles - 1 /\ 0 \in 0 .. MaxCycles /\ 0 \in 0 .. LiveFaults /\ 0 \in 0 .. ClearCycles
  BY LivenessNumbers
<1>4. LivenessTypeOK
  BY <1>1, <1>2, <1>3 DEF LivenessTypeOK
<1>5. CyclesPast
  BY <1>1, LivenessNumbers DEF CyclesPast
<1>6. ServingAlike /\ TripsInOutage /\ SpanReaches
  BY <1>1 DEF ServingAlike, TripsInOutage, SpanReaches
<1>7. ProgressSound
  BY <1>1 DEF ProgressSound, Accepted
<1>. QED BY <1>4, <1>5, <1>6, <1>7 DEF LivenessInv

(* LivenessStepKeeps. A step keeps the invariant and spares who serves.    *)
LEMMA LivenessStepKeeps ==
  LivenessInv /\ [LivenessNext]_liveVars => LivenessInv' /\ OutageSparesServing
<1>. SUFFICES ASSUME LivenessInv, [LivenessNext]_liveVars
              PROVE  LivenessInv' /\ OutageSparesServing
  OBVIOUS
<1>1. ASSUME row' = row PROVE OutageSparesServing
  BY <1>1 DEF OutageSparesServing
<1>2. ASSUME NEW down \in BOOLEAN, NEW writes \in BOOLEAN, Cycled(down, writes)
      PROVE  LivenessInv' /\ OutageSparesServing
  <2>1. LivenessTypeOK' /\ CyclesPast'
    BY <1>2, CycledTyped DEF LivenessInv
  <2>2. ServingAlike'
    BY <1>2, CycledAlike DEF LivenessInv
  <2>3. TripsInOutage'
    BY <1>2, CycledOutage DEF LivenessInv
  <2>4. SpanReaches'
    BY <1>2, CycledSpan DEF LivenessInv
  <2>5. ProgressSound'
    BY <1>2, CycledProgress DEF LivenessInv
  <2>6. OutageSparesServing
    BY <1>2, CycledSpares
  <2>. QED BY <2>1, <2>2, <2>3, <2>4, <2>5, <2>6 DEF LivenessInv
<1>3. liveFaults \in Nat /\ liveFaults \in 0 .. LiveFaults /\ LiveFaults \in Nat
  BY LivenessNumbers DEF LivenessInv, LivenessTypeOK
<1>4. ASSUME NEW down \in BOOLEAN, RunCycle(down)
      PROVE  LivenessInv' /\ OutageSparesServing
  <2>1. liveFaults' = liveFaults /\ kind' = kind
    BY <1>4 DEF RunCycle
  <2>2. liveFaults' \in 0 .. LiveFaults /\ liveFaults <= liveFaults'
    BY <1>3, <2>1
  <2>3. Cycled(down, TRUE)
    BY <1>4, <2>1, <2>2, Zenon DEF RunCycle, Cycled
  <2>. QED BY <1>2, <2>3
<1>5. ASSUME NEW down \in BOOLEAN, FailingCycle(down)
      PROVE  LivenessInv' /\ OutageSparesServing
  <2>1. /\ cycle < MaxCycles /\ cycle' = cycle + 1 /\ liveFaults < LiveFaults
        /\ liveFaults' = liveFaults + 1 /\ kind' = kind
    BY <1>5 DEF FailingCycle
  <2>2. liveFaults' \in 0 .. LiveFaults /\ liveFaults <= liveFaults'
    BY <1>3, <2>1
  <2>3. CASE LivenessCycle(down, FALSE) /\ outage' = Outage(down)
    <3>1. Cycled(down, FALSE)
      BY <2>1, <2>2, <2>3, Zenon DEF Cycled
    <3>. QED BY <1>2, <3>1
  <2>4. CASE UNCHANGED <<row, trippedSince, quiet, held, outage>>
    <3>1. LivenessInv'
      BY <2>1, <2>4, SkippedKeeps
    <3>. QED BY <1>1, <2>4, <3>1
  <2>. QED BY <1>5, <2>3, <2>4, Zenon DEF FailingCycle
<1>6. CASE LivenessRestart
  <2>1. row' = row
    BY <1>6 DEF LivenessRestart
  <2>. QED BY <1>1, <1>6, <2>1, ForgottenKeeps
<1>7. CASE UNCHANGED liveVars
  <2>1. LivenessInv'
    BY <1>7 DEF liveVars, LivenessInv, LivenessTypeOK, CyclesPast, ServingAlike, TripsInOutage,
                SpanReaches, ProgressSound, Accepted, FewGone, Patience, MaxHold
  <2>2. row' = row
    BY <1>7 DEF liveVars
  <2>. QED BY <1>1, <2>1, <2>2
<1>. QED BY <1>4, <1>5, <1>6, <1>7, Zenon DEF LivenessNext

(* GoneFromInv. The invariant bounds the time without progress.            *)
LEMMA GoneFromInv == LivenessInv => GoneIsAbandoned
<1>. SUFFICES ASSUME LivenessInv, NEW i \in Accepted, row[i].progressAt # NotYet
              PROVE  cycle - row[i].progressAt <= (3 + liveFaults) * MaxHold + 2 + 2 * liveFaults
  BY DEF GoneIsAbandoned
<1>1. PICK f \in Nat : f = liveFaults
  BY LivenessNumbers DEF LivenessInv, LivenessTypeOK
<1>2. PICK m \in Nat : m = MaxHold
  BY HoldIs
<1>3. PICK x \in Nat : x = f * m
  OBVIOUS
<1>4. Patience(f) = 2 * m + x + 1 + 2 * f
  BY <1>2, <1>3 DEF Patience
<1>5. (3 + f) * m + 2 + 2 * f = 3 * m + x + 2 + 2 * f
  BY <1>3
<1>6. cycle - row[i].progressAt <= Patience(f) + m + 1
  BY <1>1, <1>2 DEF LivenessInv, ProgressSound
<1>7. Patience(f) + m + 1 = (3 + f) * m + 2 + 2 * f
  BY <1>4, <1>5
<1>. QED BY <1>1, <1>2, <1>6, <1>7

(* LivenessSound. An outage on dipper's side costs no indexer that serves  *)
(* its agreement before the breaker's hold is over, and one that makes no  *)
(* progress is abandoned in bounded time however often the breaker trips   *)
(* (UnreachableBreaker and check_agreement in liveness_checker.rs).        *)
THEOREM LivenessSound ==
  LivenessSpec => [](LivenessTypeOK /\ GoneIsAbandoned) /\ [][OutageSparesServing]_liveVars
<1>1. LivenessInv => LivenessTypeOK /\ GoneIsAbandoned
  BY GoneFromInv DEF LivenessInv
<1>2. LivenessSpec => []LivenessInv
  BY InitLivenessInv, LivenessStepKeeps, PTL DEF LivenessSpec
<1>. QED BY <1>1, <1>2, LivenessStepKeeps, PTL DEF LivenessSpec
=============================================================================
