------------------------- MODULE ChainCursor_proofs --------------------------
(***************************************************************************)
(* Proofs about ChainCursor, for any set of agreements, page size, buffer, *)
(* length of the chain and number of faults: the cursor never goes back,   *)
(* passes no change in silence, and no check is queued twice.              *)
(*                                                                         *)
(* The argument. A change is over once it was taken, or another change of  *)
(* its agreement came after it, on the chain still or taken back since:    *)
(* nothing undoes that. The pin of a drain settles the blocks a            *)
(* reorganisation can no longer replace, and every settled change up to    *)
(* the place the drain has read to is over. A page adds the changes up to  *)
(* its next cursor: one is the row of its agreement, and on the page,      *)
(* because a page is the first rows past the cursor and a short page all   *)
(* of them, or it was followed by another. When the cursor moves, all rows *)
(* of the page were applied or stepped over; and what a drain from the new *)
(* cursor would not read again lies a reorganisation's depth before the    *)
(* pin, so that it is settled.                                             *)
(***************************************************************************)
EXTENDS ChainCursor, FiniteSetTheorems, WellFoundedInduction, TLAPS

-----------------------------------------------------------------------------
(* The invariant of the drain.                                             *)

UpTo(c, d) == ~Less(d, c)

Place(a, k) == <<block[a][k], a>>

(* The chain: no change is on a block that is not there or was reorganised *)
(* for good, and an agreement's changes are in order.                      *)
ChainSound ==
  /\ subgraphHead <= top /\ top <= MaxBlock /\ StartBlock <= top
  /\ top <= subgraphHead + ReorgDepth
  /\ \A a \in Agreements, k \in Ks :
       /\ block[a][k] <= subgraphHead
       /\ block[a][k] # 0 => block[a][k] > Buffer
       /\ \A j \in Ks : j < k /\ block[a][k] # 0 => block[a][j] # 0 /\ block[a][j] < block[a][k]

(* A change that was taken, was followed by one that was taken back, or is *)
(* followed by another: nothing undoes it.                                 *)
Over(a, k) == Taken(a, k) \/ undone[a] > k \/ (k < Changes /\ block[a][k + 1] # 0)

(* Every change up to this place is over.                                  *)
OverUpTo(c) ==
  \A a \in Agreements, k \in Ks : block[a][k] # 0 /\ UpTo(Place(a, k), c) => Over(a, k)

CursorSound ==
  /\ UpTo(saved, cursor) /\ UpTo(cursor, AtBlock(top + 1))
  /\ OverUpTo(Effective(cursor)) /\ OverUpTo(Effective(saved))

(* What the pin of a drain puts out of a reorganisation's reach.           *)
OutOfReach(a, k) == block[a][k] # 0 /\ block[a][k] + ReorgDepth <= pin

(* The drain: what it has passed is over.                                  *)
DrainSound ==
  /\ pin <= top
  /\ phase # "idle" => readFrom \in {Effective(cursor), cursor}
  /\ phase = "fetch" /\ pin = 0 => readFrom = Effective(cursor)
  /\ phase # "idle" =>
       \A a \in Agreements, k \in Ks :
         OutOfReach(a, k) /\ UpTo(Place(a, k), readFrom) => Over(a, k)

(* The page: what the cursor would pass with it is over or on it.          *)
PageSound ==
  phase = "apply" =>
    /\ \A r \in page.rows : /\ r[3] <= pin /\ r[3] > Buffer /\ r[3] >= readFrom[1]
    /\ page.next = readFrom \/ UpTo(page.next, AtBlock(pin + 1))
    /\ \A a \in Agreements, k \in Ks :
         OutOfReach(a, k) /\ Less(readFrom, Place(a, k)) /\ UpTo(Place(a, k), page.next)
           => Over(a, k) \/ \E r \in page.rows : r[1] = a /\ r[2] >= k

(* A check that was queued and forgotten is of a change no drain reads any *)
(* more.                                                                   *)
ChecksSound ==
  /\ again = {}
  /\ \A q \in asked : q[2] > Buffer
  /\ \A q \in asked \ checkedFor : q[2] < Effective(cursor)[1]

CursorInv ==
  /\ CursorTypeOK
  /\ ChainSound
  /\ CursorSound
  /\ DrainSound
  /\ PageSound
  /\ ChecksSound

-----------------------------------------------------------------------------
(* Orders on finite sets.                                                  *)

(* Greatest. A finite set in which a transitive relation orders any two    *)
(* elements has a greatest one.                                            *)
LEMMA Greatest ==
  ASSUME NEW S, IsFiniteSet(S), S # {}, NEW R,
         \A x, y \in S : x # y => <<x, y>> \in R \/ <<y, x>> \in R,
         \A x, y, z \in S : <<x, y>> \in R /\ <<y, z>> \in R => <<x, z>> \in R
  PROVE  \E m \in S : \A x \in S \ {m} : <<x, m>> \in R
<1>. DEFINE HasOne(U) == \E m \in U : \A x \in U \ {m} : <<x, m>> \in R
            T == {U \in FiniteSubsetsOf(S) : U # {} /\ ~HasOne(U)}
<1>1. S \in FiniteSubsetsOf(S)
  BY DEF FiniteSubsetsOf
<1>2. SUFFICES ASSUME T # {} PROVE FALSE
  BY <1>1
<1>3. PICK U \in T : \A V \in T : ~(<<V, U>> \in StrictSubsetOrdering(S))
  <2>1. IsWellFoundedOn(StrictSubsetOrdering(S), FiniteSubsetsOf(S))
    BY FS_StrictSubsetOrderingWellFounded
  <2>2. T \subseteq FiniteSubsetsOf(S)
    OBVIOUS
  <2>. HIDE DEF T
  <2> QED BY <1>2, <2>1, <2>2, WFMin
<1>4. U \subseteq S /\ IsFiniteSet(U) /\ U # {} /\ ~HasOne(U)
  BY DEF FiniteSubsetsOf
<1>5. PICK u \in U : TRUE
  BY <1>4
<1>. DEFINE V == U \ {u}
<1>6. V \in FiniteSubsetsOf(S) /\ V \subseteq U /\ V # U
  BY <1>4, <1>5, FS_Subset DEF FiniteSubsetsOf
<1>7. V # {}
  <2>1. SUFFICES ASSUME V = {} PROVE HasOne(U)
    BY <1>4
  <2>2. \A x \in U \ {u} : <<x, u>> \in R
    BY <2>1
  <2> QED BY <1>5, <2>2
<1>8. HasOne(V)
  <2>1. <<V, U>> \in StrictSubsetOrdering(S)
    BY <1>4, <1>6 DEF StrictSubsetOrdering, FiniteSubsetsOf
  <2> QED BY <1>3, <1>6, <1>7, <2>1
<1>9. PICK m \in V : \A x \in V \ {m} : <<x, m>> \in R
  BY <1>8
<1>10. m \in U /\ m # u /\ m \in S /\ u \in S
  BY <1>4, <1>5, <1>9
<1>11. CASE <<u, m>> \in R
  <2>1. \A x \in U \ {m} : <<x, m>> \in R
    BY <1>9, <1>11
  <2> QED BY <1>4, <1>10, <2>1
<1>12. CASE <<m, u>> \in R
  <2>1. \A x \in U \ {u} : <<x, u>> \in R
    <3>1. TAKE x \in U \ {u}
    <3>2. x \in S /\ x \in V
      BY <1>4
    <3> QED BY <1>9, <1>10, <1>12, <3>2
  <2> QED BY <1>4, <1>5, <2>1
<1> QED BY <1>10, <1>11, <1>12

(* MaxIs. The greatest of some natural numbers up to a bound.              *)
LEMMA MaxIs ==
  ASSUME NEW S \in SUBSET Nat, S # {}, NEW n \in Nat, \A s \in S : s <= n
  PROVE  /\ Max(S) \in S /\ Max(S) \in Nat
         /\ \A s \in S : s <= Max(S)
<1>. DEFINE R == {p \in Nat \X Nat : p[1] < p[2]}
<1>1. IsFiniteSet(S)
  BY FS_BoundedSetOfNaturals
<1>2. /\ \A x, y \in S : x # y => <<x, y>> \in R \/ <<y, x>> \in R
      /\ \A x, y, z \in S : <<x, y>> \in R /\ <<y, z>> \in R => <<x, z>> \in R
  OBVIOUS
<1>3. PICK m \in S : \A x \in S \ {m} : <<x, m>> \in R
  <2>. HIDE DEF R
  <2> QED BY <1>1, <1>2, Greatest
<1>4. \A y \in S : m >= y
  <2>1. TAKE y \in S
  <2>2. y # m => <<y, m>> \in R
    BY <1>3
  <2> QED BY <2>2
<1>5. Max(S) \in S /\ \A y \in S : Max(S) >= y
  BY <1>3, <1>4 DEF Max
<1> QED BY <1>5

-----------------------------------------------------------------------------
(* Places.                                                                 *)

(* CursorNumbers. The constants, as numbers.                               *)
LEMMA CursorNumbers ==
  /\ Agreements \subseteq Nat \ {0} /\ IsFiniteSet(Agreements)
  /\ Changes \in Nat \ {0} /\ SubgraphPage \in Nat \ {0} /\ MaxPages \in Nat \ {0}
  /\ MaxCursorHold \in Nat \ {0}
  /\ Buffer \in Nat /\ ReorgDepth \in Nat /\ StartBlock \in Nat /\ MaxBlock \in Nat
  /\ CursorFaults \in Nat
  /\ ReorgDepth <= Buffer /\ Buffer + ReorgDepth <= StartBlock /\ StartBlock <= MaxBlock
BY CursorAssumption

(* PlacesOrdered. The order of cursors and rows is total and transitive.   *)
LEMMA PlacesOrdered ==
  ASSUME NEW c \in Nat \X Nat, NEW d \in Nat \X Nat, NEW e \in Nat \X Nat
  PROVE  /\ UpTo(c, c) /\ (Less(c, d) \/ UpTo(d, c)) /\ (Less(c, d) => UpTo(c, d))
         /\ (Less(c, d) /\ Less(d, e) => Less(c, e))
         /\ (UpTo(c, d) /\ UpTo(d, e) => UpTo(c, e))
         /\ (Less(c, d) /\ UpTo(d, e) => Less(c, e))
         /\ (UpTo(c, d) /\ Less(d, e) => Less(c, e))
BY DEF Less, UpTo

(* CursorsArePlaces. Cursors are pairs of numbers.                         *)
LEMMA CursorsArePlaces ==
  ASSUME NEW c \in Cursors
  PROVE  /\ c \in Nat \X Nat
         /\ c[1] \in 0 .. MaxBlock + 1 /\ c[2] \in {0} \cup Agreements
         /\ c = <<c[1], c[2]>>
<1>1. c[1] \in Blocks /\ c[2] \in {0} \cup Agreements /\ c = <<c[1], c[2]>>
  BY DEF Cursors
<1>2. c[1] \in 0 .. MaxBlock + 1 /\ c[1] \in Nat /\ c[2] \in Nat
  BY <1>1, CursorNumbers DEF Blocks
<1>3. c \in Nat \X Nat
  BY <1>1, <1>2
<1> QED BY <1>1, <1>2, <1>3

(* EffectiveIs. The buffer only moves a cursor back.                       *)
LEMMA EffectiveIs ==
  ASSUME NEW c \in Cursors
  PROVE  /\ Effective(c) \in Cursors
         /\ UpTo(Effective(c), c) /\ Effective(c)[1] <= c[1]
<1>1. CASE Buffer > 0 /\ c[1] > Buffer
  <2>1. Effective(c) = <<c[1] - Buffer, 0>>
    BY <1>1 DEF Effective, AtBlock
  <2>2. c[1] - Buffer \in 0 .. MaxBlock + 1 /\ c[1] - Buffer < c[1]
    BY <1>1, CursorNumbers, CursorsArePlaces
  <2>3. <<c[1] - Buffer, 0>> \in Cursors
    BY <2>2 DEF Cursors, Blocks
  <2> QED BY <2>1, <2>2, <2>3, CursorsArePlaces, CursorNumbers DEF UpTo, Less
<1>2. CASE ~(Buffer > 0 /\ c[1] > Buffer)
  <2>1. Effective(c) = c
    BY <1>2 DEF Effective
  <2> QED BY <2>1, CursorsArePlaces DEF UpTo, Less
<1> QED BY <1>1, <1>2

(* BehindTheBuffer. The changes that a drain from a cursor no longer reads *)
(* are out of reach of a reorganisation of the chain it was read from.     *)
LEMMA BehindTheBuffer ==
  ASSUME NEW c \in Cursors, NEW h \in Nat, UpTo(c, AtBlock(h + 1)),
         NEW b \in Nat, NEW a \in Agreements, b > Buffer, UpTo(<<b, a>>, Effective(c))
  PROVE  b + ReorgDepth <= h
<1>1. a \in Nat \ {0} /\ c[1] \in Nat /\ c[2] \in Nat
  BY CursorNumbers, CursorsArePlaces
<1>2. c[1] <= h + 1 /\ (c[1] = h + 1 => c[2] = 0)
  BY <1>1 DEF UpTo, Less, AtBlock
<1>3. CASE Buffer > 0 /\ c[1] > Buffer
  <2>1. Effective(c) = <<c[1] - Buffer, 0>>
    BY <1>3 DEF Effective, AtBlock
  <2>2. b < c[1] - Buffer
    BY <1>1, <2>1, CursorNumbers DEF UpTo, Less
  <2> QED BY <1>1, <1>2, <2>2, CursorNumbers
<1>4. CASE ~(Buffer > 0 /\ c[1] > Buffer)
  <2>1. Effective(c) = c
    BY <1>4 DEF Effective
  <2>2. b < c[1] \/ (b = c[1] /\ a <= c[2])
    BY <1>1, <2>1 DEF UpTo, Less
  <2>3. Buffer = 0 /\ ReorgDepth = 0
    BY <1>1, <1>4, <2>2, CursorNumbers
  <2> QED BY <1>1, <1>2, <2>2, <2>3
<1> QED BY <1>3, <1>4

(* LatestIs. An agreement's row stands for the last of its changes.        *)
LEMMA LatestIs ==
  ASSUME block \in [Agreements -> [Ks -> Blocks]], NEW a \in Agreements, NEW n \in Nat
  PROVE  /\ LatestChange(a, n) \in 0 .. Changes
         /\ LatestChange(a, n) > 0 =>
              LatestChange(a, n) \in Ks /\ block[a][LatestChange(a, n)] \in 1 .. n
         /\ \A k \in Ks : block[a][k] \in 1 .. n => k <= LatestChange(a, n)
<1>. DEFINE on == {k \in Ks : block[a][k] \in 1 .. n}
<1>1. on \subseteq Nat /\ \A k \in on : k <= Changes
  BY CursorNumbers DEF Ks
<1>2. CASE on = {}
  <2>1. LatestChange(a, n) = 0
    BY <1>2 DEF LatestChange
  <2>2. \A k \in Ks : block[a][k] \notin 1 .. n
    BY <1>2
  <2> QED BY <2>1, <2>2, CursorNumbers
<1>3. CASE on # {}
  <2>1. LatestChange(a, n) = Max(on)
    BY <1>3 DEF LatestChange
  <2>2. Max(on) \in on /\ \A k \in on : k <= Max(on)
    <3>. HIDE DEF on
    <3> QED BY <1>1, <1>3, MaxIs, CursorNumbers
  <2>3. Max(on) \in Ks /\ block[a][Max(on)] \in 1 .. n /\ Max(on) \in 0 .. Changes
    BY <2>2, CursorNumbers DEF Ks
  <2> QED BY <2>1, <2>2, <2>3
<1> QED BY <1>2, <1>3

-----------------------------------------------------------------------------
(* Pages.                                                                  *)

(* RowsAre. The rows of the subgraph: one for each agreement that has one. *)
LEMMA RowsAre ==
  ASSUME block \in [Agreements -> [Ks -> Blocks]], NEW n \in Nat
  PROVE  /\ IsFiniteSet(RowsAt(n))
         /\ \A r \in RowsAt(n) :
              /\ r[1] \in Agreements /\ r[2] \in Ks /\ r[3] \in 1 .. n
              /\ r[2] = LatestChange(r[1], n) /\ r[3] = block[r[1]][r[2]]
              /\ r = <<r[1], r[2], r[3]>> /\ Pos(r) = <<r[3], r[1]>> /\ Pos(r) \in Nat \X Nat
         /\ \A r, s \in RowsAt(n) : r[1] = s[1] => r = s
         /\ \A a \in Agreements : LatestChange(a, n) > 0 =>
              <<a, LatestChange(a, n), block[a][LatestChange(a, n)]>> \in RowsAt(n)
<1>. DEFINE A == {x \in Agreements : LatestChange(x, n) > 0}
            f == [a \in A |-> <<a, LatestChange(a, n), block[a][LatestChange(a, n)]>>]
<1>1. RowsAt(n) = {f[a] : a \in A}
  BY DEF RowsAt
<1>2. IsFiniteSet(RowsAt(n))
  <2>1. IsFiniteSet(A)
    BY CursorNumbers, FS_Subset
  <2>2. f \in Surjection(A, RowsAt(n))
    BY <1>1 DEF Surjection
  <2>. HIDE DEF f, A
  <2> QED BY <2>1, <2>2, FS_Surjection
<1>3. \A r \in RowsAt(n) :
        /\ r[1] \in Agreements /\ r[2] \in Ks /\ r[3] \in 1 .. n
        /\ r[2] = LatestChange(r[1], n) /\ r[3] = block[r[1]][r[2]]
        /\ r = <<r[1], r[2], r[3]>> /\ Pos(r) = <<r[3], r[1]>> /\ Pos(r) \in Nat \X Nat
  <2>1. TAKE r \in RowsAt(n)
  <2>2. PICK a \in A : r = <<a, LatestChange(a, n), block[a][LatestChange(a, n)]>>
    BY DEF RowsAt
  <2>3. LatestChange(a, n) \in Ks /\ block[a][LatestChange(a, n)] \in 1 .. n
    BY LatestIs
  <2>4. a \in Nat /\ r[3] \in Nat
    BY <2>2, <2>3, CursorNumbers
  <2> QED BY <2>2, <2>3, <2>4 DEF Pos
<1>4. \A r, s \in RowsAt(n) : r[1] = s[1] => r = s
  BY <1>3
<1>5. \A a \in Agreements : LatestChange(a, n) > 0 =>
        <<a, LatestChange(a, n), block[a][LatestChange(a, n)]>> \in RowsAt(n)
  BY DEF RowsAt
<1> QED BY <1>2, <1>3, <1>4, <1>5

(* LastRowIs. The cursor after some rows is the place of the last of them. *)
LEMMA LastRowIs ==
  ASSUME block \in [Agreements -> [Ks -> Blocks]], NEW n \in Nat,
         NEW rows \in SUBSET RowsAt(n), rows # {}
  PROVE  \E l \in rows : LastRow(rows) = Pos(l) /\ \A s \in rows : UpTo(Pos(s), Pos(l))
<1>. DEFINE R == {p \in rows \X rows : Less(Pos(p[1]), Pos(p[2]))}
<1>1. IsFiniteSet(rows) /\ \A r \in rows : Pos(r) \in Nat \X Nat
  BY RowsAre, FS_Subset
<1>2. \A x, y \in rows : x # y => <<x, y>> \in R \/ <<y, x>> \in R
  <2>1. SUFFICES ASSUME NEW x \in rows, NEW y \in rows, x # y
                 PROVE  Less(Pos(x), Pos(y)) \/ Less(Pos(y), Pos(x))
    OBVIOUS
  <2>2. /\ x[1] # y[1] /\ Pos(x) = <<x[3], x[1]>> /\ Pos(y) = <<y[3], y[1]>>
        /\ {x[1], x[3], y[1], y[3]} \subseteq Nat
    BY <2>1, RowsAre, CursorNumbers
  <2> QED BY <2>2 DEF Less
<1>3. \A x, y, z \in rows : <<x, y>> \in R /\ <<y, z>> \in R => <<x, z>> \in R
  BY <1>1, PlacesOrdered
<1>4. PICK m \in rows : \A x \in rows \ {m} : <<x, m>> \in R
  <2>. HIDE DEF R
  <2> QED BY <1>1, <1>2, <1>3, Greatest
<1>5. \A s \in rows \ {m} : Less(Pos(s), Pos(m))
  BY <1>4
<1>. DEFINE l == CHOOSE r \in rows : \A s \in rows \ {r} : Less(Pos(s), Pos(r))
<1>6. l \in rows /\ \A s \in rows \ {l} : Less(Pos(s), Pos(l))
  BY <1>5
<1>7. LastRow(rows) = Pos(l)
  BY DEF LastRow
<1>8. \A s \in rows : UpTo(Pos(s), Pos(l))
  <2>. HIDE DEF l
  <2>1. TAKE s \in rows
  <2>2. CASE s = l
    BY <1>1, <1>6, <2>2, PlacesOrdered
  <2>3. CASE s # l
    BY <1>1, <1>6, <2>3, PlacesOrdered
  <2> QED BY <2>2, <2>3
<1> QED BY <1>6, <1>7, <1>8

(* PageIsFirst. A page has every row before one of its own.                *)
LEMMA PageIsFirst ==
  ASSUME block \in [Agreements -> [Ks -> Blocks]], NEW n \in Nat, NEW c \in Nat \X Nat,
         NEW l \in FirstPage(c, n), NEW r \in RowsAt(n), Less(c, Pos(r)), UpTo(Pos(r), Pos(l))
  PROVE  r \in FirstPage(c, n)
<1>. DEFINE past == {s \in RowsAt(n) : Less(c, Pos(s))}
            Before(x) == {s \in past : Less(Pos(s), Pos(x))}
<1>1. l \in past /\ Cardinality(Before(l)) < SubgraphPage
  BY DEF FirstPage
<1>2. Before(r) \subseteq Before(l)
  BY <1>1, RowsAre, PlacesOrdered
<1>3. IsFiniteSet(Before(l))
  BY RowsAre, FS_Subset
<1>4. Cardinality(Before(r)) <= Cardinality(Before(l)) /\ IsFiniteSet(Before(r))
  <2>. HIDE DEF Before
  <2> QED BY <1>2, <1>3, FS_Subset
<1>5. Cardinality(Before(r)) < SubgraphPage
  BY <1>1, <1>3, <1>4, FS_CardinalityType, CursorNumbers
<1> QED BY <1>5 DEF FirstPage

(* ShortPageIsLast. A page that is not full has every row past the cursor. *)
LEMMA ShortPageIsLast ==
  ASSUME block \in [Agreements -> [Ks -> Blocks]], NEW n \in Nat, NEW c \in Nat \X Nat,
         Cardinality(FirstPage(c, n)) < SubgraphPage,
         NEW r \in RowsAt(n), Less(c, Pos(r))
  PROVE  r \in FirstPage(c, n)
<1>. DEFINE past == {s \in RowsAt(n) : Less(c, Pos(s))}
            Before(x) == {s \in past : Less(Pos(s), Pos(x))}
            left == past \ FirstPage(c, n)
            R == {p \in left \X left : Less(Pos(p[2]), Pos(p[1]))}
<1>1. SUFFICES ASSUME left # {} PROVE FALSE
  OBVIOUS
<1>2. IsFiniteSet(left) /\ IsFiniteSet(FirstPage(c, n)) /\ FirstPage(c, n) \subseteq past
      /\ \A x \in past : Pos(x) \in Nat \X Nat
  BY RowsAre, FS_Subset DEF FirstPage
<1>3. \A x, y \in left : x # y => <<x, y>> \in R \/ <<y, x>> \in R
  <2>1. SUFFICES ASSUME NEW x \in left, NEW y \in left, x # y
                 PROVE  Less(Pos(x), Pos(y)) \/ Less(Pos(y), Pos(x))
    OBVIOUS
  <2>2. /\ x[1] # y[1] /\ Pos(x) = <<x[3], x[1]>> /\ Pos(y) = <<y[3], y[1]>>
        /\ {x[1], x[3], y[1], y[3]} \subseteq Nat
    BY <2>1, RowsAre, CursorNumbers
  <2> QED BY <2>2 DEF Less
<1>4. \A x, y, z \in left : <<x, y>> \in R /\ <<y, z>> \in R => <<x, z>> \in R
  BY <1>2, PlacesOrdered
<1>5. PICK m \in left : \A x \in left \ {m} : <<x, m>> \in R
  <2>. HIDE DEF R, left
  <2> QED BY <1>1, <1>2, <1>3, <1>4, Greatest
<1>6. Before(m) \subseteq FirstPage(c, n)
  <2>1. SUFFICES ASSUME NEW s \in Before(m), s \in left PROVE FALSE
    BY DEF left
  <2>2. Less(Pos(s), Pos(m)) /\ s # m => Less(Pos(m), Pos(s))
    BY <1>5, <2>1
  <2> QED BY <1>2, <1>5, <2>1, <2>2, PlacesOrdered DEF Less
<1>7. Cardinality(Before(m)) <= Cardinality(FirstPage(c, n)) /\ IsFiniteSet(Before(m))
  <2>. HIDE DEF Before
  <2> QED BY <1>2, <1>6, FS_Subset
<1>8. Cardinality(Before(m)) < SubgraphPage
  BY <1>2, <1>7, FS_CardinalityType, CursorNumbers
<1>9. m \in FirstPage(c, n)
  BY <1>5, <1>8 DEF FirstPage
<1> QED BY <1>5, <1>9

-----------------------------------------------------------------------------
(* The chain moves.                                                        *)

(* InitCursorInv. The invariant holds at the start.                        *)
LEMMA InitCursorInv == CursorInit => CursorInv
<1>. SUFFICES ASSUME CursorInit PROVE CursorInv
  OBVIOUS
<1>1. <<0, 0>> \in Cursors /\ 0 \in Blocks /\ 0 \in 0 .. Changes /\ StartBlock \in Blocks
  BY CursorNumbers DEF Cursors, Blocks
<1>2. CursorTypeOK
  <2>1. /\ block \in [Agreements -> [Ks -> Blocks]] /\ undone \in [Agreements -> 0 .. Changes]
        /\ applied \in [Agreements -> 0 .. Changes] /\ skipped \in [Agreements -> 0 .. Changes]
    BY <1>1 DEF CursorInit
  <2>2. hold \in [at : Cursors, age : -1 .. MaxCursorHold]
    BY <1>1, CursorNumbers DEF CursorInit, NoHold
  <2>3. page.rows = {} /\ page.next \in Cursors
    BY <1>1 DEF CursorInit, NoPage
  <2> QED BY <1>1, <2>1, <2>2, <2>3, CursorNumbers DEF CursorInit, CursorTypeOK
<1>3. \A a \in Agreements, k \in Ks : block[a][k] = 0
  BY DEF CursorInit
<1>4. ChainSound
  BY <1>3, CursorNumbers DEF CursorInit, ChainSound
<1>5. CursorSound
  <2>1. UpTo(<<0, 0>>, <<0, 0>>) /\ UpTo(<<0, 0>>, AtBlock(StartBlock + 1))
    BY CursorNumbers DEF UpTo, Less, AtBlock
  <2> QED BY <1>3, <2>1 DEF CursorInit, CursorSound, OverUpTo
<1>6. DrainSound /\ PageSound /\ ChecksSound
  BY CursorNumbers DEF CursorInit, DrainSound, PageSound, ChecksSound
<1> QED BY <1>2, <1>4, <1>5, <1>6 DEF CursorInv

(* MineIs. What a new block does: a change that was not on the chain is in *)
(* it, after the agreement's others.                                       *)
LEMMA MineIs ==
  ASSUME CursorTypeOK, ChainSound, NEW S \in SUBSET Agreements, MineBlock(S),
         NEW a \in Agreements, NEW k \in Ks
  PROVE  \/ /\ block'[a][k] = block[a][k]
         \/ /\ block[a][k] = 0 /\ block'[a][k] = subgraphHead + 1
            /\ \A j \in Ks : j < k => block[a][j] # 0 /\ block'[a][j] = block[a][j]
            /\ \A j \in Ks : j > k => block[a][j] = 0 /\ block'[a][j] = 0
<1>. DEFINE L == LatestChange(a, subgraphHead)
<1>1. /\ subgraphHead \in Nat /\ block \in [Agreements -> [Ks -> Blocks]]
      /\ \A j \in Ks : j \in Nat /\ block[a][j] \in Nat
  <2>1. subgraphHead \in 0 .. MaxBlock + 1 /\ block \in [Agreements -> [Ks -> Blocks]]
    BY DEF CursorTypeOK, Blocks
  <2>2. \A j \in Ks : block[a][j] \in Blocks
    BY <2>1
  <2> QED BY <2>1, <2>2, CursorNumbers DEF Blocks, Ks
<1>2. CASE a \notin S
  BY <1>2 DEF MineBlock
<1>3. CASE a \in S
  <2>1. L < Changes /\ block'[a] = [block[a] EXCEPT ![L + 1] = subgraphHead + 1]
    BY <1>3 DEF MineBlock
  <2>2. /\ L \in 0 .. Changes /\ (L > 0 => L \in Ks /\ block[a][L] \in 1 .. subgraphHead)
        /\ \A j \in Ks : block[a][j] \in 1 .. subgraphHead => j <= L
    BY <1>1, LatestIs
  <2>. HIDE DEF L
  <2>3. \A j \in Ks : j > L => block[a][j] = 0
    BY <1>1, <2>2 DEF ChainSound
  <2>4. \A j \in Ks : j <= L => block[a][j] # 0
    <3>1. SUFFICES ASSUME NEW j \in Ks, j <= L PROVE block[a][j] # 0
      OBVIOUS
    <3>2. j \in 1 .. Changes /\ L \in Ks /\ block[a][L] # 0
      BY <2>2, <3>1, CursorNumbers DEF Ks
    <3>3. j < L => block[a][j] # 0
      BY <3>2 DEF ChainSound
    <3> QED BY <2>2, <3>1, <3>2, <3>3
  <2>5. \A j \in Ks : block'[a][j] = IF j = L + 1 THEN subgraphHead + 1 ELSE block[a][j]
    BY <1>1, <2>1
  <2>6. CASE k # L + 1
    BY <2>5, <2>6
  <2>7. CASE k = L + 1
    <3>1. block[a][k] = 0 /\ block'[a][k] = subgraphHead + 1
      BY <1>1, <2>2, <2>3, <2>5, <2>7
    <3>2. \A j \in Ks : j < k => block[a][j] # 0 /\ block'[a][j] = block[a][j]
      BY <1>1, <2>2, <2>4, <2>5, <2>7
    <3>3. \A j \in Ks : j > k => block[a][j] = 0 /\ block'[a][j] = 0
      BY <1>1, <2>2, <2>3, <2>5, <2>7
    <3> QED BY <3>1, <3>2, <3>3
  <2> QED BY <2>6, <2>7
<1> QED BY <1>2, <1>3

(* ReorgIs. What a reorganisation does.                                    *)
LEMMA ReorgIs ==
  ASSUME CursorTypeOK, NEW n \in 0 .. MaxBlock, Reorg(n), NEW a \in Agreements
  PROVE  /\ undone'[a] \in 0 .. Changes /\ undone'[a] >= undone[a]
         /\ \A k \in Ks : /\ block'[a][k] = IF block[a][k] <= n THEN block[a][k] ELSE 0
                          /\ block[a][k] > n => undone'[a] >= k
<1>. DEFINE S == {undone[a]} \cup {k \in Ks : block[a][k] > n}
<1>1. \A k \in Ks : block'[a][k] = IF block[a][k] <= n THEN block[a][k] ELSE 0
  BY DEF Reorg
<1>2. undone'[a] = Max(S)
  BY DEF Reorg
<1>3. S \subseteq 0 .. Changes /\ undone[a] \in S
  <2>1. undone[a] \in 0 .. Changes
    BY DEF CursorTypeOK
  <2>2. Ks \subseteq 0 .. Changes
    BY CursorNumbers DEF Ks
  <2> QED BY <2>1, <2>2
<1>4. \A k \in Ks : block[a][k] > n => k \in S
  OBVIOUS
<1>. HIDE DEF S
<1>5. Max(S) \in S /\ \A k \in S : k <= Max(S)
  <2>1. S \in SUBSET Nat /\ S # {} /\ Changes \in Nat /\ \A s \in S : s <= Changes
    BY <1>3, CursorNumbers
  <2> QED BY <2>1, MaxIs
<1> QED BY <1>1, <1>2, <1>3, <1>4, <1>5

(* Typed. What the type invariant says of the numbers.                     *)
LEMMA Typed ==
  ASSUME CursorTypeOK
  PROVE  /\ subgraphHead \in Nat /\ top \in Nat /\ pin \in Nat
         /\ cursor \in Cursors /\ saved \in Cursors /\ readFrom \in Cursors
         /\ page.next \in Cursors
         /\ \A a \in Agreements, k \in Ks :
              /\ k \in Nat /\ block[a][k] \in Nat /\ a \in Nat \ {0}
              /\ Place(a, k) = <<block[a][k], a>> /\ Place(a, k) \in Nat \X Nat
<1>1. /\ {subgraphHead, top, pin} \subseteq 0 .. MaxBlock + 1
      /\ block \in [Agreements -> [Ks -> 0 .. MaxBlock + 1]]
  BY DEF CursorTypeOK, Blocks
<1>2. \A a \in Agreements, k \in Ks : block[a][k] \in 0 .. MaxBlock + 1
  BY <1>1
<1>3. \A a \in Agreements, k \in Ks :
        /\ k \in Nat /\ block[a][k] \in Nat /\ a \in Nat \ {0}
        /\ Place(a, k) = <<block[a][k], a>> /\ Place(a, k) \in Nat \X Nat
  BY <1>2, CursorNumbers DEF Ks, Place
<1> QED BY <1>1, <1>3, CursorNumbers DEF CursorTypeOK

(* ChainMoveKeeps. A move of the chain that adds nothing within reach of a *)
(* reorganisation, and keeps over what was over, keeps the invariant.      *)
LEMMA ChainMoveKeeps ==
  ASSUME CursorInv, CursorTypeOK', ChainSound',
         UNCHANGED <<cursor, saved, drainVars, checkVars>>,
         top' >= top,
         \A a \in Agreements, k \in Ks : Over(a, k) => Over(a, k)',
         \A a \in Agreements, k \in Ks :
           block'[a][k] = 0 \/ block'[a][k] = block[a][k] \/ block'[a][k] + ReorgDepth > top
  PROVE  CursorInv'
<1>. USE DEF CursorInv
<1>1. /\ top \in Nat /\ top' \in Nat /\ pin \in Nat /\ pin <= top
      /\ cursor \in Cursors /\ saved \in Cursors
  BY Typed, CursorNumbers DEF CursorTypeOK, Blocks, DrainSound
<1>2. /\ UpTo(cursor, AtBlock(top + 1)) /\ UpTo(saved, cursor)
      /\ UpTo(cursor, AtBlock(top' + 1)) /\ UpTo(saved, AtBlock(top + 1))
  <2>1. /\ AtBlock(top + 1) \in Nat \X Nat /\ AtBlock(top' + 1) \in Nat \X Nat
        /\ UpTo(AtBlock(top + 1), AtBlock(top' + 1))
        /\ cursor \in Nat \X Nat /\ saved \in Nat \X Nat
    BY <1>1, CursorsArePlaces DEF AtBlock, UpTo, Less
  <2>2. UpTo(cursor, AtBlock(top + 1)) /\ UpTo(saved, cursor)
    BY DEF CursorSound
  <2> QED BY <2>1, <2>2, PlacesOrdered
<1>3. ASSUME NEW a \in Agreements, NEW k \in Ks, block'[a][k] # 0,
             block'[a][k] + ReorgDepth <= top
      PROVE  block'[a][k] = block[a][k] /\ block[a][k] # 0 /\ Place(a, k)' = Place(a, k)
  <2>1. block'[a][k] \in Nat
    <3>1. block' \in [Agreements -> [Ks -> 0 .. MaxBlock + 1]]
      BY DEF CursorTypeOK, Blocks
    <3> QED BY <3>1, CursorNumbers
  <2>2. block'[a][k] = block[a][k]
    BY <1>1, <1>3, <2>1, CursorNumbers
  <2> QED BY <1>3, <2>2 DEF Place
<1>4. ASSUME NEW c \in Cursors, UpTo(c, AtBlock(top + 1)), OverUpTo(Effective(c)),
             NEW a \in Agreements, NEW k \in Ks, block'[a][k] # 0,
             UpTo(<<block'[a][k], a>>, Effective(c))
      PROVE  Over(a, k)'
  <2>1. block'[a][k] \in Nat /\ block'[a][k] > Buffer
    <3>1. block' \in [Agreements -> [Ks -> 0 .. MaxBlock + 1]]
      BY DEF CursorTypeOK, Blocks
    <3> QED BY <1>4, <3>1, CursorNumbers DEF ChainSound
  <2>2. block'[a][k] + ReorgDepth <= top
    BY <1>1, <1>4, <2>1, BehindTheBuffer
  <2>3. block[a][k] # 0 /\ UpTo(Place(a, k), Effective(c))
    BY <1>3, <1>4, <2>2 DEF Place
  <2> QED BY <1>4, <2>3 DEF OverUpTo
<1>5. CursorSound'
  <2>1. OverUpTo(Effective(cursor)) /\ OverUpTo(Effective(saved))
    BY DEF CursorSound
  <2>2. \A a \in Agreements, k \in Ks :
          block'[a][k] # 0 /\ UpTo(<<block'[a][k], a>>, Effective(cursor)) => Over(a, k)'
    BY <1>1, <1>2, <1>4, <2>1
  <2>3. \A a \in Agreements, k \in Ks :
          block'[a][k] # 0 /\ UpTo(<<block'[a][k], a>>, Effective(saved)) => Over(a, k)'
    BY <1>1, <1>2, <1>4, <2>1
  <2> QED BY <1>2, <2>2, <2>3 DEF CursorSound, OverUpTo, Place
<1>6. ASSUME NEW a \in Agreements, NEW k \in Ks, OutOfReach(a, k)'
      PROVE  OutOfReach(a, k) /\ Place(a, k)' = Place(a, k)
  <2>1. block'[a][k] \in Nat
    <3>1. block' \in [Agreements -> [Ks -> 0 .. MaxBlock + 1]]
      BY DEF CursorTypeOK, Blocks
    <3> QED BY <3>1, CursorNumbers
  <2>2. block'[a][k] # 0 /\ block'[a][k] + ReorgDepth <= pin
    BY <1>6 DEF OutOfReach, drainVars
  <2>3. block'[a][k] + ReorgDepth <= top
    BY <1>1, <2>1, <2>2, CursorNumbers
  <2> QED BY <1>3, <2>2, <2>3 DEF OutOfReach
<1>7. DrainSound'
  BY <1>1, <1>6 DEF DrainSound, drainVars
<1>8. PageSound'
  BY <1>6 DEF PageSound, drainVars
<1>9. ChecksSound'
  BY DEF ChecksSound, checkVars
<1> QED BY <1>5, <1>7, <1>8, <1>9

(* NewBlockKeeps. A new block keeps the invariant.                         *)
LEMMA NewBlockKeeps ==
  ASSUME CursorInv, NEW S \in SUBSET Agreements, MineBlock(S)
  PROVE  CursorInv'
<1>. USE DEF CursorInv
<1>1. /\ subgraphHead \in Nat /\ top \in Nat /\ subgraphHead < MaxBlock
      /\ subgraphHead <= top /\ top <= MaxBlock /\ StartBlock <= top
      /\ top <= subgraphHead + ReorgDepth /\ subgraphHead' = subgraphHead + 1
  BY Typed DEF MineBlock, ChainSound
<1>2. top' = IF top >= subgraphHead + 1 THEN top ELSE subgraphHead + 1
  <2>1. top' = Max({top, subgraphHead + 1})
    BY DEF MineBlock
  <2>2. Max({top, subgraphHead + 1}) = IF top >= subgraphHead + 1 THEN top ELSE subgraphHead + 1
    BY <1>1 DEF Max
  <2> QED BY <2>1, <2>2
<1>3. CursorTypeOK'
  <2>1. {subgraphHead', top'} \subseteq Blocks /\ subgraphHead + 1 \in Blocks
    BY <1>1, <1>2, CursorNumbers DEF Blocks
  <2>2. block' \in [Agreements -> [Ks -> Blocks]]
    <3>1. block' = [a \in Agreements |->
                      IF a \in S
                      THEN [block[a] EXCEPT ![LatestChange(a, subgraphHead) + 1] =
                              subgraphHead + 1]
                      ELSE block[a]]
      BY DEF MineBlock
    <3> QED BY <2>1, <3>1 DEF CursorTypeOK
  <2> QED BY <2>1, <2>2 DEF CursorTypeOK, MineBlock, drainVars, checkVars
<1>4. \A a \in Agreements, k \in Ks :
        \/ block'[a][k] = block[a][k]
        \/ /\ block[a][k] = 0 /\ block'[a][k] = subgraphHead + 1
           /\ \A j \in Ks : j < k => block[a][j] # 0 /\ block'[a][j] = block[a][j]
           /\ \A j \in Ks : j > k => block[a][j] = 0 /\ block'[a][j] = 0
  BY MineIs
<1>5. \A a \in Agreements, k \in Ks :
        /\ block[a][k] \in Nat /\ k \in Nat /\ block[a][k] <= subgraphHead
        /\ block[a][k] # 0 => block[a][k] > Buffer
        /\ \A j \in Ks : j < k /\ block[a][k] # 0 => block[a][j] # 0 /\ block[a][j] < block[a][k]
  BY Typed DEF ChainSound
<1>6. ChainSound'
  <2>1. /\ subgraphHead' <= top' /\ top' <= MaxBlock /\ StartBlock <= top'
        /\ top' <= subgraphHead' + ReorgDepth /\ subgraphHead + 1 > Buffer
    BY <1>1, <1>2, CursorNumbers
  <2>2. ASSUME NEW a \in Agreements, NEW k \in Ks
        PROVE  /\ block'[a][k] <= subgraphHead + 1
               /\ block'[a][k] # 0 => block'[a][k] > Buffer
    BY <1>1, <1>4, <1>5, <2>1
  <2>3. ASSUME NEW a \in Agreements, NEW k \in Ks, NEW j \in Ks, j < k, block'[a][k] # 0
        PROVE  block'[a][j] # 0 /\ block'[a][j] < block'[a][k]
    <3>1. CASE block'[a][k] = block[a][k]
      <4>1. block[a][j] # 0 /\ block[a][j] < block[a][k]
        BY <1>5, <2>3, <3>1
      <4>2. block'[a][j] = block[a][j]
        BY <1>4, <4>1
      <4> QED BY <3>1, <4>1, <4>2
    <3>2. CASE /\ block'[a][k] = subgraphHead + 1
               /\ block[a][j] # 0 /\ block'[a][j] = block[a][j]
      BY <1>1, <1>5, <3>2
    <3> QED BY <1>4, <2>3, <3>1, <3>2
  <2> QED BY <1>1, <2>1, <2>2, <2>3 DEF ChainSound
<1>7. ASSUME NEW a \in Agreements, NEW k \in Ks, Over(a, k) PROVE Over(a, k)'
  <2>1. CASE Taken(a, k) \/ undone[a] > k
    BY <2>1 DEF Over, Taken, MineBlock
  <2>2. CASE k < Changes /\ block[a][k + 1] # 0
    <3>1. k + 1 \in Ks
      BY <2>2, CursorNumbers DEF Ks
    <3>2. block'[a][k + 1] # 0
      BY <1>1, <1>4, <2>2, <3>1
    <3> QED BY <2>2, <3>2 DEF Over
  <2> QED BY <1>7, <2>1, <2>2 DEF Over
<1>8. \A a \in Agreements, k \in Ks :
        block'[a][k] = 0 \/ block'[a][k] = block[a][k] \/ block'[a][k] + ReorgDepth > top
  BY <1>1, <1>4, CursorNumbers
<1>9. top' >= top /\ UNCHANGED <<cursor, saved, drainVars, checkVars>>
  BY <1>1, <1>2 DEF MineBlock
<1> QED BY <1>3, <1>6, <1>7, <1>8, <1>9, ChainMoveKeeps

(* ReorgKeeps. A reorganisation keeps the invariant.                       *)
LEMMA ReorgKeeps ==
  ASSUME CursorInv, NEW n \in 0 .. MaxBlock, Reorg(n)
  PROVE  CursorInv'
<1>. USE DEF CursorInv
<1>1. /\ subgraphHead \in Nat /\ top \in Nat /\ n \in Nat /\ n <= MaxBlock
      /\ subgraphHead <= top /\ top <= MaxBlock /\ StartBlock <= top
      /\ n < subgraphHead /\ top <= n + ReorgDepth /\ subgraphHead' = n /\ top' = top
  BY Typed, CursorNumbers DEF Reorg, ChainSound
<1>2. \A a \in Agreements :
        /\ undone'[a] \in 0 .. Changes /\ undone'[a] >= undone[a]
        /\ \A k \in Ks : /\ block'[a][k] = IF block[a][k] <= n THEN block[a][k] ELSE 0
                         /\ block[a][k] > n => undone'[a] >= k
  BY ReorgIs
<1>3. CursorTypeOK'
  <2>1. n \in Blocks /\ 0 \in Blocks
    BY <1>1, CursorNumbers DEF Blocks
  <2>2. block' \in [Agreements -> [Ks -> Blocks]]
    BY <2>1 DEF Reorg, CursorTypeOK
  <2>3. undone' \in [Agreements -> 0 .. Changes]
    BY <1>2 DEF Reorg
  <2>4. cursorFaults' \in 0 .. CursorFaults
    BY CursorNumbers DEF Reorg, CursorFault, CursorTypeOK
  <2> QED BY <1>1, <2>1, <2>2, <2>3, <2>4 DEF CursorTypeOK, Reorg, drainVars, checkVars
<1>4. \A a \in Agreements, k \in Ks :
        /\ block[a][k] \in Nat /\ k \in Nat
        /\ block[a][k] # 0 => block[a][k] > Buffer
        /\ \A j \in Ks : j < k /\ block[a][k] # 0 => block[a][j] # 0 /\ block[a][j] < block[a][k]
  BY Typed DEF ChainSound
<1>5. ChainSound'
  <2>1. ASSUME NEW a \in Agreements, NEW k \in Ks
        PROVE  /\ block'[a][k] <= n
               /\ block'[a][k] # 0 => block'[a][k] > Buffer
               /\ \A j \in Ks : j < k /\ block'[a][k] # 0 =>
                    block'[a][j] # 0 /\ block'[a][j] < block'[a][k]
    BY <1>1, <1>2, <1>4
  <2> QED BY <1>1, <2>1 DEF ChainSound
<1>6. ASSUME NEW a \in Agreements, NEW k \in Ks, Over(a, k) PROVE Over(a, k)'
  <2>1. CASE Taken(a, k)
    BY <2>1 DEF Over, Taken, Reorg
  <2>2. CASE undone[a] > k
    <3>1. undone'[a] > k
      BY <1>2, <1>4, <2>2, CursorNumbers DEF CursorTypeOK
    <3> QED BY <3>1 DEF Over
  <2>3. CASE k < Changes /\ block[a][k + 1] # 0
    <3>1. k + 1 \in Ks
      BY <2>3, CursorNumbers DEF Ks
    <3>2. block'[a][k + 1] # 0 \/ undone'[a] > k
      BY <1>1, <1>2, <1>4, <2>3, <3>1
    <3> QED BY <2>3, <3>2 DEF Over
  <2> QED BY <1>6, <2>1, <2>2, <2>3 DEF Over
<1>7. \A a \in Agreements, k \in Ks :
        block'[a][k] = 0 \/ block'[a][k] = block[a][k] \/ block'[a][k] + ReorgDepth > top
  BY <1>2
<1>8. top' >= top /\ UNCHANGED <<cursor, saved, drainVars, checkVars>>
  BY <1>1 DEF Reorg
<1> QED BY <1>3, <1>5, <1>6, <1>7, <1>8, ChainMoveKeeps

-----------------------------------------------------------------------------
(* The drain.                                                              *)

(* ChainStands. Where neither the chain nor what was taken changes, what   *)
(* is over stays what it was.                                              *)
LEMMA ChainStands ==
  ASSUME UNCHANGED <<chainVars, applied, skipped>>
  PROVE  /\ ChainSound => ChainSound'
         /\ \A a \in Agreements, k \in Ks :
              Over(a, k)' = Over(a, k) /\ Place(a, k)' = Place(a, k)
<1>1. block' = block /\ subgraphHead' = subgraphHead /\ top' = top /\ undone' = undone
  BY DEF chainVars
<1> QED BY <1>1 DEF ChainSound, Over, Taken, Place

(* CursorStands. The same for the cursors.                                 *)
LEMMA CursorStands ==
  ASSUME CursorSound, UNCHANGED <<chainVars, applied, skipped, saved>>,
         cursor' \in {cursor, saved}, saved \in Cursors, cursor \in Cursors, top \in Nat
  PROVE  CursorSound'
<1>1. \A a \in Agreements, k \in Ks : Over(a, k)' = Over(a, k) /\ Place(a, k)' = Place(a, k)
  BY ChainStands
<1>2. block' = block /\ top' = top /\ saved' = saved
  BY DEF chainVars
<1>3. UpTo(saved, saved)
  BY CursorsArePlaces, PlacesOrdered
<1>4. UpTo(saved, cursor) /\ UpTo(cursor, AtBlock(top + 1))
      /\ OverUpTo(Effective(cursor)) /\ OverUpTo(Effective(saved))
  BY DEF CursorSound
<1>5. CASE cursor' = cursor
  BY <1>1, <1>2, <1>4, <1>5 DEF CursorSound, OverUpTo
<1>6. CASE cursor' = saved /\ UpTo(saved, AtBlock(top + 1))
  BY <1>1, <1>2, <1>3, <1>4, <1>6 DEF CursorSound, OverUpTo
<1>7. UpTo(saved, AtBlock(top + 1))
  <2>1. saved \in Nat \X Nat /\ cursor \in Nat \X Nat /\ AtBlock(top + 1) \in Nat \X Nat
    BY CursorsArePlaces DEF AtBlock
  <2> QED BY <1>4, <2>1, PlacesOrdered
<1> QED BY <1>5, <1>6, <1>7

(* DrainEndsKeeps. Outside a drain nothing is said of one.                 *)
LEMMA DrainEndsKeeps ==
  ASSUME DrainEnds, top' \in Nat
  PROVE  /\ DrainSound' /\ PageSound'
         /\ phase' = "idle" /\ readFrom' \in Cursors /\ pin' \in Blocks
         /\ pages' \in 0 .. MaxPages /\ page'.rows = {} /\ page'.next \in Cursors
<1>1. <<0, 0>> \in Cursors /\ 0 \in Blocks /\ 0 \in 0 .. MaxPages
  BY CursorNumbers DEF Cursors, Blocks
<1>2. page'.rows = {} /\ page'.next \in Cursors
  BY <1>1 DEF DrainEnds, NoPage
<1> QED BY <1>1, <1>2 DEF DrainEnds, DrainSound, PageSound

(* StartDrainKeeps. The start of a drain keeps the invariant.              *)
LEMMA StartDrainKeeps ==
  ASSUME CursorInv, StartDrain
  PROVE  CursorInv'
<1>. USE DEF CursorInv
<1>1. UNCHANGED <<chainVars, applied, skipped, saved>> /\ cursor' = cursor /\ top' = top
  BY DEF StartDrain, chainVars
<1>2. /\ cursor \in Cursors /\ saved \in Cursors /\ top \in Nat
      /\ Effective(cursor) \in Cursors
  BY Typed, EffectiveIs
<1>3. CursorTypeOK'
  <2>1. checkedFor' \subseteq checkedFor
    BY DEF StartDrain, ForgetBefore
  <2>2. 0 \in Blocks /\ 0 \in 0 .. MaxPages
    BY CursorNumbers DEF Blocks
  <2> QED BY <1>2, <2>1, <2>2 DEF CursorTypeOK, StartDrain, chainVars
<1>4. ChainSound' /\ CursorSound'
  BY <1>1, <1>2, ChainStands, CursorStands
<1>5. DrainSound'
  <2>1. \A a \in Agreements, k \in Ks : ~OutOfReach(a, k)'
    <3>1. SUFFICES ASSUME NEW a \in Agreements, NEW k \in Ks, OutOfReach(a, k)' PROVE FALSE
      OBVIOUS
    <3>2. block' = block /\ pin' = 0
      BY DEF StartDrain, chainVars
    <3>3. block[a][k] # 0 /\ block[a][k] + ReorgDepth <= 0
      BY <3>1, <3>2 DEF OutOfReach
    <3> QED BY <3>3, Typed, CursorNumbers
  <2> QED BY <1>1, <1>2, <2>1 DEF DrainSound, StartDrain
<1>6. PageSound'
  BY DEF PageSound, StartDrain
<1>7. ChecksSound'
  <2>1. Effective(cursor)[1] \in Nat /\ \A q \in asked : q[2] \in Nat
    BY <1>2, CursorsArePlaces, CursorNumbers DEF CursorTypeOK, Blocks
  <2>2. ASSUME NEW q \in asked, q \notin checkedFor' PROVE q[2] < Effective(cursor)[1]
    <3>1. q \notin checkedFor \/ ~(q[2] >= Effective(cursor)[1])
      BY <2>2 DEF StartDrain, ForgetBefore
    <3> QED BY <2>1, <3>1 DEF ChecksSound
  <2> QED BY <2>2 DEF ChecksSound, StartDrain
<1> QED BY <1>3, <1>4, <1>5, <1>6, <1>7

(* FetchFailsKeeps. A failed query keeps the invariant.                    *)
LEMMA FetchFailsKeeps ==
  ASSUME CursorInv, FetchFails
  PROVE  CursorInv'
<1>. USE DEF CursorInv
<1>1. /\ UNCHANGED <<chainVars, applied, skipped, saved>> /\ cursor' = cursor /\ top' = top
      /\ DrainEnds
  BY DEF FetchFails, chainVars
<1>2. saved \in Cursors /\ cursor \in Cursors /\ top \in Nat
  BY Typed
<1>3. /\ DrainSound' /\ PageSound'
      /\ phase' = "idle" /\ readFrom' \in Cursors /\ pin' \in Blocks
      /\ pages' \in 0 .. MaxPages /\ page'.rows = {} /\ page'.next \in Cursors
  BY <1>1, <1>2, DrainEndsKeeps
<1>4. CursorTypeOK'
  <2>1. cursorFaults' \in 0 .. CursorFaults
    BY CursorNumbers DEF FetchFails, CursorFault, CursorTypeOK
  <2> QED BY <1>3, <2>1 DEF CursorTypeOK, FetchFails, chainVars, checkVars
<1>5. ChainSound' /\ CursorSound'
  BY <1>1, <1>2, ChainStands, CursorStands
<1>6. ChecksSound'
  BY DEF ChecksSound, FetchFails, checkVars
<1> QED BY <1>3, <1>4, <1>5, <1>6

(* HoldAgesKeeps. The hold's clock keeps the invariant.                    *)
LEMMA HoldAgesKeeps ==
  ASSUME CursorInv, HoldAges
  PROVE  CursorInv'
<1>. USE DEF CursorInv
<1>1. UNCHANGED <<chainVars, applied, skipped, saved, drainVars, checkVars>> /\ cursor' = cursor
  BY DEF HoldAges
<1>2. hold' \in [at : Cursors, age : -1 .. MaxCursorHold]
  <2>1. hold.age \in 0 .. MaxCursorHold - 1 /\ hold' = [hold EXCEPT !.age = hold.age + 1]
    BY DEF HoldAges
  <2>2. hold.age + 1 \in -1 .. MaxCursorHold
    BY <2>1, CursorNumbers
  <2> QED BY <2>1, <2>2 DEF CursorTypeOK
<1>3. CursorTypeOK'
  BY <1>1, <1>2 DEF CursorTypeOK, HoldAges, chainVars, drainVars, checkVars
<1>4. ChainSound' /\ CursorSound'
  BY <1>1, Typed, ChainStands, CursorStands
<1>5. \A a \in Agreements, k \in Ks :
        /\ Over(a, k)' = Over(a, k) /\ Place(a, k)' = Place(a, k)
        /\ OutOfReach(a, k)' = OutOfReach(a, k)
  BY <1>1, ChainStands DEF OutOfReach, chainVars, drainVars
<1>6. DrainSound' /\ PageSound' /\ ChecksSound'
  BY <1>1, <1>5 DEF DrainSound, PageSound, ChecksSound, chainVars, drainVars, checkVars
<1> QED BY <1>3, <1>4, <1>6

(* RestartKeeps. A restart keeps the invariant.                            *)
LEMMA RestartKeeps ==
  ASSUME CursorInv, Restart
  PROVE  CursorInv'
<1>. USE DEF CursorInv
<1>1. /\ UNCHANGED <<chainVars, applied, skipped, saved>> /\ cursor' = saved /\ top' = top
      /\ DrainEnds
  BY DEF Restart, chainVars
<1>2. saved \in Cursors /\ cursor \in Cursors /\ top \in Nat
  BY Typed
<1>3. /\ DrainSound' /\ PageSound'
      /\ phase' = "idle" /\ readFrom' \in Cursors /\ pin' \in Blocks
      /\ pages' \in 0 .. MaxPages /\ page'.rows = {} /\ page'.next \in Cursors
  BY <1>1, <1>2, DrainEndsKeeps
<1>4. CursorTypeOK'
  <2>1. cursorFaults' \in 0 .. CursorFaults
    BY CursorNumbers DEF Restart, CursorFault, CursorTypeOK
  <2>2. hold' \in [at : Cursors, age : -1 .. MaxCursorHold]
    <3>1. <<0, 0>> \in Cursors /\ -1 \in -1 .. MaxCursorHold
      BY CursorNumbers DEF Cursors, Blocks
    <3> QED BY <3>1 DEF Restart, NoHold
  <2> QED BY <1>2, <1>3, <2>1, <2>2 DEF CursorTypeOK, Restart, chainVars
<1>5. ChainSound' /\ CursorSound'
  BY <1>1, <1>2, ChainStands, CursorStands
<1>6. ChecksSound'
  BY DEF ChecksSound, Restart
<1> QED BY <1>3, <1>4, <1>5, <1>6

(* ViewIs. A drain sees the subgraph at its pin, or at its head.           *)
LEMMA ViewIs ==
  ASSUME CursorTypeOK, ChainSound, pin <= subgraphHead
  PROVE  View \in Nat /\ View <= subgraphHead /\ View <= MaxBlock /\ View <= top
BY Typed, CursorNumbers DEF View, ChainSound

(* AnswerIs. An answer, however much of it does not parse, has every row   *)
(* between the cursor it was asked with and the next one.                  *)
LEMMA AnswerIs ==
  ASSUME CursorTypeOK, ChainSound, pin <= subgraphHead,
         NEW bad \in SUBSET FirstPage(readFrom, View), NEW told \in {"row", "block", "none"},
         bad = {} => told = "row"
  PROVE  /\ Answer(bad, told).rows \subseteq RowsAt(View)
         /\ \A r \in Answer(bad, told).rows : Less(readFrom, Pos(r))
         /\ Answer(bad, told).next \in Cursors
         /\ \/ Answer(bad, told).next = readFrom
            \/ UpTo(Answer(bad, told).next, AtBlock(View + 1))
         /\ \A r \in RowsAt(View) :
              Less(readFrom, Pos(r)) /\ UpTo(Pos(r), Answer(bad, told).next)
                => r \in Answer(bad, told).rows
<1>. DEFINE answer == FirstPage(readFrom, View)
            at(r) == IF told = "row" THEN Pos(r) ELSE AtBlock(Pos(r)[1])
            rows == {r \in answer \ bad : told = "none" \/ \A b \in bad : Less(Pos(r), at(b))}
            next == IF bad # {} /\ told = "none" THEN readFrom
                    ELSE NextCursor(answer, rows, bad)
<1>1. Answer(bad, told).rows = rows /\ Answer(bad, told).next = next
  BY DEF Answer
<1>2. /\ View \in Nat /\ View <= MaxBlock /\ block \in [Agreements -> [Ks -> Blocks]]
      /\ readFrom \in Cursors /\ readFrom \in Nat \X Nat
  BY Typed, ViewIs, CursorsArePlaces DEF CursorTypeOK
<1>3. answer \subseteq RowsAt(View) /\ \A r \in answer : Less(readFrom, Pos(r))
  BY DEF FirstPage
<1>4. rows \subseteq answer
  OBVIOUS
<1>5. \A r \in RowsAt(View) :
        /\ r[1] \in Agreements /\ r[3] \in 1 .. View
        /\ Pos(r) = <<r[3], r[1]>> /\ Pos(r) \in Nat \X Nat
  BY <1>2, RowsAre
<1>6. \A r \in RowsAt(View) : Pos(r) \in Cursors /\ UpTo(Pos(r), AtBlock(View + 1))
  BY <1>2, <1>5, CursorNumbers DEF Cursors, Blocks, UpTo, Less, AtBlock
<1>7. AtBlock(View + 1) \in Cursors /\ UpTo(AtBlock(View + 1), AtBlock(View + 1))
  BY <1>2, CursorNumbers DEF Cursors, Blocks, UpTo, Less, AtBlock
<1>8. CASE next = readFrom
  <2>1. \A r \in RowsAt(View) : ~(Less(readFrom, Pos(r)) /\ UpTo(Pos(r), next))
    BY <1>2, <1>5, <1>8, PlacesOrdered DEF UpTo
  <2> QED BY <1>1, <1>2, <1>3, <1>4, <1>8, <2>1
<1>9. CASE bad = {} /\ Cardinality(answer) < SubgraphPage
  <2>1. rows = answer /\ next = AtBlock(View + 1)
    BY <1>9 DEF NextCursor
  <2>2. \A r \in RowsAt(View) : Less(readFrom, Pos(r)) => r \in answer
    BY <1>2, <1>9, ShortPageIsLast
  <2> QED BY <1>1, <1>3, <1>7, <2>1, <2>2
<1>10. CASE ~(bad = {} /\ Cardinality(answer) < SubgraphPage) /\ next # readFrom
  <2>1. next = LastRow(rows) /\ rows # {} /\ told # "none"
    BY <1>10 DEF NextCursor
  <2>2. PICK l \in rows : next = Pos(l) /\ \A s \in rows : UpTo(Pos(s), Pos(l))
    <3>1. rows \in SUBSET RowsAt(View)
      BY <1>3, <1>4
    <3>. HIDE DEF rows, next, answer
    <3> QED BY <1>2, <2>1, <3>1, LastRowIs
  <2>3. l \in answer /\ l \in RowsAt(View) /\ \A b \in bad : Less(Pos(l), at(b))
    BY <1>3, <1>4, <2>1, <2>2
  <2>4. ASSUME NEW r \in RowsAt(View), Less(readFrom, Pos(r)), UpTo(Pos(r), next)
        PROVE  r \in rows
    <3>1. r \in answer
      <4>. HIDE DEF next, rows
      <4> QED BY <1>2, <2>2, <2>3, <2>4, PageIsFirst
    <3>2. \A b \in bad : Less(Pos(r), at(b))
      <4>1. SUFFICES ASSUME NEW b \in bad PROVE Less(Pos(r), at(b))
        OBVIOUS
      <4>2. at(b) \in Nat \X Nat
        <5>1. Pos(b) \in Nat \X Nat /\ AtBlock(Pos(b)[1]) \in Nat \X Nat
          BY <1>3, <1>5 DEF AtBlock
        <5> QED BY <5>1
      <4>3. Less(Pos(l), at(b)) /\ UpTo(Pos(r), Pos(l))
        BY <2>2, <2>3, <2>4
      <4>. HIDE DEF at, rows, next, answer
      <4> QED BY <1>5, <2>3, <2>4, <4>2, <4>3, PlacesOrdered
    <3>3. r \notin bad
      <4>1. SUFFICES ASSUME r \in bad PROVE FALSE
        OBVIOUS
      <4>2. Less(Pos(r), at(r))
        BY <3>2, <4>1
      <4>3. Pos(r) = <<r[3], r[1]>> /\ r[3] \in Nat /\ r[1] \in Nat
        BY <1>5, CursorNumbers
      <4>4. Less(Pos(r), Pos(r)) \/ Less(Pos(r), AtBlock(r[3]))
        BY <4>2, <4>3
      <4> QED BY <4>3, <4>4 DEF Less, AtBlock
    <3> QED BY <3>1, <3>2, <3>3
  <2>5. next \in Cursors /\ UpTo(next, AtBlock(View + 1))
    BY <1>6, <2>2, <2>3
  <2> QED BY <1>1, <1>3, <1>4, <2>4, <2>5
<1> QED BY <1>8, <1>9, <1>10

(* FetchKeeps. An answer keeps the invariant.                              *)
LEMMA FetchKeeps ==
  ASSUME CursorInv, Fetch
  PROVE  CursorInv'
<1>. USE DEF CursorInv
<1>1. /\ UNCHANGED <<chainVars, applied, skipped, saved>> /\ cursor' = cursor
      /\ UNCHANGED <<readFrom, checkVars, pages>> /\ block' = block /\ top' = top
      /\ phase = "fetch" /\ phase' = "apply" /\ pin' = View /\ pin <= subgraphHead
  BY DEF Fetch, chainVars
<1>2. PICK bad \in SUBSET FirstPage(readFrom, View), told \in {"row", "block", "none"} :
        /\ bad = {} => told = "row"
        /\ CursorFault(Cardinality(bad))
        /\ page' = Answer(bad, told)
  BY DEF Fetch
<1>3. /\ View \in Nat /\ View <= subgraphHead /\ View <= MaxBlock /\ View <= top
      /\ block \in [Agreements -> [Ks -> Blocks]]
      /\ readFrom \in Cursors /\ saved \in Cursors /\ cursor \in Cursors /\ top \in Nat
  BY <1>1, Typed, ViewIs DEF CursorTypeOK
<1>4. /\ page'.rows \subseteq RowsAt(View)
      /\ \A r \in page'.rows : Less(readFrom, Pos(r))
      /\ page'.next \in Cursors
      /\ page'.next = readFrom \/ UpTo(page'.next, AtBlock(View + 1))
      /\ \A r \in RowsAt(View) :
           Less(readFrom, Pos(r)) /\ UpTo(Pos(r), page'.next) => r \in page'.rows
  BY <1>1, <1>2, AnswerIs
<1>5. \A r \in page'.rows :
        /\ r[1] \in Agreements /\ r[2] \in Ks /\ r[3] \in 1 .. View /\ r[3] = block[r[1]][r[2]]
        /\ r = <<r[1], r[2], r[3]>> /\ Pos(r) = <<r[3], r[1]>>
  BY <1>3, <1>4, RowsAre
<1>6. CursorTypeOK'
  <2>1. View \in Blocks
    BY <1>3, CursorNumbers DEF Blocks
  <2>2. page'.rows \subseteq Agreements \X Ks \X Blocks
    <3>1. \A r \in page'.rows : r[3] \in Blocks
      BY <1>3, <1>5, CursorNumbers DEF Blocks
    <3> QED BY <1>5, <3>1
  <2>3. cursorFaults' \in 0 .. CursorFaults
    <3>1. Cardinality(bad) \in Nat
      <4>1. FirstPage(readFrom, View) \subseteq RowsAt(View)
        BY DEF FirstPage
      <4>2. IsFiniteSet(bad)
        BY <1>2, <1>3, <4>1, RowsAre, FS_Subset
      <4> QED BY <4>2, FS_CardinalityType
    <3> QED BY <1>2, <3>1, CursorNumbers DEF CursorFault, CursorTypeOK
  <2>4. hold' = hold
    BY DEF Fetch
  <2> QED BY <1>1, <1>3, <1>4, <2>1, <2>2, <2>3, <2>4 DEF CursorTypeOK, chainVars, checkVars
<1>7. ChainSound' /\ CursorSound'
  BY <1>1, <1>3, ChainStands, CursorStands
<1>8. \A a \in Agreements, k \in Ks : Over(a, k)' = Over(a, k) /\ Place(a, k)' = Place(a, k)
  BY <1>1, ChainStands
<1>9. DrainSound'
  <2>1. ASSUME NEW a \in Agreements, NEW k \in Ks, OutOfReach(a, k)', UpTo(Place(a, k), readFrom)
        PROVE  Over(a, k)
    <3>1. block[a][k] # 0 /\ block[a][k] + ReorgDepth <= View
      BY <1>1, <2>1 DEF OutOfReach
    <3>2. CASE pin = 0
      <4>1. readFrom = Effective(cursor) /\ OverUpTo(Effective(cursor))
        BY <1>1, <3>2 DEF DrainSound, CursorSound
      <4> QED BY <2>1, <3>1, <4>1 DEF OverUpTo
    <3>3. CASE pin # 0
      <4>1. View = pin
        BY <3>3 DEF View
      <4> QED BY <1>1, <2>1, <3>1, <4>1 DEF DrainSound, OutOfReach
    <3> QED BY <3>2, <3>3
  <2>2. phase # "idle"
    BY <1>1
  <2> QED BY <1>1, <1>3, <1>8, <2>1, <2>2 DEF DrainSound
<1>10. PageSound'
  <2>1. ASSUME NEW r \in page'.rows
        PROVE  r[3] <= View /\ r[3] > Buffer /\ r[3] >= readFrom[1]
    <3>1. r[3] \in Nat /\ r[3] <= View /\ r[3] # 0 /\ r[1] \in Nat
      BY <1>3, <1>5, CursorNumbers
    <3>2. r[3] > Buffer
      BY <1>5, <3>1 DEF ChainSound
    <3>3. r[3] >= readFrom[1]
      BY <1>3, <1>4, <1>5, <3>1, CursorsArePlaces DEF Less
    <3> QED BY <3>1, <3>2, <3>3
  <2>2. ASSUME NEW a \in Agreements, NEW k \in Ks, OutOfReach(a, k)',
               Less(readFrom, Place(a, k)), UpTo(Place(a, k), page'.next)
        PROVE  Over(a, k) \/ \E r \in page'.rows : r[1] = a /\ r[2] >= k
    <3>. DEFINE L == LatestChange(a, View)
    <3>1. /\ block[a][k] \in 1 .. View /\ k \in Nat
      <4>1. block[a][k] # 0 /\ block[a][k] + ReorgDepth <= View
        BY <1>1, <2>2 DEF OutOfReach
      <4> QED BY <1>3, <4>1, Typed, CursorNumbers
    <3>2. L \in 0 .. Changes /\ k <= L /\ (L > 0 => L \in Ks /\ block[a][L] \in 1 .. View)
      BY <1>3, <3>1, LatestIs
    <3>3. <<a, L, block[a][L]>> \in RowsAt(View)
      <4>1. L > 0
        BY <3>1, <3>2 DEF Ks
      <4> QED BY <1>3, <4>1, RowsAre
    <3>. HIDE DEF L
    <3>4. CASE k = L
      <4>1. Pos(<<a, L, block[a][L]>>) = Place(a, k)
        BY <3>4 DEF Pos, Place
      <4>2. <<a, L, block[a][L]>> \in page'.rows
        BY <1>4, <2>2, <3>3, <4>1
      <4>3. <<a, L, block[a][L]>>[1] = a /\ <<a, L, block[a][L]>>[2] >= k
        BY <3>1, <3>4
      <4> QED BY <4>2, <4>3
    <3>5. CASE k < L
      <4>1. L \in Ks /\ block[a][L] # 0 /\ k + 1 \in Ks /\ k + 1 <= L /\ k < Changes
        BY <3>1, <3>2, <3>5, CursorNumbers DEF Ks
      <4>2. block[a][k + 1] # 0
        <5>1. k + 1 < L => block[a][k + 1] # 0
          BY <4>1 DEF ChainSound
        <5> QED BY <3>1, <3>2, <4>1, <5>1
      <4> QED BY <4>1, <4>2 DEF Over
    <3> QED BY <3>1, <3>2, <3>4, <3>5
  <2> QED BY <1>1, <1>4, <1>8, <2>1, <2>2 DEF PageSound
<1>11. ChecksSound'
  BY <1>1 DEF ChecksSound, checkVars
<1> QED BY <1>6, <1>7, <1>9, <1>10, <1>11

(* RaiseIs. Taking rows raises what was taken, and to no less than them.   *)
LEMMA RaiseIs ==
  ASSUME NEW f \in [Agreements -> 0 .. Changes], NEW rows \in SUBSET (Agreements \X Ks \X Blocks)
  PROVE  /\ Raise(f, rows) \in [Agreements -> 0 .. Changes]
         /\ \A a \in Agreements : Raise(f, rows)[a] >= f[a]
         /\ \A r \in rows : Raise(f, rows)[r[1]] >= r[2]
<1>1. ASSUME NEW a \in Agreements
      PROVE  /\ ChangeIn(rows, a) \in 0 .. Changes
             /\ \A r \in rows : r[1] = a => r[2] <= ChangeIn(rows, a)
  <2>. DEFINE T == {0} \cup {r[2] : r \in {s \in rows : s[1] = a}}
  <2>1. T \in SUBSET Nat /\ T # {} /\ (\A t \in T : t <= Changes) /\ Changes \in Nat
    BY CursorNumbers DEF Ks
  <2>2. ChangeIn(rows, a) = Max(T)
    BY DEF ChangeIn
  <2>3. \A r \in rows : r[1] = a => r[2] \in T
    OBVIOUS
  <2>. HIDE DEF T
  <2>4. Max(T) \in T /\ \A t \in T : t <= Max(T)
    BY <2>1, MaxIs
  <2>5. Max(T) \in 0 .. Changes
    <3>1. Max(T) \in Nat /\ Max(T) <= Changes
      BY <2>1, <2>4
    <3> QED BY <2>1, <3>1
  <2> QED BY <2>2, <2>3, <2>4, <2>5
<1>2. ASSUME NEW a \in Agreements
      PROVE  /\ Raise(f, rows)[a] \in 0 .. Changes
             /\ Raise(f, rows)[a] >= f[a] /\ Raise(f, rows)[a] >= ChangeIn(rows, a)
  <2>1. Raise(f, rows)[a] = Max({f[a], ChangeIn(rows, a)})
    BY DEF Raise
  <2>2. f[a] \in 0 .. Changes /\ ChangeIn(rows, a) \in 0 .. Changes
    BY <1>1
  <2>3. \A x, y \in Nat : Max({x, y}) = IF x >= y THEN x ELSE y
    BY DEF Max
  <2> QED BY <2>1, <2>2, <2>3, CursorNumbers
<1>3. Raise(f, rows) \in [Agreements -> 0 .. Changes]
  BY <1>2 DEF Raise
<1>4. \A r \in rows : Raise(f, rows)[r[1]] >= r[2]
  <2>1. TAKE r \in rows
  <2>2. r[1] \in Agreements /\ r[2] \in Nat
    BY CursorNumbers DEF Ks
  <2>3. /\ r[2] <= ChangeIn(rows, r[1]) /\ ChangeIn(rows, r[1]) \in 0 .. Changes
        /\ Raise(f, rows)[r[1]] \in 0 .. Changes
        /\ Raise(f, rows)[r[1]] >= ChangeIn(rows, r[1])
    BY <1>1, <1>2, <2>2
  <2> QED BY <2>2, <2>3, CursorNumbers
<1> QED BY <1>2, <1>3, <1>4

(* EffectiveGrows. What a drain no longer reads it does not come to read   *)
(* again as the cursor moves on.                                           *)
LEMMA EffectiveGrows ==
  ASSUME NEW c \in Cursors, NEW d \in Cursors, UpTo(c, d),
         NEW b \in Nat, b > Buffer, b < Effective(c)[1]
  PROVE  b < Effective(d)[1]
<1>1. c[1] \in Nat /\ d[1] \in Nat /\ c[1] <= d[1]
  BY CursorsArePlaces DEF UpTo, Less
<1>2. Effective(c)[1] = IF Buffer > 0 /\ c[1] > Buffer THEN c[1] - Buffer ELSE c[1]
  BY DEF Effective, AtBlock
<1>3. Effective(d)[1] = IF Buffer > 0 /\ d[1] > Buffer THEN d[1] - Buffer ELSE d[1]
  BY DEF Effective, AtBlock
<1> QED BY <1>1, <1>2, <1>3, CursorNumbers

(* ApplyIs. A page taken: nothing that was over stops being so, and with   *)
(* a page the cursor moves past, every row of it is.                       *)
LEMMA ApplyIs ==
  ASSUME CursorTypeOK, NEW failed \in SUBSET page.rows, NEW stored, Apply(failed, stored)
  PROVE  /\ applied' \in [Agreements -> 0 .. Changes] /\ skipped' \in [Agreements -> 0 .. Changes]
         /\ \A a \in Agreements, k \in Ks :
              /\ Place(a, k)' = Place(a, k)
              /\ Over(a, k) => Over(a, k)'
              /\ Advances(failed) /\ (\E r \in page.rows : r[1] = a /\ r[2] >= k) => Over(a, k)'
<1>1. /\ page.rows \subseteq Agreements \X Ks \X Blocks
      /\ applied \in [Agreements -> 0 .. Changes] /\ skipped \in [Agreements -> 0 .. Changes]
      /\ page.rows \ failed \in SUBSET (Agreements \X Ks \X Blocks)
      /\ failed \in SUBSET (Agreements \X Ks \X Blocks)
  BY DEF CursorTypeOK
<1>2. /\ applied' = Raise(applied, page.rows \ failed)
      /\ skipped' = IF HoldExpired THEN Raise(skipped, failed) ELSE skipped
      /\ block' = block /\ undone' = undone
  BY DEF Apply, chainVars
<1>3. /\ applied' \in [Agreements -> 0 .. Changes]
      /\ \A a \in Agreements : applied'[a] >= applied[a]
      /\ \A r \in page.rows \ failed : applied'[r[1]] >= r[2]
  BY <1>1, <1>2, RaiseIs
<1>4. /\ skipped' \in [Agreements -> 0 .. Changes]
      /\ \A a \in Agreements : skipped'[a] >= skipped[a]
      /\ HoldExpired => \A r \in failed : skipped'[r[1]] >= r[2]
  <2>1. CASE HoldExpired
    BY <1>1, <1>2, <2>1, RaiseIs
  <2>2. CASE ~HoldExpired
    <3>1. \A a \in Agreements : skipped[a] \in Nat
      BY <1>1, CursorNumbers
    <3> QED BY <1>1, <1>2, <2>2, <3>1
  <2> QED BY <2>1, <2>2
<1>5. ASSUME NEW a \in Agreements, NEW k \in Ks, Over(a, k) PROVE Over(a, k)'
  <2>1. CASE Taken(a, k)
    <3>1. applied'[a] >= k \/ skipped'[a] >= k
      <4>1. /\ {applied[a], applied'[a], skipped[a], skipped'[a]} \subseteq 0 .. Changes
            /\ k \in Nat
        BY <1>1, <1>3, <1>4, CursorNumbers DEF Ks
      <4> QED BY <1>3, <1>4, <2>1, <4>1, CursorNumbers DEF Taken
    <3> QED BY <3>1 DEF Over, Taken
  <2>2. CASE undone[a] > k \/ (k < Changes /\ block[a][k + 1] # 0)
    BY <1>2, <2>2 DEF Over
  <2> QED BY <1>5, <2>1, <2>2 DEF Over
<1>6. ASSUME NEW a \in Agreements, NEW k \in Ks, Advances(failed),
             NEW r \in page.rows, r[1] = a, r[2] >= k
      PROVE  Over(a, k)'
  <2>1. k \in Nat /\ r[2] \in Nat /\ {applied'[a], skipped'[a]} \subseteq 0 .. Changes
    BY <1>1, <1>3, <1>4, CursorNumbers DEF Ks
  <2>2. CASE r \notin failed
    <3>1. applied'[a] >= k
      BY <1>3, <1>6, <2>1, <2>2, CursorNumbers
    <3> QED BY <3>1 DEF Over, Taken
  <2>3. CASE r \in failed
    <3>1. HoldExpired
      BY <1>6, <2>3 DEF Advances
    <3>2. skipped'[a] >= k
      BY <1>4, <1>6, <2>1, <2>3, <3>1, CursorNumbers
    <3> QED BY <3>2 DEF Over, Taken
  <2> QED BY <2>2, <2>3
<1>7. \A a \in Agreements, k \in Ks : Place(a, k)' = Place(a, k)
  BY <1>2 DEF Place
<1> QED BY <1>3, <1>4, <1>5, <1>6, <1>7

(* ChecksKeep. A page queues no check a second time.                       *)
LEMMA ChecksKeep ==
  ASSUME CursorInv, phase = "apply",
         NEW failed \in SUBSET page.rows, NEW stored, Apply(failed, stored)
  PROVE  ChecksSound' /\ checkedFor' \subseteq Agreements \X Blocks
         /\ asked' \subseteq Agreements \X Blocks /\ again' \subseteq asked'
<1>. USE DEF CursorInv
<1>. DEFINE fresh == FreshChecks(page.rows \ failed)
<1>1. /\ checkedFor' = checkedFor \cup fresh /\ asked' = asked \cup fresh
      /\ again' = again \cup (fresh \cap asked)
      /\ cursor' = IF Advances(failed) THEN page.next ELSE cursor
  BY DEF Apply
<1>2. /\ page.rows \subseteq Agreements \X Ks \X Blocks
      /\ checkedFor \subseteq Agreements \X Blocks /\ asked \subseteq Agreements \X Blocks
      /\ cursor \in Cursors /\ readFrom \in Cursors /\ page.next \in Cursors
  BY DEF CursorTypeOK
<1>3. \A q \in fresh : /\ q \in Agreements \X Blocks /\ q \notin checkedFor
                       /\ \E r \in page.rows : q[2] = r[3]
  BY <1>2 DEF FreshChecks
<1>4. \A q \in fresh : q[2] > Buffer /\ q[2] >= readFrom[1] /\ q[2] \in Nat
  <2>1. \A r \in page.rows : r[3] > Buffer /\ r[3] >= readFrom[1] /\ r[3] \in Nat
    BY <1>2, CursorNumbers DEF PageSound, Blocks
  <2> QED BY <1>3, <2>1
<1>5. Effective(cursor)[1] <= readFrom[1] /\ Effective(cursor)[1] \in Nat /\ readFrom[1] \in Nat
  <2>1. readFrom \in {Effective(cursor), cursor}
    BY DEF DrainSound
  <2>2. Effective(cursor) \in Cursors /\ Effective(cursor)[1] <= cursor[1]
    BY <1>2, EffectiveIs
  <2>3. Effective(cursor)[1] \in Nat /\ readFrom[1] \in Nat
    BY <1>2, <2>2, CursorsArePlaces
  <2> QED BY <2>1, <2>2, <2>3
<1>. HIDE DEF fresh
<1>6. fresh \cap asked = {}
  <2>1. SUFFICES ASSUME NEW q \in fresh, q \in asked PROVE FALSE
    OBVIOUS
  <2>2. q[2] < Effective(cursor)[1]
    BY <1>3, <2>1 DEF ChecksSound
  <2> QED BY <1>4, <1>5, <2>1, <2>2
<1>7. ASSUME NEW q \in asked, q \notin checkedFor PROVE q[2] < Effective(cursor')[1]
  <2>1. q[2] < Effective(cursor)[1] /\ q[2] > Buffer /\ q[2] \in Nat
    BY <1>2, <1>7, CursorNumbers DEF ChecksSound, Blocks
  <2>2. cursor' \in Cursors /\ UpTo(cursor, cursor')
    <3>1. CASE Advances(failed)
      <4>1. Less(cursor, page.next) /\ cursor' = page.next
        BY <1>1, <3>1 DEF Advances
      <4> QED BY <1>2, <4>1, CursorsArePlaces, PlacesOrdered
    <3>2. CASE ~Advances(failed)
      BY <1>1, <1>2, <3>2, CursorsArePlaces, PlacesOrdered
    <3> QED BY <3>1, <3>2
  <2> QED BY <1>2, <2>1, <2>2, EffectiveGrows
<1>8. ChecksSound'
  BY <1>1, <1>4, <1>6, <1>7 DEF ChecksSound
<1> QED BY <1>1, <1>2, <1>3, <1>6, <1>8 DEF CursorTypeOK

(* ApplyKeeps. A page that is taken, or fails in part, keeps the invariant.*)
LEMMA ApplyKeeps ==
  ASSUME CursorInv, ApplyPage
  PROVE  CursorInv'
<1>. USE DEF CursorInv
<1>1. PICK failed \in SUBSET page.rows, stored \in {saved, cursor, page.next}, x \in {0, 1, 2} :
        /\ IF Advances(failed) THEN stored \in {saved, page.next} ELSE stored \in {saved, cursor}
        /\ CursorFault(x)
        /\ Apply(failed, stored)
  BY DEF ApplyPage
<1>2. /\ phase = "apply" /\ saved' = stored
      /\ cursor' = IF Advances(failed) THEN page.next ELSE cursor
      /\ UNCHANGED chainVars /\ block' = block /\ top' = top /\ hold' = HoldAfter(failed)
  BY <1>1 DEF ApplyPage, Apply, chainVars
<1>3. /\ cursor \in Cursors /\ saved \in Cursors /\ readFrom \in Cursors /\ page.next \in Cursors
      /\ top \in Nat /\ pin \in Nat /\ pin <= top
      /\ {cursor, saved, readFrom, page.next} \subseteq Nat \X Nat
  BY Typed, CursorsArePlaces DEF DrainSound
<1>4. /\ applied' \in [Agreements -> 0 .. Changes] /\ skipped' \in [Agreements -> 0 .. Changes]
      /\ \A a \in Agreements, k \in Ks :
           /\ Place(a, k)' = Place(a, k)
           /\ Over(a, k) => Over(a, k)'
           /\ Advances(failed) /\ (\E r \in page.rows : r[1] = a /\ r[2] >= k) => Over(a, k)'
  BY <1>1, ApplyIs
<1>5. ASSUME Advances(failed), NEW a \in Agreements, NEW k \in Ks, OutOfReach(a, k),
             UpTo(Place(a, k), page.next)
      PROVE  Over(a, k)'
  <2>1. CASE UpTo(Place(a, k), readFrom)
    BY <1>2, <1>4, <1>5, <2>1 DEF DrainSound
  <2>2. CASE Less(readFrom, Place(a, k))
    BY <1>2, <1>4, <1>5, <2>2 DEF PageSound
  <2> QED BY <1>3, <2>1, <2>2, Typed, PlacesOrdered
<1>6. ASSUME Advances(failed)
      PROVE  Less(cursor, page.next) /\ UpTo(page.next, AtBlock(pin + 1))
             /\ UpTo(page.next, AtBlock(top + 1))
  <2>1. Less(cursor, page.next)
    BY <1>6 DEF Advances
  <2>2. page.next # readFrom
    <3>1. readFrom \in {Effective(cursor), cursor} /\ UpTo(Effective(cursor), cursor)
          /\ UpTo(cursor, cursor)
      BY <1>2, <1>3, EffectiveIs, PlacesOrdered DEF DrainSound
    <3>2. UpTo(readFrom, cursor)
      BY <3>1
    <3> QED BY <2>1, <3>2 DEF UpTo
  <2>3. UpTo(page.next, AtBlock(pin + 1))
    BY <1>2, <2>2 DEF PageSound
  <2>4. UpTo(page.next, AtBlock(top + 1))
    <3>1. /\ AtBlock(pin + 1) \in Nat \X Nat /\ AtBlock(top + 1) \in Nat \X Nat
          /\ UpTo(AtBlock(pin + 1), AtBlock(top + 1))
      BY <1>3 DEF AtBlock, UpTo, Less
    <3> QED BY <1>3, <2>3, <3>1, PlacesOrdered
  <2> QED BY <2>1, <2>3, <2>4
<1>7. ASSUME Advances(failed), NEW a \in Agreements, NEW k \in Ks, block[a][k] # 0,
             UpTo(Place(a, k), Effective(page.next))
      PROVE  Over(a, k)'
  <2>1. /\ block[a][k] \in Nat /\ block[a][k] > Buffer /\ Place(a, k) = <<block[a][k], a>>
        /\ Place(a, k) \in Nat \X Nat
    BY <1>7, Typed DEF ChainSound
  <2>2. block[a][k] + ReorgDepth <= pin
    BY <1>3, <1>6, <1>7, <2>1, BehindTheBuffer
  <2>3. UpTo(Place(a, k), page.next)
    <3>1. UpTo(Effective(page.next), page.next) /\ Effective(page.next) \in Nat \X Nat
      BY <1>3, EffectiveIs, CursorsArePlaces
    <3> QED BY <1>3, <1>7, <2>1, <3>1, PlacesOrdered
  <2> QED BY <1>5, <1>7, <2>2, <2>3 DEF OutOfReach
<1>8. ASSUME NEW c \in {cursor, saved}, NEW a \in Agreements, NEW k \in Ks, block[a][k] # 0,
             UpTo(Place(a, k), Effective(c))
      PROVE  Over(a, k)'
  BY <1>4, <1>8 DEF CursorSound, OverUpTo
<1>9. CursorSound'
  <2>1. UpTo(saved, cursor) /\ UpTo(cursor, AtBlock(top + 1)) /\ UpTo(cursor, cursor)
        /\ UpTo(page.next, page.next)
    BY <1>3, PlacesOrdered DEF CursorSound
  <2>2. UpTo(saved', cursor') /\ UpTo(cursor', AtBlock(top + 1))
    <3>1. CASE Advances(failed)
      <4>1. Less(cursor, page.next) /\ UpTo(page.next, AtBlock(top + 1))
        BY <1>6, <3>1
      <4>2. UpTo(saved, page.next)
        BY <1>3, <2>1, <4>1, PlacesOrdered
      <4> QED BY <1>1, <1>2, <2>1, <3>1, <4>1, <4>2
    <3>2. CASE ~Advances(failed)
      BY <1>1, <1>2, <2>1, <3>2
    <3> QED BY <3>1, <3>2
  <2>3. ASSUME NEW c, c \in {cursor', saved'}
        PROVE  \A a \in Agreements, k \in Ks :
                 block[a][k] # 0 /\ UpTo(Place(a, k), Effective(c)) => Over(a, k)'
    <3>1. c \in {cursor, saved} \/ (Advances(failed) /\ c = page.next)
      BY <1>1, <1>2, <2>3
    <3> QED BY <1>7, <1>8, <3>1
  <2>4. OverUpTo(Effective(cursor))' /\ OverUpTo(Effective(saved))'
    BY <1>2, <1>4, <2>3 DEF OverUpTo
  <2> QED BY <1>2, <2>2, <2>4 DEF CursorSound
<1>10. ChainSound'
  BY <1>2 DEF ChainSound, chainVars
<1>11. ChecksSound' /\ checkedFor' \subseteq Agreements \X Blocks
       /\ asked' \subseteq Agreements \X Blocks /\ again' \subseteq asked'
  BY <1>1, <1>2, ChecksKeep
<1>12. /\ cursor' \in Cursors /\ saved' \in Cursors /\ cursorFaults' \in 0 .. CursorFaults
       /\ hold' \in [at : Cursors, age : -1 .. MaxCursorHold]
  <2>1. cursorFaults' \in 0 .. CursorFaults
    BY <1>1, CursorNumbers DEF CursorFault, CursorTypeOK
  <2>2. NoHold \in [at : Cursors, age : -1 .. MaxCursorHold]
        /\ [at |-> cursor, age |-> 0] \in [at : Cursors, age : -1 .. MaxCursorHold]
    <3>1. <<0, 0>> \in Cursors /\ -1 \in -1 .. MaxCursorHold /\ 0 \in -1 .. MaxCursorHold
      BY CursorNumbers DEF Cursors, Blocks
    <3> QED BY <1>3, <3>1 DEF NoHold
  <2> QED BY <1>1, <1>2, <1>3, <2>1, <2>2 DEF HoldAfter, CursorTypeOK
<1>13. CASE /\ Advances(failed)
            /\ Cardinality(page.rows) >= SubgraphPage
            /\ pages + 1 < MaxPages
  <2>1. /\ phase' = "fetch" /\ readFrom' = page.next /\ pages' = pages + 1
        /\ page' = NoPage /\ pin' = pin /\ cursor' = page.next
    BY <1>1, <1>2, <1>13 DEF Apply
  <2>2. CursorTypeOK'
    <3>1. pages' \in 0 .. MaxPages
      BY <1>13, <2>1, CursorNumbers DEF CursorTypeOK
    <3>2. page'.rows = {} /\ page'.next \in Cursors
      BY <2>1, CursorNumbers DEF NoPage, Cursors, Blocks
    <3> QED BY <1>2, <1>3, <1>4, <1>11, <1>12, <2>1, <3>1, <3>2 DEF CursorTypeOK, chainVars
  <2>3. pin # 0
    <3>1. page.rows # {}
      BY <1>13, FS_EmptySet, CursorNumbers
    <3>2. PICK r \in page.rows : TRUE
      BY <3>1
    <3>3. r[3] <= pin /\ r[3] > Buffer /\ r[3] \in Nat
      BY <1>2, CursorNumbers DEF PageSound, CursorTypeOK, Blocks
    <3> QED BY <1>3, <3>3, CursorNumbers
  <2>4. DrainSound'
    <3>1. \A a \in Agreements, k \in Ks :
            OutOfReach(a, k)' /\ UpTo(Place(a, k)', readFrom') => Over(a, k)'
      BY <1>2, <1>4, <1>5, <1>13, <2>1 DEF OutOfReach
    <3> QED BY <1>2, <1>3, <2>1, <2>3, <3>1 DEF DrainSound
  <2>5. PageSound'
    BY <2>1 DEF PageSound
  <2> QED BY <1>9, <1>10, <1>11, <2>2, <2>4, <2>5
<1>14. CASE DrainEnds
  <2>1. /\ DrainSound' /\ PageSound'
        /\ phase' = "idle" /\ readFrom' \in Cursors /\ pin' \in Blocks
        /\ pages' \in 0 .. MaxPages /\ page'.rows = {} /\ page'.next \in Cursors
    BY <1>2, <1>3, <1>14, DrainEndsKeeps
  <2>2. CursorTypeOK'
    BY <1>2, <1>4, <1>11, <1>12, <2>1 DEF CursorTypeOK, chainVars
  <2> QED BY <1>9, <1>10, <1>11, <2>1, <2>2
<1> QED BY <1>1, <1>13, <1>14 DEF Apply

(* CursorStepKeeps. Every step keeps the invariant.                        *)
LEMMA CursorStepKeeps == CursorInv /\ [CursorNext]_cursorVars => CursorInv'
<1>. SUFFICES ASSUME CursorInv, [CursorNext]_cursorVars PROVE CursorInv'
  OBVIOUS
<1>1. CASE UNCHANGED cursorVars
  <2>1. UNCHANGED <<chainVars, applied, skipped, saved>> /\ cursor' = cursor
        /\ UNCHANGED <<drainVars, checkVars, hold, cursorFaults>>
    BY <1>1 DEF cursorVars, chainVars, drainVars, checkVars
  <2>2. \A a \in Agreements, k \in Ks :
          /\ Over(a, k)' = Over(a, k) /\ Place(a, k)' = Place(a, k)
          /\ OutOfReach(a, k)' = OutOfReach(a, k)
    BY <2>1, ChainStands DEF OutOfReach, chainVars, drainVars
  <2>3. CursorTypeOK' /\ ChainSound'
    BY <1>1, <2>1, ChainStands DEF CursorInv, CursorTypeOK, cursorVars
  <2>4. CursorSound'
    BY <2>1, Typed, CursorStands DEF CursorInv
  <2>5. DrainSound' /\ PageSound' /\ ChecksSound'
    BY <1>1, <2>2 DEF CursorInv, DrainSound, PageSound, ChecksSound, cursorVars
  <2> QED BY <2>3, <2>4, <2>5 DEF CursorInv
<1>2. CASE \E S \in SUBSET Agreements : MineBlock(S)
  BY <1>2, NewBlockKeeps
<1>3. CASE \E n \in 0 .. MaxBlock : Reorg(n)
  BY <1>3, ReorgKeeps
<1>4. CASE Drain
  BY <1>4, StartDrainKeeps, FetchKeeps, FetchFailsKeeps, ApplyKeeps DEF Drain
<1>5. CASE HoldAges \/ Restart
  BY <1>5, HoldAgesKeeps, RestartKeeps
<1> QED BY <1>1, <1>2, <1>3, <1>4, <1>5 DEF CursorNext

(* CursorHolds. What the invariant says of the changes and the checks.     *)
LEMMA CursorHolds == CursorInv => CursorTypeOK /\ NothingLost /\ CheckedOnce
<1>. SUFFICES ASSUME CursorInv PROVE CursorTypeOK /\ NothingLost /\ CheckedOnce
  OBVIOUS
<1>. USE DEF CursorInv
<1>1. ASSUME NEW c, OverUpTo(Effective(c)) PROVE Accounted(c)
  <2>. DEFINE Latest(a) == LatestChange(a, subgraphHead)
  <2>1. SUFFICES ASSUME NEW a \in Agreements, Passed(c, a, Latest(a))
                 PROVE  Taken(a, Latest(a)) \/ undone[a] > Latest(a)
    BY DEF Accounted
  <2>2. PICK k : k = Latest(a)
    OBVIOUS
  <2>3. /\ k \in 0 .. Changes
        /\ k > 0 => k \in Ks /\ block[a][k] \in 1 .. subgraphHead
        /\ \A j \in Ks : block[a][j] \in 1 .. subgraphHead => j <= k
    BY <2>2, Typed, LatestIs DEF CursorTypeOK
  <2>4. /\ k > 0 /\ k \in Ks /\ block[a][k] # 0 /\ UpTo(Place(a, k), Effective(c))
    BY <2>1, <2>2, <2>3 DEF Passed, UpTo, Place
  <2>5. Over(a, k)
    BY <1>1, <2>4 DEF OverUpTo
  <2>6. ~(k < Changes /\ block[a][k + 1] # 0)
    <3>1. SUFFICES ASSUME k < Changes, block[a][k + 1] # 0 PROVE FALSE
      OBVIOUS
    <3>2. k + 1 \in Ks /\ k \in Nat
      BY <2>3, <3>1, CursorNumbers DEF Ks
    <3>3. block[a][k + 1] \in 1 .. subgraphHead
      BY <3>1, <3>2, Typed DEF ChainSound
    <3> QED BY <2>3, <3>2, <3>3
  <2> QED BY <2>2, <2>5, <2>6 DEF Over
<1>2. NothingLost
  BY <1>1 DEF CursorSound, NothingLost
<1> QED BY <1>2 DEF ChecksSound, CheckedOnce

(* CursorStepsForward. No step takes a cursor back, but a restart the one  *)
(* in memory.                                                              *)
LEMMA CursorStepsForward == CursorInv /\ [CursorNext]_cursorVars => CursorForward
<1>. SUFFICES ASSUME CursorInv, [CursorNext]_cursorVars PROVE CursorForward
  OBVIOUS
<1>1. /\ cursor \in Nat \X Nat /\ saved \in Nat \X Nat /\ page.next \in Nat \X Nat
      /\ UpTo(saved, cursor)
  BY Typed, CursorsArePlaces DEF CursorInv, CursorSound
<1>2. ~Less(saved, saved) /\ ~Less(cursor, cursor) /\ ~Less(cursor, saved)
  BY <1>1, PlacesOrdered DEF UpTo
<1>3. CASE saved' = saved /\ cursor' \in {cursor, saved}
  BY <1>2, <1>3 DEF CursorForward
<1>4. CASE ApplyPage
  <2>1. PICK failed \in SUBSET page.rows, stored \in {saved, cursor, page.next} :
          /\ IF Advances(failed) THEN stored \in {saved, page.next} ELSE stored \in {saved, cursor}
          /\ Apply(failed, stored)
    BY <1>4 DEF ApplyPage
  <2>2. saved' = stored /\ cursor' = IF Advances(failed) THEN page.next ELSE cursor
    BY <2>1 DEF Apply
  <2>3. CASE Advances(failed)
    <3>1. Less(cursor, page.next)
      BY <2>3 DEF Advances
    <3>2. ~Less(page.next, cursor) /\ ~Less(page.next, saved)
      BY <1>1, <3>1, PlacesOrdered DEF UpTo
    <3> QED BY <1>2, <2>1, <2>2, <2>3, <3>2 DEF CursorForward
  <2>4. CASE ~Advances(failed)
    BY <1>2, <2>1, <2>2, <2>4 DEF CursorForward
  <2> QED BY <2>3, <2>4
<1>5. CASE CursorNext /\ ~ApplyPage
  <2>1. saved' = saved /\ cursor' \in {cursor, saved}
    BY <1>5 DEF CursorNext, Drain, MineBlock, Reorg, StartDrain, Fetch, FetchFails, HoldAges,
                Restart
  <2> QED BY <1>3, <2>1
<1>6. CASE UNCHANGED cursorVars
  BY <1>3, <1>6 DEF cursorVars
<1> QED BY <1>4, <1>5, <1>6

(* CursorInvariant. Whatever the chain reorganises, whatever fails to be   *)
(* read, parsed, applied or written and wherever the process is restarted, *)
(* the drain keeps its invariant.                                          *)
THEOREM CursorInvariant == CursorSpec => []CursorInv
BY InitCursorInv, CursorStepKeeps, PTL DEF CursorSpec

=============================================================================
