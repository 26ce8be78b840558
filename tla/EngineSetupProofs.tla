-------------------------- MODULE EngineSetupProofs --------------------------
(***************************************************************************)
(* Building, using and destroying an engine of one of the four Runtimes    *)
(* with sessions, for any packages, any number of workers and any sizes:   *)
(* the shapes fit, the devices are those asked for, nothing outlives its   *)
(* environment, and the shared model serves all the workers.               *)
(*                                                                         *)
(* And the algorithms of OcrAlgorithms, on every input: pages are read in  *)
(* order, boxes come out clockwise, texts are collapsed rows.              *)
(***************************************************************************)
EXTENDS MCEngineSetup, FiniteSetTheorems, WellFoundedInduction, TLAPS

------------------------------------------------------------------------------
(* Shapes.                                                                 *)

\* A quotient is the last multiple that fits.
LEMMA Quotient ==
    ASSUME NEW a \in Nat, NEW b \in Nat \ {0}
    PROVE  a \div b \in Nat /\ (a \div b) * b <= a
OBVIOUS

\* 32 times the rounded quotient is at most 16 pixels above the limit, and not above one
\* that is a multiple of 32.
LEMMA RoundedFits ==
    ASSUME NEW r \in Nat, NEW limit \in Nat, 64 * r <= 2 * limit + 32
    PROVE  /\ AtLeast(32 * r, 32) \in Nat /\ AtLeast(32 * r, 32) % 32 = 0 /\ AtLeast(32 * r, 32) >= 32
           /\ AtLeast(32 * r, 32) > 32 =>
                  /\ AtLeast(32 * r, 32) <= limit + 16
                  /\ limit % 32 = 0 => AtLeast(32 * r, 32) <= limit
<1>1. 32 * r <= limit + 16
  OBVIOUS
<1>2. ASSUME limit % 32 = 0 PROVE 32 * r <= limit
  <2>1. limit = 32 * (limit \div 32) /\ limit \div 32 \in Nat
    BY <1>2
  <2>2. QED
    BY <2>1
<1>3. (32 * r) % 32 = 0
  OBVIOUS
<1>4. QED
  BY <1>1, <1>2, <1>3 DEF AtLeast

LEMMA DetectionSideFits ==
    ASSUME NEW side \in Nat \ {0}, NEW longer \in Nat \ {0}, side <= longer, NEW limit \in Nat \ {0}
    PROVE  LET s == DetectionSide(side, longer, limit) IN
           /\ s % 32 = 0 /\ s >= 32
           /\ s > 32 => s <= limit + 16 /\ (limit % 32 = 0 => s <= limit)
<1>1. CASE longer > limit
  <2> DEFINE n == side * limit
             r == Round(n, 32 * longer)
  <2>1. n \in Nat /\ n <= longer * limit
    <3>1. side * limit <= longer * limit
      OBVIOUS
    <3>2. QED
      BY <3>1
  <2> HIDE DEF n
  <2>2. r = (2 * n + 32 * longer) \div (64 * longer)
    <3>1. 2 * (32 * longer) = 64 * longer
      OBVIOUS
    <3>2. QED
      BY <3>1 DEF Round
  <2>3. r \in Nat /\ r * (64 * longer) <= 2 * n + 32 * longer
    <3>1. 2 * n + 32 * longer \in Nat /\ 64 * longer \in Nat \ {0}
      BY <2>1
    <3>2. QED
      BY <2>2, <3>1, Quotient
  <2> HIDE DEF r
  <2>4. (64 * r) * longer <= (2 * limit + 32) * longer
    <3>1. r * (64 * longer) = (64 * r) * longer
      BY <2>3
    <3>2. (2 * limit + 32) * longer = 2 * (longer * limit) + 32 * longer
      OBVIOUS
    <3>3. longer * limit \in Nat
      OBVIOUS
    <3>4. QED
      BY <2>1, <2>3, <3>1, <3>2, <3>3
  <2>5. 64 * r <= 2 * limit + 32
    BY <2>3, <2>4
  <2>6. DetectionSide(side, longer, limit) = AtLeast(32 * r, 32)
    BY <1>1 DEF DetectionSide, r, n
  <2>7. QED
    BY <2>3, <2>5, <2>6, RoundedFits
<1>2. CASE ~(longer > limit)
  <2> DEFINE r == Round(side, 32)
  <2>1. r \in Nat /\ r * 64 <= 2 * side + 32
    BY Quotient DEF Round
  <2> HIDE DEF r
  <2>2. 64 * r <= 2 * limit + 32
    BY <1>2, <2>1
  <2>3. DetectionSide(side, longer, limit) = AtLeast(32 * r, 32)
    BY <1>2 DEF DetectionSide, r
  <2>4. QED
    BY <2>1, <2>2, <2>3, RoundedFits
<1>3. QED
  BY <1>1, <1>2

\* At the model's own height a crop needs its own width.
LEMMA OwnWidth ==
    ASSUME NEW h \in Nat \ {0}, NEW w \in Nat
    PROVE  Ceil(h * w, h) = w
<1>1. h * w + h - 1 = w * h + (h - 1) /\ h - 1 \in 0 .. h - 1
  OBVIOUS
<1>2. (w * h + (h - 1)) \div h = w
  BY <1>1
<1>3. QED
  BY <1>1, <1>2 DEF Ceil

\* The width a batch needs is the wider of its crop and the manifest's width.
LEMMA RequiredWidthIs ==
    ASSUME NEW w \in Nat, NEW minimum \in Nat
    PROVE  RequiredWidth({[width |-> w, height |-> RecHeight]}, RecHeight, minimum) =
               IF w < minimum THEN minimum ELSE w
<1> DEFINE needs == {Ceil(RecHeight * c.width, c.height) : c \in {[width |-> w, height |-> RecHeight]}} \cup {minimum}
           widest == IF w < minimum THEN minimum ELSE w
<1>1. needs = {w, minimum}
  BY OwnWidth DEF RecHeight
<1>2. \A n \in needs : (\A m \in needs : m <= n) <=> n = widest
  BY <1>1
<1>3. widest \in needs
  BY <1>1
<1> HIDE DEF needs, widest
<1>4. (CHOOSE n \in needs : \A m \in needs : m <= n) = widest
  BY <1>2, <1>3
<1>5. QED
  BY <1>4 DEF RequiredWidth, needs, widest

LEMMA Least ==
    ASSUME NEW S \in SUBSET Nat, S # {}
    PROVE  \E x \in S : \A y \in S : x <= y
<1> DEFINE R == OpToRel(<, Nat)
<1>1. IsWellFoundedOn(R, Nat)
  BY NatLessThanWellFounded
<1>2. \A x, y \in Nat : y < x => <<y, x>> \in R
  BY DEF OpToRel
<1> HIDE DEF R
<1>3. PICK x \in S : \A y \in S : ~ (<<y, x>> \in R)
  BY <1>1, WFMin
<1>4. \A y \in S : ~(y < x)
  BY <1>2, <1>3
<1>5. QED
  BY <1>4

\* Some buckets have a smallest.
LEMMA SmallestBucket ==
    ASSUME NEW S \in SUBSET Buckets, S # {}
    PROVE  Smallest(S) \in S /\ \A y \in S : Smallest(S) <= y
<1>1. S \subseteq Nat
  BY DEF Buckets
<1>2. \E x \in S : \A y \in S : x <= y
  BY <1>1, Least
<1>3. QED
  BY <1>2 DEF Smallest

LEMMA BucketWidthFits ==
    ASSUME NEW required \in Nat, NEW minimum \in Nat, minimum <= required
    PROVE  /\ BucketWidth(required, minimum) \in Nat
           /\ BucketWidth(required, minimum) >= required
           /\ required <= 1280 => BucketWidth(required, minimum) \in Buckets
<1> DEFINE fitting == {b \in Buckets : b >= minimum /\ b >= required}
<1>1. Buckets \subseteq Nat
  BY DEF Buckets
<1>2. CASE fitting # {}
  <2>1. Smallest(fitting) \in fitting
    BY <1>2, SmallestBucket
  <2>2. BucketWidth(required, minimum) = Smallest(fitting)
    BY <1>2 DEF BucketWidth
  <2> HIDE DEF fitting
  <2>3. Smallest(fitting) \in Buckets /\ Smallest(fitting) >= required
    BY <2>1 DEF fitting
  <2>4. BucketWidth(required, minimum) \in Buckets
    BY <2>2, <2>3, Zenon
  <2>5. BucketWidth(required, minimum) \in Nat
    BY <1>1, <2>4, Zenon
  <2>6. QED
    BY <2>2, <2>3, <2>4, <2>5, ZenonT(60)
<1>3. CASE fitting = {}
  <2>1. BucketWidth(required, minimum) = required
    BY <1>3 DEF BucketWidth, AtLeast
  <2>2. required > 1280
    BY <1>3 DEF Buckets
  <2>3. QED
    BY <2>1, <2>2
<1>4. QED
  BY <1>2, <1>3

LEMMA ProfileWidthFits ==
    ASSUME NEW required \in Nat, NEW minimum \in Nat, NEW maximum \in Int, minimum <= maximum
    PROVE  /\ ProfileWidth(required, minimum, maximum) \in minimum .. maximum
           /\ ProfileWidth(required, minimum, maximum) < required =>
                  ProfileWidth(required, minimum, maximum) = maximum
<1> DEFINE fitting == {b \in Buckets : b >= minimum /\ b >= required /\ b <= maximum}
<1>1. Buckets \subseteq Nat
  BY DEF Buckets
<1>2. CASE fitting # {}
  <2>1. PICK b \in fitting : b = Smallest(fitting)
    BY <1>2, SmallestBucket
  <2>2. ProfileWidth(required, minimum, maximum) = b
    BY <1>2, <2>1 DEF ProfileWidth
  <2>3. b \in Nat /\ b >= minimum /\ b >= required /\ b <= maximum
    BY <1>1, <2>1
  <2>4. QED
    BY <2>2, <2>3
<1>3. CASE fitting = {}
  BY <1>3 DEF ProfileWidth
<1>4. QED
  BY <1>2, <1>3

LEMMA ScaledWidthFits ==
    ASSUME NEW w \in Nat, NEW target \in Nat \ {0}
    PROVE  ScaledWidth([width |-> w, height |-> RecHeight], RecHeight, target) \in 1 .. target
<1>1. Ceil(RecHeight * w, RecHeight) = w
  BY OwnWidth DEF RecHeight
<1>2. QED
  BY <1>1 DEF ScaledWidth, AtMost, AtLeast

------------------------------------------------------------------------------
(* Reading order.                                                          *)

Box == [x : Int, y : Int]

\* Where rows are apart, not being before is transitive.
LEMMA NotBeforeTransitive ==
    ASSUME NEW a \in Box, NEW b \in Box, NEW c \in Box, ~Before(b, a), ~Before(c, b),
           SameRow(a, b) /\ SameRow(b, c) => SameRow(a, c),
           SameRow(b, a) /\ SameRow(a, c) => SameRow(b, c),
           SameRow(a, c) /\ SameRow(c, b) => SameRow(a, b)
    PROVE  ~Before(c, a)
BY DEF Box, Before, SameRow, Abs, RowBand

\* Two boxes of which the second is not before the first are in reading order.
LEMMA NotBeforeIsRead ==
    ASSUME NEW a \in Box, NEW b \in Box, ~Before(b, a)
    PROVE  IF SameRow(a, b) THEN a.x <= b.x ELSE a.y < b.y
BY DEF Box, Before, SameRow, Abs, RowBand

\* However many boxes a page has, and in whatever order std::stable_sort leaves those its
\* comparator cannot place: rows that are apart are read one after the other, each from
\* left to right, and without that the next box is never a row higher.
THEOREM PagesReadInOrder ==
    \A boxes \in Seq(Box) : \A page \in SortReadingOrder(boxes) : ReadInOrder(boxes, page)
<1> SUFFICES ASSUME NEW boxes \in Seq(Box), NEW page \in SortReadingOrder(boxes)
             PROVE  ReadInOrder(boxes, page)
  OBVIOUS
<1> DEFINE n == Len(boxes)
           Sorted(i, j) == ~Before(page[j], page[i])
<1>1. n \in Nat /\ DOMAIN boxes = 1 .. n /\ \A i \in 1 .. n : boxes[i] \in Box
  OBVIOUS
<1>2. PICK q \in [DOMAIN boxes -> DOMAIN boxes] : page = [i \in DOMAIN boxes |-> boxes[q[i]]]
  BY DEF SortReadingOrder, Permuted
<1>3. /\ DOMAIN page = 1 .. n /\ page \in Seq(Box) /\ Len(page) = n
      /\ \A i \in 1 .. n : page[i] \in Box /\ q[i] \in 1 .. n /\ page[i] = boxes[q[i]]
  <2>1. \A i \in 1 .. n : q[i] \in 1 .. n /\ boxes[q[i]] \in Box
    BY <1>1, <1>2
  <2>2. page = [i \in 1 .. n |-> boxes[q[i]]]
    BY <1>1, <1>2
  <2>3. page \in [1 .. n -> Box]
    BY <2>1, <2>2
  <2>4. QED
    BY <1>1, <2>1, <2>2, <2>3
<1>4. \A i \in 1 .. n - 1 : Sorted(i, i + 1)
  BY <1>3 DEF SortReadingOrder
<1>5. ASSUME RowsApart(boxes), NEW i \in 1 .. n, NEW j \in 1 .. n, i < j
      PROVE  Sorted(i, j)
  <2> DEFINE Apart_(d) == \E k \in 1 .. n : k + d \in 1 .. n /\ ~Sorted(k, k + d)
             far == {d \in Nat : d >= 1 /\ Apart_(d)}
  <2>1. far = {}
    <3> SUFFICES ASSUME far # {} PROVE FALSE
      OBVIOUS
    <3>1. PICK d \in far : \A e \in far : d <= e
      BY Least
    <3>2. PICK k \in 1 .. n : k + d \in 1 .. n /\ ~Sorted(k, k + d)
      OBVIOUS
    <3>3. d \in Nat /\ d >= 1 /\ k \in Nat /\ k + d <= n
      BY <1>1, <3>2
    <3>4. d # 1
      BY <1>1, <1>4, <3>2, <3>3
    <3>5. d - 1 \in Nat /\ d - 1 >= 1 /\ d - 1 \notin far
      <4>1. d - 1 \in Nat /\ d - 1 >= 1 /\ ~(d <= d - 1)
        BY <3>3, <3>4
      <4> HIDE DEF far
      <4>2. QED
        BY <3>1, <4>1
    <3>6. k + (d - 1) \in 1 .. n /\ k + (d - 1) \in 1 .. n - 1 /\ (k + (d - 1)) + 1 = k + d
      BY <1>1, <3>3, <3>4
    <3>7. Sorted(k, k + (d - 1))
      BY <3>2, <3>5, <3>6
    <3>8. Sorted(k + (d - 1), k + d)
      BY <1>4, <3>6
    <3> DEFINE m == k + (d - 1)
               l == k + d
    <3>9. m \in 1 .. n /\ l \in 1 .. n /\ Sorted(k, m) /\ Sorted(m, l)
      BY <3>2, <3>6, <3>7, <3>8
    <3> HIDE DEF m, l
    <3>10. \A u, v, w \in 1 .. n : SameRow(page[u], page[v]) /\ SameRow(page[v], page[w]) => SameRow(page[u], page[w])
      <4> SUFFICES ASSUME NEW u \in 1 .. n, NEW v \in 1 .. n, NEW w \in 1 .. n
                   PROVE  SameRow(page[u], page[v]) /\ SameRow(page[v], page[w]) => SameRow(page[u], page[w])
        OBVIOUS
      <4>1. q[u] \in DOMAIN boxes /\ q[v] \in DOMAIN boxes /\ q[w] \in DOMAIN boxes
        BY <1>1, <1>3
      <4>2. page[u] = boxes[q[u]] /\ page[v] = boxes[q[v]] /\ page[w] = boxes[q[w]]
        BY <1>3
      <4>3. QED
        BY <1>5, <4>1, <4>2, Zenon DEF RowsApart
    <3>11. Sorted(k, l)
      BY <1>3, <3>2, <3>9, <3>10, NotBeforeTransitive
    <3>12. QED
      BY <3>2, <3>11 DEF l
  <2>2. j - i \in Nat /\ j - i >= 1 /\ i + (j - i) = j
    BY <1>1, <1>5
  <2>3. QED
    BY <2>1, <2>2
<1>6. ASSUME NEW i \in 1 .. n, NEW j \in 1 .. n, i < j, j = i + 1 \/ RowsApart(boxes)
      PROVE  Sorted(i, j)
  <2>1. CASE j = i + 1
    BY <1>1, <1>4, <1>6, <2>1
  <2>2. CASE RowsApart(boxes)
    BY <1>5, <1>6, <2>2
  <2>3. QED
    BY <1>6, <2>1, <2>2
<1>7. QED
  BY <1>3, <1>6, NotBeforeIsRead DEF ReadInOrder

------------------------------------------------------------------------------
(* Corners.                                                                *)

\* A box with the corners P[1] to P[4] in clockwise order, named so that the side from
\* the first to the second does not go left or up, at whatever angle it lies.
Tilted(P, a, b, d, e) ==
    /\ a \in Nat /\ b \in Nat /\ d \in Nat /\ e \in Nat
    /\ a > 0 \/ b > 0
    /\ a > 0 <=> e > 0
    /\ b > 0 <=> d > 0
    /\ \A i \in 1 .. 4 : P[i] \in Box
    /\ P[2].x = P[1].x + a     /\ P[2].y = P[1].y + b
    /\ P[3].x = P[1].x + a - d /\ P[3].y = P[1].y + b + e
    /\ P[4].x = P[1].x - d     /\ P[4].y = P[1].y + e

\* The points of P in the order of r.
Arranged(P, r) == [i \in 1 .. 4 |-> P[r[i]]]

\* The orders in which the corners come out.
FirstLeft(P) == <<P[1], P[2], P[3], P[4]>>
LastLeft(P) == <<P[4], P[1], P[2], P[3]>>

LEMMA LeftPair ==
    ASSUME NEW P, NEW a, NEW b, NEW d, NEW e, Tilted(P, a, b, d, e), NEW r \in Orders4,
           \A i \in 1 .. 3 : P[r[i]].x <= P[r[i + 1]].x
    PROVE  <<Upper(P[r[1]], P[r[2]]), Upper(P[r[3]], P[r[4]]), Lower(P[r[3]], P[r[4]]), Lower(P[r[1]], P[r[2]])>>
               \in {FirstLeft(P), LastLeft(P)}
<1> DEFINE l1 == P[r[1]]
           l2 == P[r[2]]
           r1 == P[r[3]]
           r2 == P[r[4]]
<1>1. /\ r[1] \in 1 .. 4 /\ r[2] \in 1 .. 4 /\ r[3] \in 1 .. 4 /\ r[4] \in 1 .. 4
      /\ r[1] # r[2] /\ r[1] # r[3] /\ r[1] # r[4] /\ r[2] # r[3] /\ r[2] # r[4] /\ r[3] # r[4]
  BY DEF Orders4
<1>2. l1.x <= l2.x /\ l2.x <= r1.x /\ r1.x <= r2.x
  OBVIOUS
<1>3. \A i \in 1 .. 4 : P[i].x \in Int /\ P[i].y \in Int
  BY DEF Tilted, Box
<1>4. \/ {r[1], r[2]} = {1, 4} /\ {r[3], r[4]} = {2, 3} /\ a > 0
      \/ {r[1], r[2]} = {3, 4} /\ {r[3], r[4]} = {1, 2} /\ b > 0
  BY <1>1, <1>2, <1>3 DEF Tilted
<1>5. CASE {r[1], r[2]} = {1, 4} /\ {r[3], r[4]} = {2, 3} /\ a > 0
  <2>1. Upper(l1, l2) = P[1] /\ Lower(l1, l2) = P[4]
    <3>1. P[1].y <= P[4].y /\ (P[1].y = P[4].y => e = 0)
      BY <1>3 DEF Tilted
    <3>2. a > 0 <=> e > 0
      BY DEF Tilted
    <3>3. P[1].y < P[4].y /\ ~(P[4].y < P[1].y)
      BY <1>3, <1>5, <3>1, <3>2
    <3>4. (r[1] = 1 /\ r[2] = 4) \/ (r[1] = 4 /\ r[2] = 1)
      BY <1>1, <1>5
    <3>5. QED
      BY <3>3, <3>4 DEF Upper, Lower
  <2>2. Upper(r1, r2) = P[2] /\ Lower(r1, r2) = P[3]
    BY <1>1, <1>3, <1>5 DEF Tilted, Upper, Lower
  <2>3. QED
    BY <2>1, <2>2 DEF FirstLeft
<1>6. CASE {r[1], r[2]} = {3, 4} /\ {r[3], r[4]} = {1, 2} /\ b > 0
  <2>1. Upper(l1, l2) = P[4] /\ Lower(l1, l2) = P[3]
    <3>1. P[4].y < P[3].y
      BY <1>3, <1>6 DEF Tilted
    <3>2. (r[1] = 3 /\ r[2] = 4) \/ (r[1] = 4 /\ r[2] = 3)
      BY <1>1, <1>6
    <3>3. ~(P[3].y < P[4].y)
      BY <1>3, <3>1
    <3>4. QED
      BY <3>1, <3>2, <3>3 DEF Upper, Lower
  <2>2. Upper(r1, r2) = P[1] /\ Lower(r1, r2) = P[2]
    BY <1>1, <1>3, <1>6 DEF Tilted, Upper, Lower
  <2>3. QED
    BY <2>1, <2>2 DEF LastLeft
<1>7. QED
  BY <1>4, <1>5, <1>6

\* One order of an order.
LEMMA OrdersCompose ==
    ASSUME NEW r \in Orders4, NEW q \in Orders4
    PROVE  [i \in 1 .. 4 |-> r[q[i]]] \in Orders4
BY DEF Orders4

LEMMA CornersInOrder ==
    ASSUME NEW P, NEW a, NEW b, NEW d, NEW e, Tilted(P, a, b, d, e), NEW r \in Orders4,
           NEW box \in OrderClockwise(Arranged(P, r))
    PROVE  box \in {FirstLeft(P), LastLeft(P)}
<1> DEFINE points == Arranged(P, r)
<1>1. PICK s \in SortedByX(points) :
          box = <<Upper(s[1], s[2]), Upper(s[3], s[4]), Lower(s[3], s[4]), Lower(s[1], s[2])>>
  BY DEF OrderClockwise
<1>2. PICK q \in Orders4 : /\ s = [i \in 1 .. 4 |-> points[q[i]]]
                          /\ \A i \in 1 .. 3 : points[q[i]].x <= points[q[i + 1]].x
  BY DEF SortedByX
<1> DEFINE m == [i \in 1 .. 4 |-> r[q[i]]]
<1>3. m \in Orders4
  BY OrdersCompose
<1>4. \A i \in 1 .. 4 : q[i] \in 1 .. 4 /\ points[q[i]] = P[m[i]] /\ s[i] = P[m[i]]
  BY <1>2 DEF Orders4, Arranged
<1> HIDE DEF m, points
<1>5. \A i \in 1 .. 3 : i \in 1 .. 4 /\ i + 1 \in 1 .. 4
  OBVIOUS
<1>6. \A i \in 1 .. 3 : P[m[i]].x <= P[m[i + 1]].x
  BY <1>2, <1>4, <1>5
<1>7. s[1] = P[m[1]] /\ s[2] = P[m[2]] /\ s[3] = P[m[3]] /\ s[4] = P[m[4]]
  BY <1>4
<1>8. QED
  BY <1>1, <1>3, <1>6, <1>7, LeftPair

\* A clockwise order is an arrangement of the corners.
LEMMA OrderIsArranged ==
    ASSUME NEW P
    PROVE  \E r, q \in Orders4 : /\ FirstLeft(P) = Arranged(P, r) /\ LastLeft(P) = Arranged(P, q)
<1> DEFINE r == [i \in 1 .. 4 |-> i]
           q == [i \in 1 .. 4 |-> IF i = 1 THEN 4 ELSE i - 1]
<1>1. r \in Orders4 /\ q \in Orders4
  BY DEF Orders4
<1>2. FirstLeft(P) = Arranged(P, r)
  BY DEF FirstLeft, Arranged
<1>3. LastLeft(P) = Arranged(P, q)
  BY DEF LastLeft, Arranged
<1>4. QED
  BY <1>1, <1>2, <1>3

LEMMA ClampInside ==
    ASSUME NEW v \in Int, NEW n \in Int, v \in 0 .. n - 1
    PROVE  Clamp(v, 0, n - 1) = v
BY DEF Clamp, AtLeast, AtMost

LEMMA Unmoved ==
    ASSUME NEW P, NEW r \in Orders4, NEW image \in [width : Nat, height : Nat],
           \A i \in 1 .. 4 : P[i] \in Box /\ P[i].x \in 0 .. image.width - 1 /\ P[i].y \in 0 .. image.height - 1
    PROVE  InsideImage(Arranged(P, r), image) = Arranged(P, r)
<1> DEFINE b == Arranged(P, r)
<1>1. \A i \in 1 .. 4 : b[i] = P[r[i]] /\ r[i] \in 1 .. 4
  BY DEF Orders4, Arranged
<1>2. \A i \in 1 .. 4 : b[i] \in Box /\ b[i].x \in 0 .. image.width - 1 /\ b[i].y \in 0 .. image.height - 1
  BY <1>1
<1>3. b = [i \in 1 .. 4 |-> b[i]]
  BY DEF Arranged
<1> HIDE DEF b
<1>4. ASSUME NEW i \in 1 .. 4
      PROVE  [x |-> Clamp(b[i].x, 0, image.width - 1), y |-> Clamp(b[i].y, 0, image.height - 1)] = b[i]
  <2>1. b[i].x \in Int /\ b[i].y \in Int /\ b[i] = [x |-> b[i].x, y |-> b[i].y]
    BY <1>2 DEF Box
  <2>2. Clamp(b[i].x, 0, image.width - 1) = b[i].x
    BY <1>2, <2>1, ClampInside
  <2>3. Clamp(b[i].y, 0, image.height - 1) = b[i].y
    BY <1>2, <2>1, ClampInside
  <2>4. QED
    BY <2>1, <2>2, <2>3
<1>5. InsideImage(b, image) = b
  BY <1>3, <1>4 DEF InsideImage
<1>6. QED
  BY <1>5 DEF b

\* The sides turn to the right at each corner.
LEMMA TurnsRight ==
    ASSUME NEW P, NEW a, NEW b, NEW d, NEW e, Tilted(P, a, b, d, e)
    PROVE  /\ Cross(P[1], P[2], P[3]) > 0 /\ Cross(P[2], P[3], P[4]) > 0
           /\ Cross(P[3], P[4], P[1]) > 0 /\ Cross(P[4], P[1], P[2]) > 0
<1> DEFINE x == P[1].x
           y == P[1].y
<1>1. a \in Nat /\ b \in Nat /\ d \in Nat /\ e \in Nat /\ x \in Int /\ y \in Int
  BY DEF Tilted, Box
<1>2. /\ P[2].x = x + a /\ P[2].y = y + b /\ P[3].x = x + a - d /\ P[3].y = y + b + e
      /\ P[4].x = x - d /\ P[4].y = y + e
  BY DEF Tilted
<1>3. a * e + b * d > 0
  <2>1. CASE a > 0
    <3>1. e > 0
      BY <2>1 DEF Tilted
    <3>2. a * e > 0 /\ b * d >= 0
      BY <1>1, <2>1, <3>1
    <3>3. QED
      BY <1>1, <3>2
  <2>2. CASE b > 0
    <3>1. d > 0
      BY <2>2 DEF Tilted
    <3>2. b * d > 0 /\ a * e >= 0
      BY <1>1, <2>2, <3>1
    <3>3. QED
      BY <1>1, <3>2
  <2>3. QED
    BY <2>1, <2>2 DEF Tilted
<1> HIDE DEF x, y
<1>4. Cross(P[1], P[2], P[3]) = a * e + b * d
  <2>1. Cross(P[1], P[2], P[3]) = a * (b + e) - b * (a - d)
    <3>1. P[2].x - x = a /\ P[3].y - y = b + e /\ P[2].y - y = b /\ P[3].x - x = a - d
      BY <1>1, <1>2
    <3>2. QED
      BY <3>1 DEF Cross, x, y
  <2>2. QED
    BY <1>1, <2>1
<1>5. Cross(P[2], P[3], P[4]) = a * e + b * d
  <2>1. Cross(P[2], P[3], P[4]) = (-d) * (e - b) - e * (-d - a)
    <3>1. P[3].x - P[2].x = -d /\ P[4].y - P[2].y = e - b /\ P[3].y - P[2].y = e /\ P[4].x - P[2].x = -d - a
      BY <1>1, <1>2
    <3>2. QED
      BY <3>1 DEF Cross
  <2>2. QED
    BY <1>1, <2>1
<1>6. Cross(P[3], P[4], P[1]) = a * e + b * d
  <2>1. Cross(P[3], P[4], P[1]) = (-a) * (-b - e) - (-b) * (d - a)
    <3>1. P[4].x - P[3].x = -a /\ y - P[3].y = -b - e /\ P[4].y - P[3].y = -b /\ x - P[3].x = d - a
      BY <1>1, <1>2
    <3>2. QED
      BY <3>1 DEF Cross, x, y
  <2>2. QED
    BY <1>1, <2>1
<1>7. Cross(P[4], P[1], P[2]) = a * e + b * d
  <2>1. Cross(P[4], P[1], P[2]) = d * (b - e) - (-e) * (a + d)
    <3>1. x - P[4].x = d /\ P[2].y - P[4].y = b - e /\ y - P[4].y = -e /\ P[2].x - P[4].x = a + d
      BY <1>1, <1>2
    <3>2. QED
      BY <3>1 DEF Cross, x, y
  <2>2. QED
    BY <1>1, <2>1
<1>8. QED
  BY <1>3, <1>4, <1>5, <1>6, <1>7

\* What DbPostprocessor makes of a box inside an image of any size is that box, its
\* corners clockwise from one of the two on the left, whatever std::sort does with
\* corners above one another: crops are not mirrored and not twisted.
THEOREM BoxesStayClockwise ==
    ASSUME NEW P, NEW a, NEW b, NEW d, NEW e, Tilted(P, a, b, d, e), P = FirstLeft(P),
           NEW image \in [width : Nat, height : Nat],
           \A i \in 1 .. 4 : P[i].x \in 0 .. image.width - 1 /\ P[i].y \in 0 .. image.height - 1,
           NEW box \in BoxesOf(P, image)
    PROVE  /\ {box[i] : i \in 1 .. 4} = {P[i] : i \in 1 .. 4}
           /\ \A i \in 1 .. 4 : Cross(box[i], box[(i % 4) + 1], box[((i + 1) % 4) + 1]) > 0
<1>1. PICK r \in Orders4, q \in Orders4 : FirstLeft(P) = Arranged(P, r) /\ LastLeft(P) = Arranged(P, q)
  BY OrderIsArranged
<1>2. PICK first \in OrderClockwise(P) : box \in OrderClockwise(InsideImage(first, image))
  BY DEF BoxesOf
<1>3. first \in {FirstLeft(P), LastLeft(P)}
  <2>1. first \in OrderClockwise(Arranged(P, r))
    BY <1>1
  <2>2. QED
    BY <2>1, CornersInOrder
<1>4. \A o \in Orders4 : InsideImage(Arranged(P, o), image) = Arranged(P, o)
  BY Unmoved DEF Tilted
<1>5. InsideImage(first, image) = first
  BY <1>1, <1>3, <1>4
<1>6. box \in {FirstLeft(P), LastLeft(P)}
  <2>1. \E o \in Orders4 : first = Arranged(P, o)
    BY <1>1, <1>3
  <2>2. PICK o \in Orders4 : first = Arranged(P, o)
    BY <2>1
  <2>3. box \in OrderClockwise(Arranged(P, o))
    BY <1>2, <1>5, <2>2
  <2>4. QED
    BY <2>3, CornersInOrder
<1>7. CASE box = FirstLeft(P)
  <2>1. box[1] = P[1] /\ box[2] = P[2] /\ box[3] = P[3] /\ box[4] = P[4]
    BY <1>7 DEF FirstLeft
  <2>2. \A i \in 1 .. 4 : Cross(box[i], box[(i % 4) + 1], box[((i + 1) % 4) + 1]) > 0
    <3> SUFFICES ASSUME NEW i \in 1 .. 4 PROVE Cross(box[i], box[(i % 4) + 1], box[((i + 1) % 4) + 1]) > 0
      OBVIOUS
    <3>1. i = 1 \/ i = 2 \/ i = 3 \/ i = 4
      OBVIOUS
    <3>2. QED
      BY <2>1, <3>1, TurnsRight
  <2>3. QED
    BY <2>1, <2>2
<1>8. CASE box = LastLeft(P)
  <2>1. box[1] = P[4] /\ box[2] = P[1] /\ box[3] = P[2] /\ box[4] = P[3]
    BY <1>8 DEF LastLeft
  <2>2. \A i \in 1 .. 4 : Cross(box[i], box[(i % 4) + 1], box[((i + 1) % 4) + 1]) > 0
    <3> SUFFICES ASSUME NEW i \in 1 .. 4 PROVE Cross(box[i], box[(i % 4) + 1], box[((i + 1) % 4) + 1]) > 0
      OBVIOUS
    <3>1. i = 1 \/ i = 2 \/ i = 3 \/ i = 4
      OBVIOUS
    <3>2. QED
      BY <2>1, <3>1, TurnsRight
  <2>3. QED
    BY <2>1, <2>2
<1>9. QED
  BY <1>6, <1>7, <1>8

------------------------------------------------------------------------------
(* Text.                                                                   *)

\* What is in a sequence.
LEMMA ElementsOf ==
    ASSUME NEW S, NEW s \in Seq(S)
    PROVE  Len(s) \in Nat /\ DOMAIN s = 1 .. Len(s) /\ \A i \in 1 .. Len(s) : s[i] \in S
OBVIOUS

\* The text after 0, 1, 2 ... steps of the loop of Kept.
Gathers(f, row, steps) ==
    f = [step \in 0 .. Len(row) |->
            IF step = 0 THEN <<>>
            ELSE IF step \in steps THEN Append(f[step - 1], row[step])
            ELSE f[step - 1]]

\* There are such texts, the last of which is kept.
LEMMA KeptIs ==
    ASSUME NEW row, Len(row) \in Nat, NEW steps
    PROVE  \E f : Gathers(f, row, steps) /\ Kept(row, steps) = f[Len(row)]
<1> DEFINE TextAfter(f, step) == IF step = 0 THEN <<>>
                                 ELSE IF step \in steps THEN Append(f[step - 1], row[step])
                                 ELSE f[step - 1]
           After(f, m) == f = [step \in 0 .. m |-> TextAfter(f, step)]
           missing == {m \in Nat : ~\E f : After(f, m)}
<1>1. missing = {}
  <2> SUFFICES ASSUME missing # {} PROVE FALSE
    OBVIOUS
  <2>1. PICK m \in missing : \A k \in missing : m <= k
    BY Least
  <2>2. m # 0
    <3>1. After([step \in 0 .. 0 |-> <<>>], 0)
      OBVIOUS
    <3>2. QED
      BY <3>1
  <2>3. m - 1 \in Nat /\ ~(m <= m - 1)
    BY <2>2
  <2>4. m - 1 \notin missing
    <3> HIDE DEF missing
    <3>1. QED
      BY <2>1, <2>3
  <2>5. PICK f : After(f, m - 1)
    BY <2>3, <2>4
  <2> DEFINE last == IF m \in steps THEN Append(f[m - 1], row[m]) ELSE f[m - 1]
             g == [step \in 0 .. m |-> IF step = m THEN last ELSE f[step]]
             h == [step \in 0 .. m |-> TextAfter(g, step)]
  <2>6. ASSUME NEW step \in 0 .. m PROVE g[step] = TextAfter(g, step)
    <3>1. CASE step = m
      <4>1. g[step - 1] = f[m - 1] /\ g[step] = last
        BY <2>2, <2>3, <3>1
      <4>2. QED
        BY <2>2, <3>1, <4>1
    <3>2. CASE step # m
      <4>1. step \in 0 .. m - 1 /\ g[step] = f[step]
        BY <3>2
      <4>2. f[step] = TextAfter(f, step)
        BY <2>5, <4>1
      <4>3. step # 0 => g[step - 1] = f[step - 1]
        BY <4>1
      <4>4. QED
        BY <4>1, <4>2, <4>3
    <3>3. QED
      BY <3>1, <3>2
  <2>7. g = h
    <3>1. \A step \in 0 .. m : g[step] = h[step]
      BY <2>6
    <3>2. /\ DOMAIN g = 0 .. m /\ DOMAIN h = 0 .. m
          /\ g = [step \in 0 .. m |-> g[step]] /\ h = [step \in 0 .. m |-> h[step]]
      OBVIOUS
    <3> HIDE DEF g, h
    <3>3. QED
      BY <3>1, <3>2
  <2>8. After(g, m)
    BY <2>7
  <2>9. QED
    BY <2>8
<1>2. \E f : Gathers(f, row, steps)
  BY <1>1 DEF Gathers
<1> DEFINE f == CHOOSE f : f = [step \in 0 .. Len(row) |->
                                   IF step = 0 THEN <<>>
                                   ELSE IF step \in steps THEN Append(f[step - 1], row[step])
                                   ELSE f[step - 1]]
<1>3. Gathers(f, row, steps)
  BY <1>2 DEF Gathers
<1>4. QED
  BY <1>3, Zenon DEF Kept

\* One label more in a row, and in what is selected from it when it has an entry.
LEMMA SelectionGrows ==
    ASSUME NEW s \in Seq(Nat), NEW t \in Seq(Nat), NEW x \in Nat, NEW labels \in Nat,
           IsSelection(t, s, Labelled(s, labels))
    PROVE  IF x \in 1 .. labels - 1
           THEN IsSelection(Append(t, x), Append(s, x), Labelled(Append(s, x), labels))
           ELSE IsSelection(t, Append(s, x), Labelled(Append(s, x), labels))
<1> DEFINE n == Len(s)
           P == Labelled(s, labels)
           Q == Labelled(Append(s, x), labels)
           UpTo(S, i) == {j \in S : j <= i}
<1>1. n \in Nat /\ DOMAIN s = 1 .. n /\ Len(t) \in Nat
  BY ElementsOf
<1>2. P \subseteq 1 .. n /\ \A i \in P : i \in 1 .. n
  BY <1>1 DEF Labelled
<1>3. /\ \A i \in 1 .. n : Append(s, x)[i] = s[i]
      /\ Append(s, x)[n + 1] = x /\ DOMAIN Append(s, x) = 1 .. n + 1
  BY <1>1
<1>4. Q = IF x \in 1 .. labels - 1 THEN P \cup {n + 1} ELSE P
  <2>1. ASSUME NEW i PROVE i \in Q <=> (i \in 1 .. n /\ s[i] \in 1 .. labels - 1) \/ (i = n + 1 /\ x \in 1 .. labels - 1)
    BY <1>1, <1>3 DEF Labelled
  <2>2. ASSUME NEW i PROVE i \in P <=> i \in 1 .. n /\ s[i] \in 1 .. labels - 1
    BY <1>1 DEF Labelled
  <2> HIDE DEF P, Q
  <2>3. QED
    BY <2>1, <2>2
<1>5. /\ Len(t) = Cardinality(P)
      /\ \A i \in P : t[Cardinality(UpTo(P, i))] = s[i]
  BY DEF IsSelection
<1>6. IsFiniteSet(P)
  <2>1. IsFiniteSet(1 .. n)
    BY <1>1, FS_Interval
  <2>2. QED
    BY <1>2, <2>1, FS_Subset
<1>7. CASE x \in 1 .. labels - 1
  <2>1. Q = P \cup {n + 1} /\ n + 1 \notin P
    BY <1>1, <1>2, <1>4, <1>7
  <2> HIDE DEF P, Q
  <2>2. Cardinality(Q) = Len(t) + 1
    BY <1>5, <1>6, <2>1, FS_AddElement
  <2>3. ASSUME NEW i \in P
        PROVE  UpTo(Q, i) = UpTo(P, i) /\ Cardinality(UpTo(P, i)) \in 1 .. Len(t)
    <3>1. UpTo(Q, i) = UpTo(P, i)
      <4>1. ~(n + 1 <= i)
        BY <1>1, <1>2
      <4>2. QED
        BY <2>1, <4>1
    <3>2. IsFiniteSet(UpTo(P, i)) /\ Cardinality(UpTo(P, i)) \in Nat /\ Cardinality(UpTo(P, i)) <= Cardinality(P)
      BY <1>6, FS_Subset, FS_CardinalityType
    <3>3. UpTo(P, i) # {}
      <4>1. i \in UpTo(P, i)
        BY <1>1, <1>2
      <4>2. QED
        BY <4>1
    <3>4. Cardinality(UpTo(P, i)) # 0
      BY <3>2, <3>3, FS_EmptySet
    <3>5. QED
      BY <1>5, <3>1, <3>2, <3>4
  <2>4. UpTo(Q, n + 1) = Q
    <3>1. \A i \in P : i <= n + 1
      BY <1>1, <1>2
    <3>2. QED
      BY <1>1, <2>1, <3>1
  <2>5. Len(Append(t, x)) = Len(t) + 1 /\ Append(t, x)[Len(t) + 1] = x
        /\ \A k \in 1 .. Len(t) : Append(t, x)[k] = t[k]
    BY <1>1
  <2>6. ASSUME NEW i \in Q PROVE Append(t, x)[Cardinality(UpTo(Q, i))] = Append(s, x)[i]
    <3>1. CASE i = n + 1
      BY <1>3, <2>2, <2>4, <2>5, <3>1
    <3>2. CASE i \in P
      <4>1. Append(s, x)[i] = s[i] /\ t[Cardinality(UpTo(P, i))] = s[i]
        BY <1>2, <1>3, <1>5, <3>2
      <4>2. UpTo(Q, i) = UpTo(P, i) /\ Append(t, x)[Cardinality(UpTo(P, i))] = t[Cardinality(UpTo(P, i))]
        BY <2>3, <2>5, <3>2
      <4>3. QED
        BY <4>1, <4>2, Zenon
    <3>3. QED
      BY <2>1, <3>1, <3>2
  <2>7. IsSelection(Append(t, x), Append(s, x), Q)
    BY <2>2, <2>5, <2>6 DEF IsSelection
  <2>8. QED
    BY <1>7, <2>7 DEF Q
<1>8. CASE x \notin 1 .. labels - 1
  <2>1. Q = P
    BY <1>4, <1>8
  <2>2. \A i \in P : Append(s, x)[i] = s[i]
    BY <1>2, <1>3
  <2> HIDE DEF P, Q
  <2>3. IsSelection(t, Append(s, x), Q)
    BY <1>5, <2>1, <2>2 DEF IsSelection
  <2>4. QED
    BY <1>8, <2>3 DEF Q
<1>9. QED
  BY <1>7, <1>8

\* The text is read off the collapsed row, for rows of any length and any dictionary: runs
\* of one label are collapsed, then blanks go and labels without an entry.
THEOREM TextsAreCollapsed ==
    ASSUME NEW row \in Seq(Nat), NEW labels \in Nat
    PROVE  IsSelection(CtcDecode(row, labels), Collapse(row), Labelled(Collapse(row), labels))
<1> DEFINE heads == {step \in DOMAIN row : step = 1 \/ row[step] # row[step - 1]}
           kept == {step \in DOMAIN row : row[step] \in 1 .. labels - 1 /\ (step = 1 \/ row[step] # row[step - 1])}
           L == Len(row)
<1>1. L \in Nat /\ DOMAIN row = 1 .. L /\ \A i \in 1 .. L : row[i] \in Nat
  BY ElementsOf
<1>2. \A i \in 1 .. L : i \in kept <=> i \in heads /\ row[i] \in 1 .. labels - 1
  BY <1>1
<1> HIDE DEF heads, kept
<1>3. PICK f : Gathers(f, row, kept) /\ Kept(row, kept) = f[L]
  BY <1>1, KeptIs
<1>4. PICK g : Gathers(g, row, heads) /\ Kept(row, heads) = g[L]
  BY <1>1, KeptIs
<1>5. CtcDecode(row, labels) = f[L] /\ Collapse(row) = g[L]
  <2>1. CtcDecode(row, labels) = Kept(row, kept) /\ Collapse(row) = Kept(row, heads)
    BY Zenon DEF CtcDecode, Collapse, kept, heads
  <2>2. QED
    BY <1>3, <1>4, <2>1
<1>6. f[0] = <<>> /\ g[0] = <<>>
  BY <1>1, <1>3, <1>4 DEF Gathers
<1>7. ASSUME NEW i \in 1 .. L
      PROVE  /\ f[i] = IF i \in kept THEN Append(f[i - 1], row[i]) ELSE f[i - 1]
             /\ g[i] = IF i \in heads THEN Append(g[i - 1], row[i]) ELSE g[i - 1]
  <2>1. i \in 0 .. L /\ i # 0
    BY <1>1
  <2>2. QED
    BY <1>3, <1>4, <2>1 DEF Gathers
<1> DEFINE Good(i) == f[i] \in Seq(Nat) /\ g[i] \in Seq(Nat) /\ IsSelection(f[i], g[i], Labelled(g[i], labels))
           bad == {i \in 0 .. L : ~Good(i)}
<1>8. Good(0)
  <2>1. <<>> \in Seq(Nat) /\ Labelled(<<>>, labels) = {} /\ Len(<<>>) = 0
    BY DEF Labelled
  <2>2. Cardinality({}) = 0
    BY FS_EmptySet
  <2>3. IsSelection(<<>>, <<>>, {})
    BY <2>1, <2>2 DEF IsSelection
  <2>4. QED
    BY <1>6, <2>1, <2>3
<1>9. ASSUME NEW i \in 1 .. L, Good(i - 1) PROVE Good(i)
  <2> DEFINE s == g[i - 1]
             t == f[i - 1]
             x == row[i]
  <2>1. s \in Seq(Nat) /\ t \in Seq(Nat) /\ x \in Nat /\ IsSelection(t, s, Labelled(s, labels))
    BY <1>1, <1>9
  <2>2. /\ f[i] = IF i \in kept THEN Append(t, x) ELSE t
        /\ g[i] = IF i \in heads THEN Append(s, x) ELSE s
    BY <1>7
  <2> HIDE DEF s, t
  <2>3. Append(s, x) \in Seq(Nat) /\ Append(t, x) \in Seq(Nat)
    BY <2>1
  <2>4. CASE i \notin heads
    <3>1. f[i] = t /\ g[i] = s
      BY <1>2, <2>2, <2>4
    <3>2. QED
      BY <2>1, <3>1
  <2>5. CASE i \in heads /\ x \in 1 .. labels - 1
    <3>1. f[i] = Append(t, x) /\ g[i] = Append(s, x)
      BY <1>2, <2>2, <2>5
    <3>2. IsSelection(Append(t, x), Append(s, x), Labelled(Append(s, x), labels))
      BY <2>1, <2>5, SelectionGrows
    <3>3. QED
      BY <2>3, <3>1, <3>2
  <2>6. CASE i \in heads /\ x \notin 1 .. labels - 1
    <3>1. f[i] = t /\ g[i] = Append(s, x)
      BY <1>2, <2>2, <2>6
    <3>2. IsSelection(t, Append(s, x), Labelled(Append(s, x), labels))
      BY <2>1, <2>6, SelectionGrows
    <3>3. QED
      BY <2>1, <2>3, <3>1, <3>2
  <2>7. QED
    BY <2>4, <2>5, <2>6
<1> HIDE DEF Good
<1>10. bad = {}
  <2> SUFFICES ASSUME bad # {} PROVE FALSE
    OBVIOUS
  <2>1. bad \in SUBSET Nat
    BY <1>1
  <2>2. PICK i \in bad : \A k \in bad : i <= k
    <3> HIDE DEF bad
    <3>1. QED
      BY <2>1, Least
  <2>3. i \in 0 .. L /\ i \in Nat /\ ~Good(i) /\ i # 0
    BY <1>8, <2>1, <2>2
  <2>4. i \in 1 .. L /\ i - 1 \in 0 .. L /\ ~(i <= i - 1)
    BY <1>1, <2>3
  <2>5. Good(i - 1)
    <3>1. i - 1 \notin bad
      <4> HIDE DEF bad
      <4>1. QED
        BY <2>2, <2>4
    <3>2. QED
      BY <2>4, <3>1
  <2>6. QED
    BY <1>9, <2>3, <2>4, <2>5
<1>11. Good(L)
  <2>1. L \in 0 .. L
    BY <1>1
  <2>2. QED
    BY <1>10, <2>1
<1>12. QED
  BY <1>5, <1>11 DEF Good

------------------------------------------------------------------------------
(* The bench.                                                              *)

\* What came out is what the code makes of the input.
BenchInv ==
    /\ job \in Jobs \/ job.op = "engine"
    /\ done => CASE job.op = "box" -> out \in BoxesOf(job.points, Picture)
                 [] job.op = "order" -> out \in SortReadingOrder(job.boxes)
                 [] job.op = "decode" -> out = CtcDecode(job.row, Labels)
                 [] job.op = "base64" -> out = DecodeBase64(job.text, job.maximum)

LEMMA JobsAre ==
    ASSUME NEW j \in Jobs
    PROVE  /\ j.op = "box" => j \in BoxJobs
           /\ j.op = "order" => j \in PageJobs
           /\ j.op = "decode" => j \in RowJobs
           /\ j.op = "base64" => j \in TextJobs \cup BytesJobs
<1>1. CASE j \in BoxJobs
  BY <1>1 DEF BoxJobs
<1>2. CASE j \in PageJobs
  BY <1>2 DEF PageJobs
<1>3. CASE j \in RowJobs
  BY <1>3 DEF RowJobs
<1>4. CASE j \in TextJobs
  BY <1>4 DEF TextJobs
<1>5. CASE j \in BytesJobs
  BY <1>5 DEF BytesJobs
<1>6. QED
  BY <1>1, <1>2, <1>3, <1>4, <1>5 DEF Jobs

LEMMA BenchInvariance == MCSpec => []BenchInv
<1>1. MCInit => BenchInv
  <2>1. MCInit => ~done /\ (job \in Jobs \/ job = [op |-> "engine"])
    BY Zenon DEF MCInit, BenchInit
  <2>2. job = [op |-> "engine"] => job.op = "engine"
    OBVIOUS
  <2>3. QED
    BY <2>1, <2>2 DEF BenchInv
<1>2. BenchInv /\ [MCNext]_<<vars, bench>> => BenchInv'
  <2> SUFFICES ASSUME BenchInv, [MCNext]_<<vars, bench>> PROVE BenchInv'
    OBVIOUS
  <2>1. CASE UNCHANGED bench
    BY <2>1 DEF bench, BenchInv
  <2>2. CASE Bench
    <3>1. job' = job /\ done'
      BY <2>2 DEF Bench
    <3>2. CASE OrderBox
      BY <3>1, <3>2 DEF OrderBox, BenchInv
    <3>3. CASE OrderPage
      BY <3>1, <3>3 DEF OrderPage, BenchInv
    <3>4. CASE DecodeRow
      BY <3>1, <3>4 DEF DecodeRow, BenchInv
    <3>5. CASE DecodeText
      BY <3>1, <3>5 DEF DecodeText, BenchInv
    <3>6. QED
      BY <2>2, <3>2, <3>3, <3>4, <3>5 DEF Bench
  <2>3. QED
    BY <2>1, <2>2 DEF MCNext
<1>3. QED
  BY <1>1, <1>2, PTL DEF MCSpec

\* The same of the pages of the bench, for any bound on the boxes of a page.
THEOREM BenchPagesRead == MCSpec => []ReadingOrder
<1>1. BenchInv => ReadingOrder
  <2> SUFFICES ASSUME BenchInv, done, job.op = "order" PROVE ReadInOrder(job.boxes, out)
    BY DEF ReadingOrder, Done
  <2>1. job \in PageJobs
    BY JobsAre DEF BenchInv
  <2>2. PICK n \in 1 .. MaxBoxes : job.boxes \in [1 .. n -> Tops]
    BY <2>1 DEF PageJobs
  <2>3. Tops \subseteq Box
    BY DEF Tops, Box
  <2>4. n \in Nat
    BY BenchAssumption
  <2>5. job.boxes \in Seq(Box)
    BY <2>2, <2>3, <2>4
  <2>6. out \in SortReadingOrder(job.boxes)
    BY DEF BenchInv
  <2>7. QED
    BY <2>5, <2>6, PagesReadInOrder
<1>2. QED
  BY <1>1, BenchInvariance, PTL

LEMMA RectanglesAreTilted ==
    ASSUME NEW c \in Corners, NEW u \in Vectors, NEW k \in 1 .. 3
    PROVE  LET P == Rectangle(c, u, k) IN
           P = FirstLeft(P) /\ Tilted(P, u.x, u.y, k * u.y, k * u.x)
<1> DEFINE P == Rectangle(c, u, k)
<1>1. c.x \in Int /\ c.y \in Int
  BY DEF Corners
<1>2. u.x \in Nat /\ u.y \in Nat /\ (u.x > 0 \/ u.y > 0)
  BY DEF Vectors
<1>3. /\ k * u.x \in Nat /\ k * u.y \in Nat
      /\ u.x > 0 <=> k * u.x > 0
      /\ u.y > 0 <=> k * u.y > 0
  BY <1>2
<1>4. /\ P[1] = c
      /\ P[2] = [x |-> c.x + u.x, y |-> c.y + u.y]
      /\ P[3] = [x |-> c.x + u.x - k * u.y, y |-> c.y + u.y + k * u.x]
      /\ P[4] = [x |-> c.x - k * u.y, y |-> c.y + k * u.x]
      /\ P = <<P[1], P[2], P[3], P[4]>>
  BY DEF Rectangle
<1> HIDE DEF P
<1>5. \A i \in 1 .. 4 : P[i] \in Box
  <2>1. c \in Box
    BY DEF Corners, Box
  <2>2. P[1] \in Box /\ P[2] \in Box /\ P[3] \in Box /\ P[4] \in Box
    BY <1>1, <1>2, <1>3, <1>4, <2>1 DEF Box
  <2>3. QED
    BY <2>2
<1>6. Tilted(P, u.x, u.y, k * u.y, k * u.x)
  BY <1>2, <1>3, <1>4, <1>5 DEF Tilted
<1>7. QED
  BY <1>4, <1>6 DEF FirstLeft, P

\* The same of the rectangles of the bench.
THEOREM BenchBoxesClockwise == MCSpec => []BoxClockwise
<1>1. BenchInv => BoxClockwise
  <2> SUFFICES ASSUME BenchInv, done, job.op = "box", \A i \in 1 .. 4 : Inside(job.points[i])
               PROVE  /\ {out[i] : i \in 1 .. 4} = {job.points[i] : i \in 1 .. 4}
                      /\ \A i \in 1 .. 4 : Cross(out[i], out[(i % 4) + 1], out[((i + 1) % 4) + 1]) > 0
    BY DEF BoxClockwise, Done
  <2>1. job \in BoxJobs
    BY JobsAre DEF BenchInv
  <2>2. PICK c \in Corners, u \in Vectors, k \in 1 .. 3 : job.points = Rectangle(c, u, k)
    BY <2>1 DEF BoxJobs
  <2>3. out \in BoxesOf(job.points, Picture)
    BY DEF BenchInv
  <2>4. Picture \in [width : Nat, height : Nat]
    BY DEF Picture
  <2>5. \A i \in 1 .. 4 : job.points[i].x \in 0 .. Picture.width - 1 /\ job.points[i].y \in 0 .. Picture.height - 1
    BY DEF Inside
  <2>6. job.points = FirstLeft(job.points) /\ Tilted(job.points, u.x, u.y, k * u.y, k * u.x)
    BY <2>2, RectanglesAreTilted
  <2>7. QED
    BY <2>3, <2>4, <2>5, <2>6, BoxesStayClockwise
<1>2. QED
  BY <1>1, BenchInvariance, PTL

\* The same of the rows of the bench, for any bound on their length.
THEOREM BenchTextsCollapsed == MCSpec => []TextCollapsed
<1>1. BenchInv => TextCollapsed
  <2> SUFFICES ASSUME BenchInv, done, job.op = "decode"
               PROVE  IsSelection(out, Collapse(job.row), Labelled(Collapse(job.row), Labels))
    BY DEF TextCollapsed, Done
  <2>1. job \in RowJobs
    BY JobsAre DEF BenchInv
  <2>2. PICK n \in 1 .. MaxSteps : job.row \in [1 .. n -> 0 .. Labels]
    BY <2>1 DEF RowJobs
  <2>3. Labels \in Nat /\ n \in Nat
    BY BenchAssumption DEF Labels
  <2> HIDE DEF Labels
  <2>4. job.row \in Seq(Nat)
    BY <2>2, <2>3
  <2>5. out = CtcDecode(job.row, Labels)
    BY DEF BenchInv
  <2>6. QED
    BY <2>3, <2>4, <2>5, TextsAreCollapsed
<1>2. QED
  BY <1>1, BenchInvariance, PTL

------------------------------------------------------------------------------
(* The invariant.                                                          *)

Stages == {"detector", "recognizer", "classifier"}
Paths == {manifest.detector.path, manifest.recognizer.path, manifest.classifier.path}
Session == [stage : Stages, device : {"CPU", "GPU"}, path : Paths]

Names == {"none", "CPU", "CUDA", "CUDA (automatic CPU fallback)", "DirectML GPU", "GPU", "CPU (CUDA unavailable)"}
Selections == [use_gpu : BOOLEAN, allow_gpu_fallback : BOOLEAN, name : Names]

\* Where the constructor opens sessions, and from there on until destruction.
Opening == {"detector", "recognizer", "classifier", "log"}
Whole == Opening \cup {"ready"}

AllOn(device) == \A i \in DOMAIN sessions : sessions[i].device = device

Typed ==
    /\ config \in [backend : Backends, device : Options, rec_concurrency : Concurrencies, enable_cls : BOOLEAN]
    /\ manifest \in Manifests
    /\ provider \in Selections
    /\ pc \in Building => sessions \in Seq(Session)

\* Sessions and compiled models exist from the detector's on, with an environment.
Alive ==
    /\ pc \in Whole \cup {"manifest"} => environment = "alive"
    /\ pc \in {"provider", "manifest", "detector"} => sessions = <<>> /\ compiled = <<>>
    /\ NothingOutlives

\* The selection describes the sessions opened with it: as long as it wants the GPU
\* none fell back, and if it never did, all are on the CPU; its name, and so the log,
\* does not name the CPU of a selection that wants the GPU.
Selected ==
    /\ provider.use_gpu => AllOn("GPU")
    /\ ~provider.use_gpu /\ ~provider.allow_gpu_fallback => AllOn("CPU")
    /\ provider.name = "CPU" => ~provider.use_gpu /\ ~provider.allow_gpu_fallback
    /\ provider.name = "CPU (CUDA unavailable)" => ~provider.use_gpu /\ AllOn("CPU")
    /\ config.backend = "onnxruntime" /\ pc \in Whole \cup {"manifest"} =>
          /\ config.device \in {"cpu", "use_gpu=0"} => ~provider.use_gpu /\ ~provider.allow_gpu_fallback
          /\ config.device \in {"cuda", "use_gpu=1"} => provider.use_gpu /\ ~provider.allow_gpu_fallback
    /\ pc \in Building => logged \notin {"CPU", "CPU (CUDA unavailable)"}
    /\ DeviceHonoured

\* The recogniser's model, if it is not the detector's, was compiled for its workers.
Shared ==
    LET path == manifest.recognizer.path IN
    config.backend = "openvino" /\ path # manifest.detector.path =>
        /\ path \in DOMAIN compiled => compiled[path] = RecognitionConcurrency(config)
        /\ pc \in Whole /\ Of("recognizer") # {} => path \in DOMAIN compiled
        /\ pc \in {"classifier", "log", "ready"} => Cardinality(Of("recognizer")) = RecognitionConcurrency(config)

\* The width of the manifest has been looked at, and for TensorRT the profile's.
Widths ==
    /\ pc \in Whole => manifest.width > 0
    /\ pc \in {"classifier", "log", "ready"} /\ config.backend = "tensorrt" => manifest.width <= manifest.profile
    /\ ShapesFit

SInv == Typed /\ Alive /\ Selected /\ Shared /\ Widths

\* What is selected, for each backend and device.
LEMMA SelectionFor ==
    ASSUME NEW c, c.backend \in Backends, NEW p \in SelectProvider(c)
    PROVE  /\ p \in Selections
           /\ p.name = "CPU" => ~p.use_gpu /\ ~p.allow_gpu_fallback
           /\ p.name # "CPU (CUDA unavailable)"
           /\ c.backend = "onnxruntime" =>
                 /\ c.device \in {"cpu", "use_gpu=0"} => ~p.use_gpu /\ ~p.allow_gpu_fallback
                 /\ c.device \in {"cuda", "use_gpu=1"} => p.use_gpu /\ ~p.allow_gpu_fallback
<1> USE DEF Selection, Selections, Names
<1>1. CASE c.backend = "onnxruntime"
  <2>1. CASE c.device \in {"unset", "cpu", "use_gpu=0"}
    <3>1. p = Selection(FALSE, FALSE, "CPU")
      BY <1>1, <2>1 DEF SelectProvider
    <3>2. QED
      BY <2>1, <3>1
  <2>2. CASE c.device \in {"cuda", "use_gpu=1"}
    <3>1. p = Selection(TRUE, FALSE, "CUDA")
      BY <1>1, <2>2 DEF SelectProvider
    <3>2. QED
      BY <2>2, <3>1
  <2>3. CASE c.device = "auto"
    <3>1. p = Selection(TRUE, TRUE, "CUDA (automatic CPU fallback)")
      BY <1>1, <2>3 DEF SelectProvider
    <3>2. QED
      BY <2>3, <3>1
  <2>4. CASE c.device \notin {"unset", "cpu", "use_gpu=0", "cuda", "use_gpu=1", "auto"}
    BY <1>1, <2>4 DEF SelectProvider
  <2>5. QED
    BY <2>1, <2>2, <2>3, <2>4
<1>2. CASE c.backend # "onnxruntime"
  <2>1. p \in {Selection(FALSE, FALSE, "CPU"), Selection(TRUE, FALSE, "DirectML GPU"), Selection(TRUE, FALSE, "GPU")}
    <3>1. CASE c.backend = "directml"
      BY <3>1 DEF SelectProvider
    <3>2. CASE c.backend = "openvino"
      BY <3>2 DEF SelectProvider
    <3>3. CASE c.backend = "tensorrt"
      BY <3>3 DEF SelectProvider
    <3>4. QED
      BY <1>2, <3>1, <3>2, <3>3 DEF Backends
  <2>2. CASE p = Selection(FALSE, FALSE, "CPU")
    BY <1>2, <2>2
  <2>3. CASE p = Selection(TRUE, FALSE, "DirectML GPU")
    BY <1>2, <2>3
  <2>4. CASE p = Selection(TRUE, FALSE, "GPU")
    BY <1>2, <2>4
  <2>5. QED
    BY <2>1, <2>2, <2>3, <2>4, Zenon
<1>3. QED
  BY <1>1, <1>2

\* What a session says of the selection it was opened with, and leaves behind.
LEMMA OpenSelection ==
    ASSUME NEW p \in Selections, NEW stage, NEW o \in SessionOutcomes(p)
    PROVE  LET q == Renamed(stage, o.provider) IN
           /\ q \in Selections /\ o.device \in {"CPU", "GPU"}
           /\ q.use_gpu => p.use_gpu /\ o.device = "GPU"
           /\ ~q.use_gpu => o.device = "CPU"
           /\ q.allow_gpu_fallback = p.allow_gpu_fallback
           /\ ~p.allow_gpu_fallback => q.use_gpu = p.use_gpu
           /\ \/ q.name = p.name
              \/ q.name = "CPU (CUDA unavailable)" /\ stage = "detector" /\ ~q.use_gpu
<1> DEFINE r == o.provider
           q == Renamed(stage, r)
<1> DEFINE straight == [device |-> IF p.use_gpu THEN "GPU" ELSE "CPU", provider |-> p]
           fallen == [device |-> "CPU", provider |-> [p EXCEPT !.use_gpu = FALSE]]
<1>0. o = straight \/ (o = fallen /\ p.use_gpu /\ p.allow_gpu_fallback)
  BY Zenon DEF SessionOutcomes
<1>1. \/ r = p /\ o.device = IF p.use_gpu THEN "GPU" ELSE "CPU"
      \/ /\ r = [p EXCEPT !.use_gpu = FALSE] /\ o.device = "CPU"
         /\ p.use_gpu /\ p.allow_gpu_fallback
  <2>1. CASE o = straight
    BY <2>1
  <2>2. CASE o = fallen /\ p.use_gpu /\ p.allow_gpu_fallback
    <3>1. r = [p EXCEPT !.use_gpu = FALSE] /\ o.device = "CPU"
      BY <2>2
    <3>2. QED
      BY <2>2, <3>1, Zenon
  <2>3. QED
    BY <1>0, <2>1, <2>2
<1>2. /\ r \in Selections /\ r.allow_gpu_fallback = p.allow_gpu_fallback /\ r.name = p.name
      /\ o.device \in {"CPU", "GPU"}
      /\ r.use_gpu => p.use_gpu /\ o.device = "GPU"
      /\ ~r.use_gpu => o.device = "CPU"
      /\ ~p.allow_gpu_fallback => r.use_gpu = p.use_gpu
  BY <1>1 DEF Selections
<1> HIDE DEF r
<1>3. /\ q \in Selections /\ q.use_gpu = r.use_gpu /\ q.allow_gpu_fallback = r.allow_gpu_fallback
      /\ \/ q.name = r.name
         \/ q.name = "CPU (CUDA unavailable)" /\ stage = "detector" /\ ~r.use_gpu
  <2>1. CASE stage = "detector" /\ ~r.use_gpu /\ r.allow_gpu_fallback
    <3>1. q = [r EXCEPT !.name = "CPU (CUDA unavailable)"]
      BY <2>1 DEF Renamed
    <3>2. QED
      BY <1>2, <2>1, <3>1 DEF Selections, Names
  <2>2. CASE ~(stage = "detector" /\ ~r.use_gpu /\ r.allow_gpu_fallback)
    <3>1. q = r
      BY <2>2 DEF Renamed
    <3>2. QED
      BY <1>2, <3>1
  <2>3. QED
    BY <2>1, <2>2
<1>4. QED
  BY <1>2, <1>3 DEF r

\* The session that was opened is the last.
LEMMA Opened ==
    ASSUME Typed, pc \in Building, NEW stage \in Stages, NEW path \in Paths, Open(stage, path)
    PROVE  \E o \in SessionOutcomes(provider) :
              /\ provider' = Renamed(stage, o.provider)
              /\ sessions' \in Seq(Session)
              /\ DOMAIN sessions = 1 .. Len(sessions) /\ Len(sessions) \in Nat
              /\ DOMAIN sessions' = DOMAIN sessions \cup {Len(sessions) + 1}
              /\ \A i \in DOMAIN sessions : sessions'[i] = sessions[i]
              /\ sessions'[Len(sessions) + 1] = [stage |-> stage, device |-> o.device, path |-> path]
<1>1. PICK o \in SessionOutcomes(provider) :
          /\ provider' = Renamed(stage, o.provider)
          /\ sessions' = Append(sessions, [stage |-> stage, device |-> o.device, path |-> path])
  BY DEF Open
<1> DEFINE s == [stage |-> stage, device |-> o.device, path |-> path]
<1>2. o.device \in {"CPU", "GPU"}
  BY OpenSelection DEF Typed
<1>3. s \in Session /\ sessions \in Seq(Session)
  BY <1>2 DEF Session, Typed
<1> HIDE DEF s
<1>4. /\ Append(sessions, s) \in Seq(Session)
      /\ DOMAIN sessions = 1 .. Len(sessions) /\ Len(sessions) \in Nat
      /\ DOMAIN Append(sessions, s) = DOMAIN sessions \cup {Len(sessions) + 1}
      /\ \A i \in DOMAIN sessions : Append(sessions, s)[i] = sessions[i]
      /\ Append(sessions, s)[Len(sessions) + 1] = s
  BY <1>3
<1>5. QED
  BY <1>1, <1>4 DEF s

\* The three actions that open a session.
Opens == OpenDetector \/ OpenRecognizer \/ OpenClassifier

LEMMA OpensAre ==
    ASSUME Opens
    PROVE  \E stage \in Stages, path \in Paths :
              /\ Open(stage, path) /\ pc = stage
              /\ stage = "detector" => path = manifest.detector.path /\ pc' = "recognizer"
              /\ stage = "recognizer" => path = manifest.recognizer.path /\ pc' = "recognizer"
              /\ stage = "classifier" => pc' = "log"
<1> USE DEF Stages, Paths
<1>1. CASE OpenDetector
  <2>1. "detector" \in Stages /\ manifest.detector.path \in Paths
    OBVIOUS
  <2>2. QED
    BY <1>1, <2>1 DEF OpenDetector
<1>2. CASE OpenRecognizer
  <2>1. "recognizer" \in Stages /\ manifest.recognizer.path \in Paths
    OBVIOUS
  <2>2. QED
    BY <1>2, <2>1 DEF OpenRecognizer
<1>3. CASE OpenClassifier
  <2>1. "classifier" \in Stages /\ manifest.classifier.path \in Paths
    OBVIOUS
  <2>2. QED
    BY <1>3, <2>1 DEF OpenClassifier
<1>4. QED
  BY <1>1, <1>2, <1>3 DEF Opens

LEMMA OpensFrame ==
    ASSUME Opens
    PROVE  /\ UNCHANGED <<config, environment, manifest, logged, shape>>
           /\ pc \in Opening /\ pc' \in Opening /\ pc \in Building
BY DEF Opens, OpenDetector, OpenRecognizer, OpenClassifier, Open, Opening, Building

\* The actions that take sessions away.
Closes == DestroyRecognizer \/ DestroyClassifier \/ DestroyDetector

LEMMA ClosesAre ==
    ASSUME Closes
    PROVE  /\ pc = "unwind" /\ sessions # <<>>
           /\ \E S \in SUBSET DOMAIN sessions : sessions' = [i \in S |-> sessions[i]]
           /\ UNCHANGED <<config, pc, provider, environment, manifest, compiled, logged, shape>>
<1>1. PICK stage \in Stages : \E before : DestroyStage(stage, before)
  BY DEF Closes, DestroyRecognizer, DestroyClassifier, DestroyDetector, Stages
<1>2. /\ pc = "unwind" /\ Of(stage) # {}
      /\ sessions' = [i \in DOMAIN sessions \ Of(stage) |-> sessions[i]]
      /\ UNCHANGED <<config, pc, provider, environment, manifest, compiled, logged, shape>>
  BY <1>1 DEF DestroyStage
<1>3. sessions # <<>>
  BY <1>2 DEF Of
<1>4. QED
  BY <1>2, <1>3

LEMMA Split ==
    Next => \/ CreateEnvironment \/ LoadManifest \/ Opens \/ RecognizerReady \/ LogDevice \/ Throw
            \/ RunDetector \/ RunBatch \/ Destroy \/ Closes \/ DestroyEnvironment
BY DEF Next, Opens, Closes

------------------------------------------------------------------------------
(* Types, and what the environment outlives.                               *)

LEMMA TypedStep ==
    ASSUME Typed, Next
    PROVE  Typed'
<1>1. config' = config /\ manifest' = manifest /\ Session' = Session
  BY Split, OpensFrame, ClosesAre DEF CreateEnvironment, LoadManifest, RecognizerReady, LogDevice, Throw,
     RunDetector, RunBatch, Destroy, DestroyEnvironment, Session, Paths
<1>2. provider' \in Selections
  <2>1. CASE CreateEnvironment
    <3>1. provider' \in SelectProvider(config)
      BY <2>1 DEF CreateEnvironment
    <3>2. QED
      BY <3>1, SelectionFor DEF Typed
  <2>2. CASE Opens
    <3>1. PICK stage \in Stages, path \in Paths : Open(stage, path)
      BY <2>2, OpensAre
    <3>2. pc \in Building
      BY <2>2, OpensFrame
    <3>3. PICK o \in SessionOutcomes(provider) : provider' = Renamed(stage, o.provider)
      BY <3>1, <3>2, Opened
    <3>4. QED
      BY <3>3, OpenSelection DEF Typed
  <2>3. CASE ~CreateEnvironment /\ ~Opens
    <3>1. provider' = provider
      BY <2>3, Split, ClosesAre DEF LoadManifest, RecognizerReady, LogDevice, Throw,
         RunDetector, RunBatch, Destroy, DestroyEnvironment
    <3>2. QED
      BY <3>1 DEF Typed
  <2>4. QED
    BY <2>1, <2>2, <2>3
<1>3. pc' \in Building => sessions' \in Seq(Session)
  <2>1. CASE Opens
    <3>1. PICK stage \in Stages, path \in Paths : Open(stage, path)
      BY <2>1, OpensAre
    <3>2. pc \in Building
      BY <2>1, OpensFrame
    <3>3. QED
      BY <3>1, <3>2, Opened
  <2>2. CASE Closes \/ DestroyEnvironment
    BY <2>2, ClosesAre DEF DestroyEnvironment, Building
  <2>3. CASE ~Opens /\ ~Closes /\ ~DestroyEnvironment
    <3>1. sessions' = sessions /\ (pc' \in Building => pc \in Building)
      BY <2>3, Split DEF CreateEnvironment, LoadManifest, RecognizerReady, LogDevice, Throw,
         RunDetector, RunBatch, Destroy, Building
    <3>2. QED
      BY <3>1 DEF Typed
  <2>4. QED
    BY <2>1, <2>2, <2>3
<1>4. QED
  BY <1>1, <1>2, <1>3 DEF Typed

LEMMA AliveStep ==
    ASSUME Alive, Next
    PROVE  Alive'
<1> USE DEF Alive, NothingOutlives, Whole, Opening
<1>1. CASE CreateEnvironment
  BY <1>1 DEF CreateEnvironment
<1>2. CASE LoadManifest
  BY <1>2 DEF LoadManifest
<1>3. CASE Opens
  <2>1. environment = "alive" /\ environment' = "alive"
    BY <1>3, OpensFrame
  <2>2. pc' \in {"recognizer", "log"}
    BY <1>3, OpensAre DEF Stages
  <2>3. QED
    BY <2>1, <2>2
<1>4. CASE RecognizerReady
  BY <1>4 DEF RecognizerReady
<1>5. CASE LogDevice
  BY <1>5 DEF LogDevice
<1>6. CASE Throw
  BY <1>6 DEF Throw, Building
<1>7. CASE RunDetector \/ RunBatch \/ Destroy
  BY <1>7 DEF RunDetector, RunBatch, Destroy
<1>8. CASE Closes
  BY <1>8, ClosesAre
<1>9. CASE DestroyEnvironment
  BY <1>9 DEF DestroyEnvironment
<1>10. QED
  BY <1>1, <1>2, <1>3, <1>4, <1>5, <1>6, <1>7, <1>8, <1>9, Split

------------------------------------------------------------------------------
(* Devices.                                                                *)

\* Opening a session keeps the selection true of all sessions.
LEMMA OpensSelected ==
    ASSUME Typed, Alive, Selected, Opens
    PROVE  Selected'
<1>1. PICK stage \in Stages, path \in Paths : Open(stage, path) /\ pc = stage
  BY OpensAre
<1>2. /\ UNCHANGED <<config, environment, manifest, logged, shape>>
      /\ pc \in Opening /\ pc' \in Opening /\ pc \in Building
  BY OpensFrame
<1>3. PICK o \in SessionOutcomes(provider) :
              /\ provider' = Renamed(stage, o.provider)
              /\ DOMAIN sessions = 1 .. Len(sessions) /\ Len(sessions) \in Nat
              /\ DOMAIN sessions' = DOMAIN sessions \cup {Len(sessions) + 1}
              /\ \A i \in DOMAIN sessions : sessions'[i] = sessions[i]
              /\ sessions'[Len(sessions) + 1] = [stage |-> stage, device |-> o.device, path |-> path]
  BY <1>1, <1>2, Opened
<1> DEFINE q == Renamed(stage, o.provider)
           new == Len(sessions) + 1
<1>4. /\ q.use_gpu => provider.use_gpu /\ o.device = "GPU"
      /\ ~q.use_gpu => o.device = "CPU"
      /\ q.allow_gpu_fallback = provider.allow_gpu_fallback
      /\ ~provider.allow_gpu_fallback => q.use_gpu = provider.use_gpu
      /\ \/ q.name = provider.name
         \/ q.name = "CPU (CUDA unavailable)" /\ stage = "detector" /\ ~q.use_gpu
  <2>1. provider \in Selections
    BY DEF Typed
  <2>2. QED
    BY <2>1, OpenSelection
<1>5. provider' = q /\ sessions'[new].device = o.device
  BY <1>3
<1> HIDE DEF q
<1>6. ASSUME NEW d, o.device = d, AllOn(d) PROVE AllOn(d)'
  <2> SUFFICES ASSUME NEW i \in DOMAIN sessions' PROVE sessions'[i].device = d
    BY DEF AllOn
  <2>1. CASE i \in DOMAIN sessions
    BY <1>3, <1>6, <2>1 DEF AllOn
  <2>2. CASE i = new
    BY <1>5, <1>6, <2>2
  <2>3. QED
    BY <1>3, <2>1, <2>2
<1>7. provider'.use_gpu => AllOn("GPU")'
  BY <1>4, <1>5, <1>6 DEF Selected
<1>8. ~provider'.use_gpu /\ ~provider'.allow_gpu_fallback => AllOn("CPU")'
  BY <1>4, <1>5, <1>6 DEF Selected
<1>9. provider'.name = "CPU" => ~provider'.use_gpu /\ ~provider'.allow_gpu_fallback
  BY <1>4, <1>5 DEF Selected
<1>10. provider'.name = "CPU (CUDA unavailable)" => ~provider'.use_gpu /\ AllOn("CPU")'
  <2>1. stage = "detector" => AllOn("CPU")
    <3>1. stage = "detector" => sessions = <<>>
      BY <1>1 DEF Alive
    <3>2. QED
      BY <3>1 DEF AllOn
  <2>2. QED
    BY <1>4, <1>5, <1>6, <2>1 DEF Selected
<1>11. config'.backend = "onnxruntime" =>
          /\ config'.device \in {"cpu", "use_gpu=0"} => ~provider'.use_gpu /\ ~provider'.allow_gpu_fallback
          /\ config'.device \in {"cuda", "use_gpu=1"} => provider'.use_gpu /\ ~provider'.allow_gpu_fallback
  BY <1>2, <1>4, <1>5 DEF Selected, Whole
<1>12. logged' \notin {"CPU", "CPU (CUDA unavailable)"}
  BY <1>2 DEF Selected
<1>13. ASSUME NEW i \in DOMAIN sessions', NEW j \in DOMAIN sessions', i < j, sessions'[j].device = "GPU",
              config'.backend = "onnxruntime"
       PROVE  sessions'[i].device = "GPU"
  <2>1. CASE j = new
    <3>1. provider'.use_gpu
      BY <1>4, <1>5, <1>13, <2>1
    <3>2. QED
      BY <1>7, <3>1 DEF AllOn
  <2>2. CASE j \in DOMAIN sessions
    <3>1. i \in DOMAIN sessions
      BY <1>3, <1>13, <2>2
    <3>2. QED
      BY <1>2, <1>3, <1>13, <2>2, <3>1 DEF Selected, DeviceHonoured
  <2>3. QED
    BY <1>3, <2>1, <2>2
<1>14. DeviceHonoured'
  BY <1>7, <1>8, <1>11, <1>12, <1>13 DEF DeviceHonoured, AllOn
<1>15. QED
  BY <1>7, <1>8, <1>9, <1>10, <1>11, <1>12, <1>14 DEF Selected

LEMMA SelectedStep ==
    ASSUME Typed, Alive, Selected, Next
    PROVE  Selected'
<1> USE DEF Whole, Opening
<1>1. CASE Opens
  BY <1>1, OpensSelected
<1>2. CASE CreateEnvironment
  <2>1. /\ provider' \in SelectProvider(config) /\ pc = "provider" /\ pc' = "manifest"
        /\ UNCHANGED <<config, sessions, logged>>
    BY <1>2 DEF CreateEnvironment
  <2>2. /\ provider'.name = "CPU" => ~provider'.use_gpu /\ ~provider'.allow_gpu_fallback
        /\ provider'.name # "CPU (CUDA unavailable)"
        /\ config.backend = "onnxruntime" =>
              /\ config.device \in {"cpu", "use_gpu=0"} => ~provider'.use_gpu /\ ~provider'.allow_gpu_fallback
              /\ config.device \in {"cuda", "use_gpu=1"} => provider'.use_gpu /\ ~provider'.allow_gpu_fallback
    BY <2>1, SelectionFor DEF Typed
  <2>3. DOMAIN sessions = {}
    BY <2>1 DEF Alive
  <2>4. AllOn("GPU")' /\ AllOn("CPU")' /\ DeviceHonoured'
    BY <2>1, <2>3 DEF AllOn, DeviceHonoured
  <2>5. logged' \notin {"CPU", "CPU (CUDA unavailable)"}
    BY <2>1 DEF Selected, Building
  <2>6. QED
    BY <2>1, <2>2, <2>4, <2>5 DEF Selected
<1>3. CASE LogDevice
  <2>1. /\ pc = "log" /\ pc' = "ready" /\ logged' = provider.name
        /\ UNCHANGED <<config, provider, sessions>>
    BY <1>3 DEF LogDevice
  <2>2. logged' \in {"CPU", "CPU (CUDA unavailable)"} => AllOn("CPU")'
    BY <2>1 DEF Selected, AllOn
  <2>3. DeviceHonoured'
    BY <2>1, <2>2 DEF Selected, DeviceHonoured, AllOn
  <2>4. QED
    BY <2>1, <2>3 DEF Selected, AllOn, Building
<1>4. CASE Closes
  <2>1. /\ pc = "unwind" /\ UNCHANGED <<config, pc, provider, logged>>
        /\ DOMAIN sessions' \subseteq DOMAIN sessions
        /\ \A i \in DOMAIN sessions' : sessions'[i] = sessions[i]
    BY <1>4, ClosesAre
  <2>2. \A d : AllOn(d) => AllOn(d)'
    BY <2>1 DEF AllOn
  <2>3. DeviceHonoured'
    BY <2>1 DEF Selected, DeviceHonoured
  <2>4. QED
    BY <2>1, <2>2, <2>3 DEF Selected, Building
<1>5. CASE LoadManifest \/ RecognizerReady \/ Throw \/ RunDetector \/ RunBatch \/ Destroy \/ DestroyEnvironment
  <2>1. /\ UNCHANGED <<config, provider, sessions, logged>>
        /\ pc' \in Whole \cup {"manifest"} => pc \in Whole \cup {"manifest"}
        /\ pc' \in Building => pc \in Building
    BY <1>5 DEF LoadManifest, RecognizerReady, Throw, RunDetector, RunBatch, Destroy, DestroyEnvironment, Building
  <2>2. DeviceHonoured' /\ \A d : AllOn(d) => AllOn(d)'
    BY <2>1 DEF Selected, DeviceHonoured, AllOn
  <2>3. QED
    BY <2>1, <2>2 DEF Selected
<1>6. QED
  BY <1>1, <1>2, <1>3, <1>4, <1>5, Split

------------------------------------------------------------------------------
(* The shared model.                                                       *)

LEMMA SomeWorkers ==
    ASSUME Typed
    PROVE  RecognitionConcurrency(config) \in Nat \ {0}
<1>1. config.rec_concurrency \in Nat \ {0}
  BY SetupAssumption DEF Typed
<1>2. QED
  BY <1>1 DEF RecognitionConcurrency, AtLeast, AtMost

\* A session belongs to its own stage only.
LEMMA OpenedOf ==
    ASSUME Typed, pc \in Building, NEW stage \in Stages, NEW path \in Paths, Open(stage, path),
           NEW other, other # stage
    PROVE  Of(other)' = Of(other)
<1>1. /\ DOMAIN sessions = 1 .. Len(sessions) /\ Len(sessions) \in Nat
      /\ DOMAIN sessions' = DOMAIN sessions \cup {Len(sessions) + 1}
      /\ \A i \in DOMAIN sessions : sessions'[i] = sessions[i]
      /\ sessions'[Len(sessions) + 1].stage = stage
  <2>1. PICK o \in SessionOutcomes(provider) :
              /\ DOMAIN sessions = 1 .. Len(sessions) /\ Len(sessions) \in Nat
              /\ DOMAIN sessions' = DOMAIN sessions \cup {Len(sessions) + 1}
              /\ \A i \in DOMAIN sessions : sessions'[i] = sessions[i]
              /\ sessions'[Len(sessions) + 1] = [stage |-> stage, device |-> o.device, path |-> path]
    BY Opened
  <2>2. QED
    BY <2>1
<1>2. QED
  BY <1>1 DEF Of

LEMMA OpensShared ==
    ASSUME Typed, Alive, Shared, Opens
    PROVE  Shared'
<1> DEFINE rec == manifest.recognizer.path
           workers == RecognitionConcurrency(config)
<1>1. PICK stage \in Stages, path \in Paths :
              /\ Open(stage, path) /\ pc = stage
              /\ stage = "detector" => path = manifest.detector.path /\ pc' = "recognizer"
              /\ stage = "recognizer" => path = manifest.recognizer.path /\ pc' = "recognizer"
              /\ stage = "classifier" => pc' = "log"
  BY OpensAre
<1>2. /\ UNCHANGED <<config, environment, manifest, logged, shape>>
      /\ pc \in Opening /\ pc \in Building
  BY OpensFrame
<1>3. workers \in Nat \ {0} /\ workers' = workers /\ rec' = rec
  BY <1>2, SomeWorkers
<1> HIDE DEF workers
<1> SUFFICES ASSUME config.backend = "openvino", rec # manifest.detector.path
             PROVE  /\ rec \in DOMAIN compiled' => compiled'[rec] = workers
                    /\ pc' \in Whole /\ Of("recognizer")' # {} => rec \in DOMAIN compiled'
                    /\ pc' \in {"classifier", "log", "ready"} => Cardinality(Of("recognizer"))' = workers
  BY <1>2, <1>3 DEF Shared, workers
<1>4. /\ DOMAIN compiled' = DOMAIN compiled \cup {path}
      /\ \A p \in DOMAIN compiled : compiled'[p] = compiled[p]
      /\ path \notin DOMAIN compiled /\ stage = "recognizer" => compiled'[path] = workers
  BY <1>1 DEF Open, Compile, Ort, workers
<1>5. rec \in DOMAIN compiled => compiled[rec] = workers
  BY DEF Shared, workers
<1>6. CASE stage = "detector"
  <2>1. compiled = <<>> /\ sessions = <<>> /\ Of("recognizer") = {}
    BY <1>1, <1>6 DEF Alive, Of
  <2>2. Of("recognizer")' = {}
    BY <1>1, <1>2, <1>6, <2>1, OpenedOf
  <2>3. rec \notin DOMAIN compiled'
    BY <1>1, <1>4, <1>6, <2>1
  <2>4. QED
    BY <1>1, <1>6, <2>2, <2>3
<1>7. CASE stage = "recognizer"
  <2>1. path = rec /\ pc' = "recognizer"
    BY <1>1, <1>7
  <2>2. rec \in DOMAIN compiled' /\ compiled'[rec] = workers
    BY <1>4, <1>5, <1>7, <2>1
  <2>3. QED
    BY <2>1, <2>2
<1>8. CASE stage = "classifier"
  <2>1. Cardinality(Of("recognizer")) = workers
    BY <1>1, <1>8 DEF Shared, workers
  <2>2. Of("recognizer") # {}
    BY <1>3, <2>1, FS_EmptySet
  <2>3. rec \in DOMAIN compiled
    BY <1>2, <2>2 DEF Shared, Whole
  <2>4. Of("recognizer")' = Of("recognizer")
    BY <1>1, <1>2, <1>8, OpenedOf
  <2>5. QED
    BY <1>4, <1>5, <2>1, <2>3, <2>4
<1>9. QED
  BY <1>6, <1>7, <1>8 DEF Stages

LEMMA SharedStep ==
    ASSUME Typed, Alive, Shared, Next
    PROVE  Shared'
<1> USE DEF Whole, Opening
<1>1. CASE Opens
  BY <1>1, OpensShared
<1>2. CASE RecognizerReady
  BY <1>2 DEF RecognizerReady, Shared, Of
<1>3. CASE Closes
  BY <1>3, ClosesAre DEF Shared
<1>4. CASE DestroyEnvironment
  BY <1>4 DEF DestroyEnvironment, Shared
<1>5. CASE CreateEnvironment
  BY <1>5 DEF CreateEnvironment, Shared
<1>6. CASE LoadManifest
  <2>1. sessions' = <<>> /\ pc' = "detector" /\ UNCHANGED <<config, manifest, compiled>>
    BY <1>6 DEF LoadManifest, Alive
  <2>2. Of("recognizer")' = {}
    BY <2>1 DEF Of
  <2>3. QED
    BY <2>1, <2>2 DEF Shared
<1>7. CASE LogDevice \/ RunDetector \/ RunBatch
  <2>1. /\ UNCHANGED <<config, manifest, compiled, sessions>> /\ pc \in {"log", "ready"} /\ pc' = "ready"
    BY <1>7 DEF LogDevice, RunDetector, RunBatch
  <2>2. Of("recognizer")' = Of("recognizer")
    BY <2>1 DEF Of
  <2>3. QED
    BY <2>1, <2>2 DEF Shared
<1>8. CASE Throw \/ Destroy
  BY <1>8 DEF Throw, Destroy, Shared
<1>9. QED
  BY <1>1, <1>2, <1>3, <1>4, <1>5, <1>6, <1>7, <1>8, Split

------------------------------------------------------------------------------
(* The inputs of the networks.                                             *)

LEMMA RunDetectorFits ==
    ASSUME Typed, Widths, RunDetector
    PROVE  Widths'
<1>1. PICK w \in Sides, h \in Sides, limit \in Limits :
          shape' = [stage |-> "detector", limit |-> limit,
                    input |-> DetectionShape([width |-> w, height |-> h], limit)]
  BY DEF RunDetector
<1> DEFINE longer == AtLeast(w, h)
<1>2. w \in Nat \ {0} /\ h \in Nat \ {0} /\ limit \in Nat \ {0}
  BY SetupAssumption
<1>3. longer \in Nat \ {0} /\ w <= longer /\ h <= longer
  BY <1>2 DEF AtLeast
<1> HIDE DEF longer
<1>4. \A side \in {DetectionSide(w, longer, limit), DetectionSide(h, longer, limit)} :
          /\ side % 32 = 0 /\ side >= 32
          /\ side > 32 => side <= limit + 16 /\ (limit % 32 = 0 => side <= limit)
  BY <1>2, <1>3, DetectionSideFits
<1>5. /\ shape'.stage = "detector" /\ shape'.limit = limit
      /\ shape'.input.width = DetectionSide(w, longer, limit)
      /\ shape'.input.height = DetectionSide(h, longer, limit)
  BY <1>1 DEF DetectionShape, longer
<1>6. DetectorFits'
  BY <1>4, <1>5 DEF DetectorFits
<1>7. UNCHANGED <<config, pc, manifest>>
  BY DEF RunDetector
<1>8. QED
  BY <1>5, <1>6, <1>7 DEF Widths, ShapesFit

LEMMA RunBatchFits ==
    ASSUME Typed, Widths, RunBatch
    PROVE  Widths'
<1> DEFINE Crop(w) == [width |-> w, height |-> RecHeight]
           Needed(w) == RequiredWidth({Crop(w)}, RecHeight, manifest.width)
<1>1. PICK w \in CropWidths :
          shape' = [stage |-> "recognizer", required |-> Needed(w), width |-> BatchWidth(Needed(w)),
                    crop |-> ScaledWidth(Crop(w), RecHeight, BatchWidth(Needed(w)))]
  BY DEF RunBatch
<1> DEFINE required == Needed(w)
           width == BatchWidth(required)
<1>2. pc = "ready" /\ UNCHANGED <<config, pc, manifest>>
  BY DEF RunBatch
<1>3. w \in Nat \ {0} /\ manifest.width \in Nat \ {0} /\ manifest.profile \in Int
  BY <1>2, SetupAssumption DEF Typed, Widths, Whole, Opening
<1>4. required \in Nat /\ manifest.width <= required
  BY <1>3, RequiredWidthIs
<1> HIDE DEF required
<1>5. CASE config.backend = "tensorrt"
  <2>1. manifest.width <= manifest.profile
    BY <1>2, <1>5 DEF Widths
  <2>2. width = ProfileWidth(required, manifest.width, manifest.profile)
    BY <1>5 DEF BatchWidth
  <2>3. /\ width \in manifest.width .. manifest.profile
        /\ width < required => width = manifest.profile
    <3>1. manifest.width \in Nat
      BY <1>3
    <3>2. /\ ProfileWidth(required, manifest.width, manifest.profile) \in manifest.width .. manifest.profile
          /\ ProfileWidth(required, manifest.width, manifest.profile) < required =>
                ProfileWidth(required, manifest.width, manifest.profile) = manifest.profile
      BY <1>3, <1>4, <2>1, <3>1, ProfileWidthFits
    <3>3. QED
      BY <2>2, <3>2
  <2> HIDE DEF width
  <2>4. width \in Nat \ {0}
    BY <1>3, <2>3
  <2>5. ScaledWidth(Crop(w), RecHeight, width) \in 1 .. width
    BY <1>3, <2>4, ScaledWidthFits
  <2>6. RecognizerFits'
    BY <1>1, <1>2, <1>5, <2>3, <2>5 DEF RecognizerFits, width, required
  <2>7. QED
    BY <1>1, <1>2, <2>6 DEF Widths, ShapesFit
<1>6. CASE config.backend # "tensorrt"
  <2>1. width = BucketWidth(required, manifest.width)
    BY <1>6 DEF BatchWidth
  <2>2. width \in Nat /\ width >= required /\ (required <= 1280 => width \in Buckets)
    BY <1>3, <1>4, <2>1, BucketWidthFits
  <2> HIDE DEF width
  <2>3. width \in Nat \ {0}
    BY <1>3, <1>4, <2>2
  <2>4. ScaledWidth(Crop(w), RecHeight, width) \in 1 .. width
    BY <1>3, <2>3, ScaledWidthFits
  <2>5. RecognizerFits'
    BY <1>1, <1>2, <1>6, <2>2, <2>4 DEF RecognizerFits, width, required
  <2>6. QED
    BY <1>1, <1>2, <2>5 DEF Widths, ShapesFit
<1>7. QED
  BY <1>5, <1>6

LEMMA WidthsStep ==
    ASSUME Typed, Widths, Next
    PROVE  Widths'
<1> USE DEF Whole, Opening
<1>1. CASE RunDetector
  BY <1>1, RunDetectorFits
<1>2. CASE RunBatch
  BY <1>2, RunBatchFits
<1>3. ~RunDetector /\ ~RunBatch => UNCHANGED <<config, manifest, shape>>
  BY Split, OpensFrame, ClosesAre DEF CreateEnvironment, LoadManifest, RecognizerReady, LogDevice, Throw,
     Destroy, DestroyEnvironment
<1>4. ~RunDetector /\ ~RunBatch => ShapesFit'
  BY <1>3 DEF Widths, ShapesFit, DetectorFits, RecognizerFits
<1>5. CASE LoadManifest
  <2>1. manifest.width > 0 /\ pc' = "detector"
    BY <1>5, SetupAssumption DEF LoadManifest, ManifestLoads, Typed
  <2>2. ~RunDetector /\ ~RunBatch
    BY <1>5 DEF LoadManifest, RunDetector, RunBatch
  <2>3. QED
    BY <1>3, <1>4, <2>1, <2>2 DEF Widths
<1>6. CASE Opens
  <2>1. /\ pc \in Opening /\ pc' \in {"recognizer", "log"} /\ (pc' = "log" => pc = "classifier")
    BY <1>6, OpensFrame, OpensAre DEF Stages
  <2>2. ~RunDetector /\ ~RunBatch
    BY <2>1 DEF RunDetector, RunBatch
  <2>3. QED
    BY <1>3, <1>4, <2>1, <2>2 DEF Widths
<1>7. CASE RecognizerReady
  <2>1. ~RunDetector /\ ~RunBatch
    BY <1>7 DEF RecognizerReady, RunDetector, RunBatch
  <2>2. QED
    BY <1>3, <1>4, <1>7, <2>1 DEF RecognizerReady, Widths
<1>8. CASE LogDevice
  <2>1. ~RunDetector /\ ~RunBatch
    BY <1>8 DEF LogDevice, RunDetector, RunBatch
  <2>2. QED
    BY <1>3, <1>4, <1>8, <2>1 DEF LogDevice, Widths
<1>9. CASE CreateEnvironment \/ Throw \/ Destroy \/ Closes \/ DestroyEnvironment
  <2>1. pc' \in {"manifest", "unwind", "ended"}
    BY <1>9, ClosesAre DEF CreateEnvironment, Throw, Destroy, DestroyEnvironment
  <2>2. ~RunDetector /\ ~RunBatch
    BY <2>1 DEF RunDetector, RunBatch
  <2>3. QED
    BY <1>4, <2>1, <2>2 DEF Widths
<1>10. QED
  BY <1>1, <1>2, <1>5, <1>6, <1>7, <1>8, <1>9, Split

------------------------------------------------------------------------------
(* The theorems.                                                           *)

LEMMA SetupInit == Init => SInv
<1> SUFFICES ASSUME Init PROVE SInv
  OBVIOUS
<1>1. Typed
  BY DEF Init, Typed, Selection, Selections, Names
<1>2. Alive /\ Selected /\ Shared
  BY DEF Init, Selection, Alive, NothingOutlives, Selected, AllOn, DeviceHonoured, Shared, Whole, Opening
<1>3. Widths
  BY DEF Init, Widths, ShapesFit, Whole, Opening
<1>4. QED
  BY <1>1, <1>2, <1>3 DEF SInv

LEMMA SetupStep == SInv /\ [Next]_vars => SInv'
<1> SUFFICES ASSUME SInv, [Next]_vars PROVE SInv'
  OBVIOUS
<1>1. CASE Next
  BY <1>1, TypedStep, AliveStep, SelectedStep, SharedStep, WidthsStep DEF SInv
<1>2. CASE UNCHANGED vars
  <2>1. Typed'
    BY <1>2 DEF vars, SInv, Typed, Session, Paths
  <2>2. Alive'
    BY <1>2 DEF vars, SInv, Alive, NothingOutlives
  <2>3. Selected'
    BY <1>2 DEF vars, SInv, Selected, AllOn, DeviceHonoured
  <2>4. Shared'
    BY <1>2 DEF vars, SInv, Shared, Of
  <2>5. Widths'
    BY <1>2 DEF vars, SInv, Widths, ShapesFit, DetectorFits, RecognizerFits
  <2>6. QED
    BY <2>1, <2>2, <2>3, <2>4, <2>5 DEF SInv
<1>3. QED
  BY <1>1, <1>2

\* The invariant holds of every construction, use and destruction of an engine, for any
\* packages, sizes and numbers of workers.
THEOREM SetupInvariance == Spec => []SInv
BY SetupInit, SetupStep, PTL DEF Spec

\* No session or compiled model outlives the environment it was made in, wherever the
\* constructor stopped (member order of Impl), and nothing is left at the end.
THEOREM EnvironmentOutlives == Spec => []NothingOutlives
<1>1. SInv => NothingOutlives
  BY DEF SInv, Alive
<1>2. QED
  BY <1>1, SetupInvariance, PTL

\* cpu and cuda mean every session, auto never goes back to the GPU, and a log line that
\* names the CPU is true of all sessions (SelectProvider, OrtSession, Detector).
THEOREM DevicesAreHonoured == Spec => []DeviceHonoured
<1>1. SInv => DeviceHonoured
  BY DEF SInv, Selected
<1>2. QED
  BY <1>1, SetupInvariance, PTL

\* A model of OpenVINO's recogniser serves as many requests as there are workers, unless
\* its file is the detector's as well (Compile's cache by path).
THEOREM RequestsReachWorkers == Spec => []RequestsForWorkers
<1>1. SInv => RequestsForWorkers
  <2> SUFFICES ASSUME SInv, pc = "ready", config.backend = "openvino",
                      manifest.recognizer.path # manifest.detector.path
               PROVE  compiled[manifest.recognizer.path] >= Cardinality(Of("recognizer"))
    BY DEF RequestsForWorkers
  <2>1. RecognitionConcurrency(config) \in Nat \ {0}
    BY SomeWorkers DEF SInv
  <2>2. Cardinality(Of("recognizer")) = RecognitionConcurrency(config)
    BY DEF SInv, Shared
  <2>3. Of("recognizer") # {}
    BY <2>1, <2>2, FS_EmptySet
  <2>4. compiled[manifest.recognizer.path] = RecognitionConcurrency(config)
    BY <2>3 DEF SInv, Shared, Whole
  <2>5. QED
    BY <2>1, <2>2, <2>4
<1>2. QED
  BY <1>1, SetupInvariance, PTL

\* Inputs of the networks have the sizes the models were built for, crops are copied
\* inside them, and a detector's side leaves the limit by no more than rounding
\* (Detector::Run, RunBatch, and the constructor's look at the profile).
THEOREM ShapesAlwaysFit == Spec => []ShapesFit
<1>1. SInv => ShapesFit
  BY DEF SInv, Widths
<1>2. QED
  BY <1>1, SetupInvariance, PTL

==============================================================================
