---------------------------- MODULE PathFinderProofs ---------------------------
(***************************************************************************)
(* The search for a way on maps of every size.                             *)
(*                                                                         *)
(* First numbers: the cost of a leg is a root, which obeys the triangle    *)
(* inequality but for the pixel that is cut off.  Then the open set, which *)
(* is a heap.  Then the map as a graph of portals, from the invariant of   *)
(* MapProofs.  Searched is what every turn of the search keeps; Work,      *)
(* which every turn does some of, makes it end; Reckoned compares it with  *)
(* the reference.  The theorems are at the end.                            *)
(*                                                                         *)
(* A definition of the model has a function for a loop: that there is one  *)
(* is shown for each of them by induction over the turns (...Exists).      *)
(***************************************************************************)
EXTENDS PathFinder, MapProofs, SequenceTheorems

-----------------------------------------------------------------------------
(* Numbers *)

\* Division of naturals, whose rest is thrown away.
LEMMA QuotientIs ==
  ASSUME NEW a \in Nat, NEW d \in Nat \ {0}
  PROVE  /\ a \div d \in Nat
         /\ d * (a \div d) <= a /\ a < d * (a \div d + 1)
  OBVIOUS

LEMMA QuotientAtLeast ==
  ASSUME NEW a \in Nat, NEW d \in Nat \ {0}, NEW k \in Nat, d * k <= a
  PROVE  k <= a \div d
<1>1. a \div d \in Nat /\ a < d * (a \div d + 1)
  BY QuotientIs
<1> DEFINE q == a \div d
<1> HIDE DEF q
<1>2. ASSUME q + 1 <= k PROVE FALSE
  <2>1. q \in Nat /\ a < d * (q + 1)
    BY <1>1 DEF q
  <2>2. d * (q + 1) <= d * k
    BY <1>2, <2>1
  <2> QED BY <2>1, <2>2
<1> QED BY <1>1, <1>2 DEF q

LEMMA QuotientAtMost ==
  ASSUME NEW a \in Nat, NEW d \in Nat \ {0}, NEW k \in Nat, a < d * (k + 1)
  PROVE  a \div d <= k
<1>1. a \div d \in Nat /\ d * (a \div d) <= a
  BY QuotientIs
<1> DEFINE q == a \div d
<1> HIDE DEF q
<1>2. ASSUME k + 1 <= q PROVE FALSE
  <2>1. q \in Nat /\ d * q <= a
    BY <1>1 DEF q
  <2>2. d * (k + 1) <= d * q
    BY <1>2, <2>1
  <2> QED BY <2>1, <2>2
<1> QED BY <1>1, <1>2 DEF q

\* r is the root of n, cut off.
IsRoot(r, n) == r \in Nat /\ r * r <= n /\ n < (r + 1) * (r + 1)

\* Every number has a root, and one only.
LEMMA RootExists ==
  ASSUME NEW n \in Nat
  PROVE  \E r : IsRoot(r, n)
<1> DEFINE X == {k \in Nat : n < (k + 1) * (k + 1)}
<1>1. X \subseteq Nat /\ n \in X
  OBVIOUS
<1>2. PICK r \in X : \A k \in X : r <= k
  <2> HIDE DEF X
  <2> QED BY <1>1, LeastOf
<1>3. r \in Nat /\ n < (r + 1) * (r + 1)
  OBVIOUS
<1>4. r * r <= n
  <2>1. CASE r = 0
    BY <2>1
  <2>2. CASE r # 0
    <3>1. r - 1 \in Nat /\ ~(r <= r - 1) /\ (r - 1) + 1 = r
      BY <1>3, <2>2
    <3>2. r - 1 \notin X
      BY <1>2, <3>1
    <3>3. ~(n < r * r)
      BY <3>1, <3>2
    <3> QED BY <1>3, <3>3
  <2> QED BY <2>1, <2>2
<1> QED BY <1>3, <1>4 DEF IsRoot

LEMMA RootsOrdered ==
  ASSUME NEW n \in Nat, NEW k \in Nat, n <= k, NEW r, IsRoot(r, n), NEW s, IsRoot(s, k)
  PROVE  r <= s
<1>1. r \in Nat /\ r * r <= n /\ s \in Nat /\ k < (s + 1) * (s + 1)
  BY DEF IsRoot
<1>2. ASSUME s + 1 <= r PROVE FALSE
  <2>1. (s + 1) * (s + 1) <= r * r
    BY <1>1, <1>2
  <2> QED BY <1>1, <2>1
<1> QED BY <1>1, <1>2

\* Bounds of the root from bounds on the other side.
LEMMA RootBounds ==
  ASSUME NEW long \in Nat \ {0}, NEW short \in Nat,
         NEW r, IsRoot(r, long * long + short * short), NEW k \in Nat
  PROVE  /\ r >= long
         /\ k <= r => r <= NotBelow(long, short, k) /\ NotBelow(long, short, k) \in Nat
         /\ r <= k => NotAbove(long, short, k) <= r /\ NotAbove(long, short, k) \in Nat
<1> DEFINE more == short * short
<1>1. /\ r \in Nat /\ more \in Nat
      /\ r * r <= long * long + more /\ long * long + more < (r + 1) * (r + 1)
  BY DEF IsRoot
<1>2. r >= long
  <2>1. ASSUME r + 1 <= long PROVE FALSE
    <3>1. (r + 1) * (r + 1) <= long * long
      BY <1>1, <2>1
    <3> QED BY <1>1, <3>1
  <2> QED BY <1>1, <2>1
<1> HIDE DEF more
<1>3. ASSUME k <= r PROVE r <= NotBelow(long, short, k) /\ NotBelow(long, short, k) \in Nat
  <2> DEFINE d == r - long
  <2>1. d \in Nat /\ r = long + d
    BY <1>1, <1>2
  <2> HIDE DEF d
  <2>2. 2 * long * d + d * d <= more
    <3>1. (long + d) * (long + d) = long * long + 2 * long * d + d * d
      BY <2>1
    <3> QED BY <1>1, <2>1, <3>1
  <2>3. (long + k) * d <= more
    <3>1. (long + k) * d <= (long + r) * d
      BY <1>1, <1>3, <2>1
    <3>2. (long + r) * d = 2 * long * d + d * d
      BY <2>1
    <3> QED BY <1>1, <2>1, <2>2, <3>1, <3>2
  <2>4. d <= more \div (long + k) /\ more \div (long + k) \in Nat
    BY <1>1, <2>1, <2>3, QuotientAtLeast, QuotientIs
  <2> QED BY <2>1, <2>4 DEF NotBelow, more
<1>4. ASSUME r <= k PROVE NotAbove(long, short, k) <= r /\ NotAbove(long, short, k) \in Nat
  <2> DEFINE d == r - long
  <2>1. d \in Nat /\ r = long + d
    BY <1>1, <1>2
  <2> HIDE DEF d
  <2>2. more < 2 * long * (d + 1) + (d + 1) * (d + 1)
    <3>1. (long + (d + 1)) * (long + (d + 1)) = long * long + 2 * long * (d + 1) + (d + 1) * (d + 1)
      BY <2>1
    <3> QED BY <1>1, <2>1, <3>1
  <2>3. more < (long + k + 1) * (d + 1)
    <3>1. (long + r + 1) * (d + 1) <= (long + k + 1) * (d + 1)
      BY <1>1, <1>4, <2>1
    <3>2. (long + r + 1) * (d + 1) = 2 * long * (d + 1) + (d + 1) * (d + 1)
      BY <2>1
    <3> QED BY <1>1, <2>1, <2>2, <3>1, <3>2
  <2>4. more \div (long + k + 1) <= d /\ more \div (long + k + 1) \in Nat
    BY <1>1, <2>1, <2>3, QuotientAtMost, QuotientIs
  <2> QED BY <2>1, <2>4 DEF NotAbove, more
<1> QED BY <1>2, <1>3, <1>4

\* Root finds it between its bounds: what the model writes for sqrt is the root, cut off, that
\* path_calc_cost returns.
LEMMA RootIs ==
  ASSUME NEW long \in Nat \ {0}, NEW short \in Nat
  PROVE  IsRoot(Root(long, short), long * long + short * short)
<1> DEFINE square == long * long + short * short
           low == NotAbove(long, short, NotBelow(long, short, long))
           high == NotBelow(long, short, low)
<1>1. square \in Nat
  OBVIOUS
<1>2. PICK r : IsRoot(r, square)
  BY <1>1, RootExists
<1>3. r \in Nat /\ r >= long /\ r <= NotBelow(long, short, long) /\ NotBelow(long, short, long) \in Nat
  BY <1>2, RootBounds DEF IsRoot
<1>4. low <= r /\ low \in Nat
  BY <1>2, <1>3, RootBounds
<1>5. r <= high /\ high \in Nat
  BY <1>2, <1>4, RootBounds
<1>6. NotAbove(long, short, high) <= r /\ NotAbove(long, short, high) \in Nat
  BY <1>2, <1>5, RootBounds
<1>7. r \in NotAbove(long, short, high) .. high /\ r * r <= square /\ square < (r + 1) * (r + 1)
  BY <1>2, <1>3, <1>5, <1>6 DEF IsRoot
<1> DEFINE X == {k \in NotAbove(long, short, high) .. high : k * k <= square /\ square < (k + 1) * (k + 1)}
<1>8. r \in X
  BY <1>7
<1>9. Root(long, short) =
        CHOOSE k \in NotAbove(long, short, high) .. high : k * k <= square /\ square < (k + 1) * (k + 1)
  BY DEF Root
<1>10. /\ Root(long, short) \in NotAbove(long, short, high) .. high
       /\ Root(long, short) * Root(long, short) <= square
       /\ square < (Root(long, short) + 1) * (Root(long, short) + 1)
  BY <1>7, <1>9
<1>11. Root(long, short) \in Nat
  BY <1>5, <1>6, <1>10
<1> QED BY <1>10, <1>11 DEF IsRoot

-----------------------------------------------------------------------------
(* Costs *)

\* Pixels that are within the border.
Pixels ==
  (TILE_SCALE .. (Width - 1) * TILE_SCALE - 1) \X (TILE_SCALE .. (Height - 1) * TILE_SCALE - 1)

\* The greatest distance within the border, squared, fits an int (path.c:35).
SquaresFit ==
  LET w == (Width - 2) * TILE_SCALE
      h == (Height - 2) * TILE_SCALE
  IN w * w + h * h <= MAX_INT

Square(p, q) == (p[1] - q[1]) * (p[1] - q[1]) + (p[2] - q[2]) * (p[2] - q[2])

\* A distance on the map fits an int, squared and with another one.
LEMMA DistanceIs ==
  ASSUME NEW a \in Int, NEW b \in Int, NEW w \in Nat, a - b <= w, b - a <= w
  PROVE  /\ Distance(a, b) \in 0 .. w
         /\ Distance(a, b) * Distance(a, b) = (a - b) * (a - b)
         /\ Distance(a, b) * Distance(a, b) <= w * w
<1> DEFINE d == Distance(a, b)
<1>1. d \in 0 .. w /\ (d = a - b \/ d = b - a)
  BY DEF Distance
<1>2. d * d = (a - b) * (a - b)
  <2>1. CASE d = a - b
    BY <2>1
  <2>2. CASE d = b - a
    <3>1. (b - a) * (b - a) = (a - b) * (a - b)
      OBVIOUS
    <3> QED BY <2>2, <3>1
  <2> QED BY <1>1, <2>1, <2>2
<1> HIDE DEF d
<1>3. d * d <= w * w
  BY <1>1
<1> QED BY <1>1, <1>2, <1>3 DEF d

\* The cost between two points of a map whose squares fit is the root of the sum of squares.
LEMMA CostIs ==
  ASSUME SquaresFit, NEW p \in Pixels, NEW q \in Pixels
  PROVE  IsRoot(Cost(p, q), Square(p, q)) /\ Square(p, q) \in Nat /\ Square(p, q) <= MAX_INT
<1> DEFINE w == (Width - 2) * TILE_SCALE
           h == (Height - 2) * TILE_SCALE
           dx == Distance(p[1], q[1])
           dy == Distance(p[2], q[2])
           square == dx * dx + dy * dy
<1>1. /\ p[1] \in Int /\ p[2] \in Int /\ q[1] \in Int /\ q[2] \in Int
      /\ w \in Nat /\ h \in Nat
      /\ p[1] - q[1] <= w /\ q[1] - p[1] <= w /\ p[2] - q[2] <= h /\ q[2] - p[2] <= h
  BY SizeAssumption DEF Pixels, TILE_SCALE
<1>2. w * w + h * h <= MAX_INT
  BY DEF SquaresFit
<1> HIDE DEF w, h
<1>3. /\ dx \in Nat /\ dx * dx = (p[1] - q[1]) * (p[1] - q[1]) /\ dx * dx <= w * w
      /\ dy \in Nat /\ dy * dy = (p[2] - q[2]) * (p[2] - q[2]) /\ dy * dy <= h * h
  <2>1. dx \in 0 .. w /\ dx * dx = (p[1] - q[1]) * (p[1] - q[1]) /\ dx * dx <= w * w
    BY ONLY <1>1, DistanceIs
  <2>2. dy \in 0 .. h /\ dy * dy = (p[2] - q[2]) * (p[2] - q[2]) /\ dy * dy <= h * h
    BY ONLY <1>1, DistanceIs
  <2> HIDE DEF dx, dy
  <2> QED BY ONLY <1>1, <2>1, <2>2
<1>4. Cost(p, q) = IF square > MAX_INT THEN Overflown(square)
                   ELSE IF dx = 0 \/ dy = 0 THEN Larger(dx, dy)
                   ELSE Root(Larger(dx, dy), Smaller(dx, dy))
  BY DEF Cost
<1>5. square = Square(p, q)
  BY <1>3 DEF Square
<1> HIDE DEF dx, dy
<1>6. square \in Nat /\ square <= MAX_INT /\ ~(square > MAX_INT)
  <2>1. w * w \in Nat /\ h * h \in Nat /\ dx * dx \in Nat /\ dy * dy \in Nat
    BY <1>1, <1>3
  <2> QED BY <1>2, <1>3, <2>1 DEF MAX_INT
<1>7. IsRoot(Cost(p, q), square)
  <2>1. CASE dx = 0
    <3>1. Cost(p, q) = dy /\ square = dy * dy
      BY <1>3, <1>4, <1>6, <2>1 DEF Larger
    <3>2. dy * dy < (dy + 1) * (dy + 1)
      BY <1>3
    <3> QED BY <1>3, <3>1, <3>2 DEF IsRoot
  <2>2. CASE dx # 0 /\ dy = 0
    <3>1. Cost(p, q) = dx /\ square = dx * dx
      BY <1>3, <1>4, <1>6, <2>2 DEF Larger
    <3>2. dx * dx < (dx + 1) * (dx + 1)
      BY <1>3
    <3> QED BY <1>3, <3>1, <3>2 DEF IsRoot
  <2>3. CASE dx # 0 /\ dy # 0
    <3>1. Cost(p, q) = Root(Larger(dx, dy), Smaller(dx, dy))
      BY <1>4, <1>6, <2>3
    <3>2. CASE dx > dy
      <4>1. Larger(dx, dy) = dx /\ Smaller(dx, dy) = dy
        BY <1>3, <3>2 DEF Larger, Smaller
      <4> QED BY <1>3, <2>3, <3>1, <4>1, RootIs
    <3>3. CASE ~(dx > dy)
      <4>1. Larger(dx, dy) = dy /\ Smaller(dx, dy) = dx
        BY <1>3, <3>3 DEF Larger, Smaller
      <4>2. dy * dy + dx * dx = square
        BY <1>3
      <4>3. dx \in Nat \ {0} /\ dy \in Nat \ {0}
        BY <1>3, <2>3
      <4>4. IsRoot(Root(dy, dx), dy * dy + dx * dx)
        BY <4>3, RootIs
      <4> QED BY <3>1, <4>1, <4>2, <4>4
    <3> QED BY <3>2, <3>3
  <2> QED BY <2>1, <2>2, <2>3
<1> QED BY <1>5, <1>6, <1>7

\* Two ways around are as long as each other, and a point is nowhere but where it is.
LEMMA CostSound ==
  ASSUME SquaresFit, NEW p \in Pixels, NEW q \in Pixels
  PROVE  /\ Cost(p, q) \in 0 .. MAX_COST
         /\ Cost(p, q) = Cost(q, p)
         /\ p # q => Cost(p, q) >= 1
<1> DEFINE c == Cost(p, q)
           d == Cost(q, p)
<1>1. IsRoot(c, Square(p, q)) /\ Square(p, q) \in Nat /\ Square(p, q) <= MAX_INT
  BY CostIs
<1>2. IsRoot(d, Square(q, p))
  BY CostIs
<1>3. p[1] \in Int /\ p[2] \in Int /\ q[1] \in Int /\ q[2] \in Int /\ p = <<p[1], p[2]>> /\ q = <<q[1], q[2]>>
  BY SizeAssumption DEF Pixels, TILE_SCALE
<1>4. Square(p, q) = Square(q, p)
  <2>1. /\ (p[1] - q[1]) * (p[1] - q[1]) = (q[1] - p[1]) * (q[1] - p[1])
        /\ (p[2] - q[2]) * (p[2] - q[2]) = (q[2] - p[2]) * (q[2] - p[2])
    BY <1>3
  <2> QED BY <2>1 DEF Square
<1> HIDE DEF c, d
<1>5. c = d
  <2>1. c <= d /\ d <= c
    BY <1>1, <1>2, <1>4, RootsOrdered
  <2> QED BY <1>1, <1>2, <2>1 DEF IsRoot
<1>6. c <= MAX_COST
  <2>1. c \in Nat /\ c * c <= MAX_INT
    BY <1>1 DEF IsRoot, MAX_INT
  <2>2. ASSUME 46341 <= c PROVE FALSE
    <3>1. 46341 * 46341 <= c * c
      BY <2>1, <2>2
    <3> QED BY <2>1, <3>1 DEF MAX_INT
  <2> QED BY <2>1, <2>2 DEF MAX_COST
<1>7. ASSUME p # q PROVE c >= 1
  <2> DEFINE x == p[1] - q[1]
             y == p[2] - q[2]
  <2>1. x \in Int /\ y \in Int /\ (x # 0 \/ y # 0) /\ Square(p, q) = x * x + y * y
    BY <1>3, <1>7 DEF Square
  <2> HIDE DEF x, y
  <2>2. x * x >= 0 /\ y * y >= 0 /\ (x # 0 => x * x >= 1) /\ (y # 0 => y * y >= 1)
    BY <2>1
  <2>3. Square(p, q) >= 1
    BY <2>1, <2>2
  <2>4. c # 0
    BY <1>1, <2>3 DEF IsRoot
  <2> QED BY <1>1, <2>4 DEF IsRoot
<1> QED BY <1>1, <1>5, <1>6, <1>7 DEF c, d, IsRoot

\* The scalar product of vectors that are shorter than a and b.
LEMMA ProductOfVectors ==
  ASSUME NEW x1 \in Int, NEW y1 \in Int, NEW x2 \in Int, NEW y2 \in Int, NEW a \in Nat, NEW b \in Nat,
         x1 * x1 + y1 * y1 < a * a, x2 * x2 + y2 * y2 < b * b
  PROVE  x1 * x2 + y1 * y2 <= a * b
<1> DEFINE s1 == x1 * x1 + y1 * y1
           s2 == x2 * x2 + y2 * y2
           dot == x1 * x2 + y1 * y2
           cross == x1 * y2 - x2 * y1
<1>0. s1 \in Nat /\ s2 \in Nat /\ dot \in Int /\ cross \in Int /\ a * a \in Nat /\ b * b \in Nat
  <2>1. x1 * x1 >= 0 /\ y1 * y1 >= 0 /\ x2 * x2 >= 0 /\ y2 * y2 >= 0
    OBVIOUS
  <2> QED BY <2>1
<1>1. dot * dot + cross * cross = s1 * s2
  OBVIOUS
<1>2. dot * dot <= (a * b) * (a * b)
  <2> HIDE DEF s1, s2, dot, cross
  <2>1. cross * cross >= 0
    BY <1>0
  <2>2. s1 * s2 <= (a * a) * s2 /\ (a * a) * s2 <= (a * a) * (b * b)
    BY <1>0 DEF s1, s2
  <2>3. (a * a) * (b * b) = (a * b) * (a * b)
    OBVIOUS
  <2> QED BY <1>0, <1>1, <2>1, <2>2, <2>3
<1> HIDE DEF dot
<1> DEFINE ab == a * b
<1>3. ab \in Nat
  OBVIOUS
<1>4. dot * dot <= ab * ab
  BY <1>2
<1> HIDE DEF ab
<1>5. ASSUME ab + 1 <= dot PROVE FALSE
  <2>1. (ab + 1) * (ab + 1) <= dot * dot
    BY <1>0, <1>3, <1>5
  <2> QED BY <1>0, <1>3, <1>4, <2>1
<1> QED BY <1>0, <1>3, <1>5 DEF ab, dot

\* Of vectors (x1, y1) and (x2, y2) shorter than a and b, the sum is shorter than a + b.
LEMMA SumOfVectors ==
  ASSUME NEW x1 \in Int, NEW y1 \in Int, NEW x2 \in Int, NEW y2 \in Int, NEW a \in Nat, NEW b \in Nat,
         x1 * x1 + y1 * y1 < a * a, x2 * x2 + y2 * y2 < b * b
  PROVE  (x1 + x2) * (x1 + x2) + (y1 + y2) * (y1 + y2) < (a + b) * (a + b)
<1> DEFINE s1 == x1 * x1 + y1 * y1
           s2 == x2 * x2 + y2 * y2
           dot == x1 * x2 + y1 * y2
<1>1. s1 \in Int /\ s2 \in Int /\ dot \in Int /\ a * a \in Int /\ b * b \in Int /\ a * b \in Int
  OBVIOUS
<1>2. dot <= a * b
  BY ProductOfVectors
<1>3. (x1 + x2) * (x1 + x2) + (y1 + y2) * (y1 + y2) = s1 + s2 + 2 * dot
  OBVIOUS
<1>4. (a + b) * (a + b) = a * a + b * b + 2 * (a * b)
  OBVIOUS
<1>5. s1 < a * a /\ s2 < b * b
  OBVIOUS
<1> HIDE DEF s1, s2, dot
<1> QED BY <1>1, <1>2, <1>3, <1>4, <1>5

\* The triangle inequality, of roots without their fractions.
LEMMA CostTriangle ==
  ASSUME SquaresFit, NEW p \in Pixels, NEW q \in Pixels, NEW r \in Pixels
  PROVE  Cost(p, q) <= Cost(p, r) + Cost(r, q) + 1
<1> DEFINE c == Cost(p, q)
           a == Cost(p, r)
           b == Cost(r, q)
<1>1. IsRoot(c, Square(p, q)) /\ IsRoot(a, Square(p, r)) /\ IsRoot(b, Square(r, q))
  BY CostIs
<1> HIDE DEF a, b, c
<1>2. p[1] \in Int /\ p[2] \in Int /\ q[1] \in Int /\ q[2] \in Int /\ r[1] \in Int /\ r[2] \in Int
  BY SizeAssumption DEF Pixels, TILE_SCALE
<1>3. a \in Nat /\ b \in Nat /\ c \in Nat /\ c * c <= Square(p, q)
      /\ Square(p, r) < (a + 1) * (a + 1) /\ Square(r, q) < (b + 1) * (b + 1)
  BY <1>1 DEF IsRoot
<1> DEFINE x1 == p[1] - r[1]
           y1 == p[2] - r[2]
           x2 == r[1] - q[1]
           y2 == r[2] - q[2]
<1>4. x1 \in Int /\ y1 \in Int /\ x2 \in Int /\ y2 \in Int
  BY <1>2
<1>5. Square(p, r) = x1 * x1 + y1 * y1 /\ Square(r, q) = x2 * x2 + y2 * y2
  BY DEF Square
<1>6. Square(p, q) = (x1 + x2) * (x1 + x2) + (y1 + y2) * (y1 + y2)
  <2>1. x1 + x2 = p[1] - q[1] /\ y1 + y2 = p[2] - q[2]
    BY <1>2
  <2> QED BY <2>1 DEF Square
<1> HIDE DEF x1, x2, y1, y2
<1>7. x1 * x1 + y1 * y1 < (a + 1) * (a + 1) /\ x2 * x2 + y2 * y2 < (b + 1) * (b + 1)
  BY <1>3, <1>4, <1>5
<1>8. (x1 + x2) * (x1 + x2) + (y1 + y2) * (y1 + y2) < ((a + 1) + (b + 1)) * ((a + 1) + (b + 1))
  <2>1. a + 1 \in Nat /\ b + 1 \in Nat
    BY <1>3
  <2> QED BY ONLY <1>4, <1>7, <2>1, SumOfVectors
<1>9. c * c < (a + b + 2) * (a + b + 2)
  <2>1. (a + 1) + (b + 1) = a + b + 2
    BY <1>3
  <2>2. Square(p, q) < (a + b + 2) * (a + b + 2)
    BY ONLY <1>6, <1>8, <2>1
  <2>3. (a + b + 2) * (a + b + 2) \in Int /\ c * c \in Int /\ Square(p, q) \in Int
    BY <1>3, <1>4, <1>6
  <2> HIDE DEF Square
  <2> QED BY ONLY <1>3, <2>2, <2>3
<1>10. c <= a + b + 1
  <2>1. ASSUME a + b + 2 <= c PROVE FALSE
    <3>1. (a + b + 2) * (a + b + 2) <= c * c
      BY <1>3, <2>1
    <3> QED BY <1>3, <1>9, <3>1
  <2> QED BY <1>3, <2>1
<1> QED BY <1>3, <1>10 DEF a, b, c

\* A root is not less than a leg.
LEMMA RootAbove ==
  ASSUME NEW i \in Int, NEW n \in Int, NEW r, IsRoot(r, n), i * i <= n
  PROVE  i <= r /\ -i <= r
<1>1. r \in Nat /\ n < (r + 1) * (r + 1)
  BY DEF IsRoot
<1>2. i * i < (r + 1) * (r + 1)
  <2>1. i * i \in Int /\ (r + 1) * (r + 1) \in Int
    BY <1>1
  <2> QED BY <1>1, <2>1
<1>3. ASSUME NEW k \in Int, k * k = i * i, r + 1 <= k PROVE FALSE
  <2>1. (r + 1) * (r + 1) <= k * k
    BY <1>1, <1>3
  <2> QED BY <1>1, <1>2, <1>3, <2>1
<1>4. (-i) * (-i) = i * i
  OBVIOUS
<1> QED BY <1>1, <1>3, <1>4

\* Over a point on a line on one side of which both ends are, not too near to it, the way is
\* longer by what is cut off from the roots.
LEMMA DetourIsLonger ==
  ASSUME NEW i \in Int, NEW j \in Int, NEW a \in Int, NEW b \in Int, NEW A, NEW B, NEW C,
         127 <= a, 127 <= b, C <= MAX_COST,
         IsRoot(A, i * i + a * a), IsRoot(B, j * j + b * b), IsRoot(C, (i + j) * (i + j) + (a - b) * (a - b))
  PROVE  C <= A + B
<1>1. A \in Nat /\ i * i + a * a < (A + 1) * (A + 1) /\ B \in Nat /\ j * j + b * b < (B + 1) * (B + 1)
      /\ C \in Nat /\ C * C <= (i + j) * (i + j) + (a - b) * (a - b)
  BY DEF IsRoot
<1>2. i <= A /\ -i <= A /\ j <= B /\ -j <= B
  <2> DEFINE n == i * i + a * a
             k == j * j + b * b
  <2>1. n \in Int /\ k \in Int /\ i * i <= n /\ j * j <= k
    <3>1. a * a >= 0 /\ b * b >= 0 /\ i * i \in Int /\ j * j \in Int /\ a * a \in Int /\ b * b \in Int
      OBVIOUS
    <3> QED BY <3>1
  <2> HIDE DEF n, k
  <2> QED BY <2>1, RootAbove DEF n, k
<1> SUFFICES ASSUME A + B + 1 <= C PROVE FALSE
  BY <1>1
<1> DEFINE M == A + 1
           N == B + 1
           ab == a * b
           ij == i * j
           mn == M * N
<1>3. ij + ab <= mn
  <2>1. M \in Nat /\ N \in Nat /\ i * i + a * a < M * M /\ j * j + b * b < N * N
    BY <1>1
  <2> HIDE DEF M, N
  <2> QED BY ONLY i \in Int, j \in Int, a \in Int, b \in Int, <2>1, ProductOfVectors
<1>4. 4 * ab <= 2 * (A + B)
  <2>1. (M + N - 1) * (M + N - 1) <= C * C
    BY <1>1
  <2>2. (M + N - 1) * (M + N - 1) = M * M + N * N + 2 * mn - 2 * (A + B) - 3
    BY <1>1
  <2>3. (i + j) * (i + j) + (a - b) * (a - b) = (i * i + a * a) + (j * j + b * b) + 2 * ij - 2 * ab
    OBVIOUS
  <2>4. (i * i + a * a) + 1 <= M * M /\ (j * j + b * b) + 1 <= N * N
    BY <1>1
  <2>5. M * M \in Int /\ N * N \in Int /\ mn \in Int /\ ij \in Int /\ ab \in Int /\ i * i + a * a \in Int
        /\ j * j + b * b \in Int /\ C * C \in Int
    BY <1>1
  <2> HIDE DEF M, N, ab, ij, mn
  <2> QED BY <1>1, <1>3, <2>1, <2>2, <2>3, <2>4, <2>5
<1>5. ab <= 23169
  <2>1. ab \in Int
    OBVIOUS
  <2> HIDE DEF ab
  <2> QED BY <1>1, <1>4, <2>1 DEF MAX_COST
<1>6. a <= 182 /\ b <= 182
  <2>1. ASSUME NEW u \in Int, NEW v \in Int, 127 <= u, 183 <= v PROVE 23241 <= u * v
    <3>1. 127 * 183 <= u * 183 /\ u * 183 <= u * v
      BY <2>1
    <3> QED BY <2>1, <3>1
  <2>2. ab = b * a
    OBVIOUS
  <2>3. ab \in Int
    OBVIOUS
  <2> HIDE DEF ab
  <2>4. ASSUME 183 <= a PROVE FALSE
    BY <1>5, <2>1, <2>2, <2>3, <2>4
  <2>5. ASSUME 183 <= b PROVE FALSE
    <3>1. ab = a * b
      BY DEF ab
    <3> QED BY <1>5, <2>1, <2>3, <2>5, <3>1
  <2> QED BY <2>4, <2>5
<1>7. 16129 <= ab
  <2>1. 127 * 127 <= 127 * b /\ 127 * b <= a * b
    OBVIOUS
  <2> QED BY <2>1
<1>8. 32259 <= C
  <2>1. ab \in Int
    OBVIOUS
  <2> HIDE DEF ab
  <2> QED BY <1>1, <1>4, <1>7, <2>1
<1> DEFINE d == i + j
<1>9. d + 1 <= C /\ -d + 1 <= C
  BY <1>1, <1>2
<1>10. (a - b) * (a - b) <= 55 * 55
  <2> DEFINE n == a - b
  <2>1. n \in Int /\ n <= 55 /\ -55 <= n
    BY <1>6
  <2> HIDE DEF n
  <2>2. n * n <= 55 * 55
    BY <2>1
  <2> QED BY <2>2 DEF n
<1>11. d * d <= (C - 1) * (C - 1)
  <2>1. d \in Int
    OBVIOUS
  <2> HIDE DEF d
  <2>2. CASE d >= 0
    BY <1>1, <1>9, <2>1, <2>2
  <2>3. CASE d < 0
    <3>1. (-d) * (-d) = d * d
      BY <2>1
    <3>2. (-d) * (-d) <= (C - 1) * (C - 1)
      BY <1>1, <1>9, <2>1, <2>3
    <3> QED BY <3>1, <3>2
  <2> QED BY <2>1, <2>2, <2>3
<1>12. C * C <= d * d + 55 * 55
  <2>1. d * d \in Int /\ (a - b) * (a - b) \in Int /\ C * C \in Int
    BY <1>1
  <2> QED BY <1>1, <1>10, <2>1
<1>13. (C - 1) * (C - 1) = C * C - 2 * C + 1
  BY <1>1
<1>14. C * C \in Int /\ d * d \in Int /\ (C - 1) * (C - 1) \in Int
  BY <1>1
<1> HIDE DEF d
<1> QED BY <1>1, <1>8, <1>11, <1>12, <1>13, <1>14

\* A leg along an axis has nothing cut off.
LEMMA AlongAxis ==
  ASSUME NEW i \in Int, NEW j \in Int, NEW b \in Int, NEW A, NEW B, NEW C,
         IsRoot(A, i * i), IsRoot(B, j * j + b * b), IsRoot(C, (i + j) * (i + j) + b * b)
  PROVE  C <= A + B
<1>1. A \in Nat /\ B \in Nat /\ C \in Nat /\ j * j + b * b < (B + 1) * (B + 1)
      /\ C * C <= (i + j) * (i + j) + b * b
  BY DEF IsRoot
<1>2. i <= A /\ -i <= A
  <2> DEFINE n == i * i
  <2>1. n \in Int /\ i * i <= n /\ IsRoot(A, n)
    OBVIOUS
  <2> HIDE DEF n
  <2> QED BY <2>1, RootAbove
<1>3. j <= B /\ -j <= B
  <2> DEFINE k == j * j + b * b
  <2>1. k \in Int /\ j * j <= k /\ IsRoot(B, k)
    <3>1. b * b >= 0 /\ j * j \in Int /\ b * b \in Int
      OBVIOUS
    <3> QED BY <3>1
  <2> HIDE DEF k
  <2> QED BY <2>1, RootAbove
<1> SUFFICES ASSUME A + B + 1 <= C PROVE FALSE
  BY <1>1
<1> DEFINE n == IF i >= 0 THEN i ELSE -i
<1>4. n \in Nat /\ n <= A /\ (n = i \/ n = -i) /\ n * n = i * i
  <2>1. (-i) * (-i) = i * i
    OBVIOUS
  <2> QED BY <1>1, <1>2, <2>1
<1>5. i * j <= n * B
  <2>1. CASE n = i
    BY <1>1, <1>3, <1>4, <2>1
  <2>2. CASE n = -i
    <3>1. i * j = n * (-j)
      BY <1>4, <2>2
    <3>2. n * (-j) <= n * B
      BY <1>1, <1>3, <1>4
    <3> QED BY <3>1, <3>2
  <2> QED BY <1>4, <2>1, <2>2
<1>6. (i + j) * (i + j) + b * b = n * n + (j * j + b * b) + 2 * (i * j)
  BY <1>4
<1> HIDE DEF n
<1>7. (n + B + 1) * (n + B + 1) <= C * C
  <2> DEFINE k == n + B + 1
  <2>1. k \in Nat /\ k <= C
    BY <1>1, <1>4
  <2> HIDE DEF k
  <2>2. k * k <= k * C /\ k * C <= C * C /\ k * k \in Int /\ k * C \in Int /\ C * C \in Int
    BY ONLY <1>1, <2>1
  <2>3. k * k <= C * C
    BY ONLY <2>2
  <2> QED BY <2>3 DEF k
<1>8. (n + B + 1) * (n + B + 1) = n * n + (B + 1) * (B + 1) + 2 * (n * B) + 2 * n
  BY <1>1, <1>4
<1>9. n * n \in Int /\ j * j + b * b \in Int /\ i * j \in Int /\ n * B \in Int /\ (B + 1) * (B + 1) \in Int /\ C * C \in Int
  BY <1>1, <1>4
<1> QED BY <1>1, <1>4, <1>5, <1>6, <1>7, <1>8, <1>9

\* The same over q, where p and r are on the line x = qx, or on one side of it.
LEMMA OverSide ==
  ASSUME NEW qx \in Int, NEW qy \in Int, NEW px \in Int, NEW py \in Int, NEW rx \in Int, NEW ry \in Int,
         NEW A, NEW B, NEW C, C <= MAX_COST,
         IsRoot(A, (px - qx) * (px - qx) + (py - qy) * (py - qy)),
         IsRoot(B, (qx - rx) * (qx - rx) + (qy - ry) * (qy - ry)),
         IsRoot(C, (px - rx) * (px - rx) + (py - ry) * (py - ry)),
         \/ px = qx \/ rx = qx
         \/ px <= qx - 127 /\ rx <= qx - 127
         \/ px >= qx + 127 /\ rx >= qx + 127
  PROVE  C <= A + B
<1> DEFINE i == py - qy
           j == qy - ry
           a == px - qx
           b == rx - qx
<1>1. i \in Int /\ j \in Int /\ a \in Int /\ b \in Int
  OBVIOUS
<1>2. /\ (py - qy) * (py - qy) = i * i /\ (qy - ry) * (qy - ry) = j * j
      /\ (py - ry) * (py - ry) = (i + j) * (i + j)
  OBVIOUS
<1>3. (px - qx) * (px - qx) = a * a /\ (qx - rx) * (qx - rx) = b * b /\ (px - rx) * (px - rx) = (a - b) * (a - b)
  OBVIOUS
<1>4. (-a) * (-a) = a * a /\ (-b) * (-b) = b * b /\ (-a - (-b)) * (-a - (-b)) = (a - b) * (a - b) 
      /\ -a \in Int /\ -b \in Int
  OBVIOUS
<1>5. a = 0 \/ b = 0 \/ (127 <= a /\ 127 <= b) \/ (127 <= -a /\ 127 <= -b)
  OBVIOUS
<1>6. i * i \in Int /\ j * j \in Int /\ (i + j) * (i + j) \in Int /\ a * a \in Int /\ b * b \in Int /\ (a - b) * (a - b) \in Int
  OBVIOUS
<1>7. /\ IsRoot(A, a * a + i * i) /\ IsRoot(B, b * b + j * j)
      /\ IsRoot(C, (a - b) * (a - b) + (i + j) * (i + j))
  BY <1>2, <1>3
<1>8. /\ IsRoot(A, i * i + a * a) /\ IsRoot(B, j * j + b * b)
      /\ IsRoot(C, (i + j) * (i + j) + (a - b) * (a - b))
  <2>1. /\ a * a + i * i = i * i + a * a /\ b * b + j * j = j * j + b * b
        /\ (a - b) * (a - b) + (i + j) * (i + j) = (i + j) * (i + j) + (a - b) * (a - b)
    BY <1>6
  <2> HIDE DEF i, j, a, b
  <2> QED BY <1>7, <2>1
<1> HIDE DEF i, j, a, b
<1>9. CASE 127 <= a /\ 127 <= b
  BY <1>1, <1>8, <1>9, DetourIsLonger
<1>10. CASE 127 <= -a /\ 127 <= -b
  <2> DEFINE n == -a
             k == -b
  <2>1. IsRoot(A, i * i + n * n) /\ IsRoot(B, j * j + k * k) /\ IsRoot(C, (i + j) * (i + j) + (n - k) * (n - k))
    BY <1>4, <1>8
  <2>2. n \in Int /\ k \in Int /\ 127 <= n /\ 127 <= k
    BY <1>4, <1>10
  <2> HIDE DEF n, k
  <2> QED BY <1>1, <2>1, <2>2, DetourIsLonger
<1>11. CASE a = 0
  <2>1. i * i + a * a = i * i /\ (a - b) * (a - b) = b * b
    BY <1>1, <1>11
  <2>2. IsRoot(A, i * i) /\ IsRoot(C, (i + j) * (i + j) + b * b)
    BY <1>8, <2>1
  <2> QED BY <1>1, <1>8, <2>2, AlongAxis
<1>12. CASE b = 0
  <2>1. j * j + b * b = j * j /\ (a - b) * (a - b) = a * a /\ (i + j) * (i + j) = (j + i) * (j + i)
    BY <1>1, <1>12
  <2>2. IsRoot(B, j * j) /\ IsRoot(C, (j + i) * (j + i) + a * a)
    BY <1>8, <2>1
  <2>3. C <= B + A
    BY <1>1, <1>8, <2>2, AlongAxis
  <2>4. A \in Nat /\ B \in Nat
    BY <1>8 DEF IsRoot
  <2> QED BY <2>3, <2>4
<1> QED BY <1>5, <1>9, <1>10, <1>11, <1>12

\* Sequences as functions, which the provers reason about.
LEMMA SeqIs == ASSUME NEW E, NEW n \in Nat, NEW set \in [1 .. n -> E]
               PROVE  set \in Seq(E) /\ Len(set) = n /\ DOMAIN set = 1 .. n
OBVIOUS

LEMMA SeqOf == ASSUME NEW E, NEW set \in Seq(E)
               PROVE  Len(set) \in Nat /\ set \in [1 .. Len(set) -> E] /\ DOMAIN set = 1 .. Len(set)
OBVIOUS

LEMMA EmptyIs == ASSUME NEW E, NEW set \in [1 .. 0 -> E] PROVE set = <<>>
OBVIOUS

LEMMA SubSeqIs ==
  ASSUME NEW E, NEW n \in Nat, NEW set \in [1 .. n + 1 -> E]
  PROVE  /\ SubSeq(set, 1, n) \in [1 .. n -> E] 
         /\ \A i \in 1 .. n : SubSeq(set, 1, n)[i] = set[i]
<1>1. set \in Seq(E) /\ Len(set) = n + 1
  BY SeqIs
<1>2. SubSeq(set, 1, n) \in Seq(E) /\ Len(SubSeq(set, 1, n)) = n
  BY <1>1
<1>3. SubSeq(set, 1, n) \in [1 .. n -> E]
  BY <1>2, SeqOf
<1>4. \A i \in 1 .. n : SubSeq(set, 1, n)[i] = set[i]
  BY <1>1
<1> QED BY <1>3, <1>4
-----------------------------------------------------------------------------
(* The open set *)

\* An array of n entries, which are those in C, no two of one portal.
Holds(set, n, E, C) ==
  /\ n \in Nat /\ set \in [1 .. n -> E] /\ (\A x \in E : x.cost \in Int)
  /\ {set[i] : i \in 1 .. n} = C
  /\ \A i, j \in 1 .. n : set[i].portal = set[j].portal => i = j

\* A heap, and one but for an element that may be too cheap, or too expensive, for its place.
CheapestFirst(set, n) == \A k \in 2 .. n : set[k \div 2].cost <= set[k].cost

Rising(set, n, i) ==
  /\ i \in 1 .. n
  /\ \A k \in 2 .. n : /\ k # i => set[k \div 2].cost <= set[k].cost
                       /\ k \div 2 = i /\ i > 1 => set[i \div 2].cost <= set[k].cost

Sinking(set, n, i) ==
  /\ i \in 1 .. n
  /\ \A k \in 2 .. n : /\ k \div 2 # i => set[k \div 2].cost <= set[k].cost
                       /\ k \div 2 = i /\ i > 1 => set[i \div 2].cost <= set[k].cost

\* Nothing is lost or doubled by a swap.
LEMMA SwappedHolds ==
  ASSUME NEW set, NEW n, NEW E, NEW C, Holds(set, n, E, C), NEW i \in 1 .. n, NEW j \in 1 .. n
  PROVE  LET t == Swapped(set, i, j) IN
         /\ Holds(t, n, E, C)
         /\ t[i] = set[j] /\ t[j] = set[i] /\ \A k \in 1 .. n : k # i /\ k # j => t[k] = set[k]
<1> DEFINE t == Swapped(set, i, j)
<1>1. n \in Nat /\ set \in [1 .. n -> E] /\ \A x \in E : x.cost \in Int
  BY DEF Holds
<1>2. t \in [1 .. n -> E]
  BY <1>1 DEF Swapped
<1>3. t[i] = set[j] /\ t[j] = set[i] /\ \A k \in 1 .. n : k # i /\ k # j => t[k] = set[k]
  BY <1>1 DEF Swapped
<1> HIDE DEF t
<1>4. {t[k] : k \in 1 .. n} = {set[k] : k \in 1 .. n}
  BY <1>3
<1>5. \A k, l \in 1 .. n : t[k].portal = t[l].portal => k = l
  <2>1. \A k, l \in 1 .. n : set[k].portal = set[l].portal => k = l
    BY DEF Holds
  <2> QED BY <1>3, <2>1
<1>6. Holds(t, n, E, C)
  BY <1>1, <1>2, <1>4, <1>5 DEF Holds
<1> QED BY <1>3, <1>6 DEF t

\* A turn of moveup leaves a heap but for the element that is moved, one level higher.
LEMMA MovedUpKeeps ==
  ASSUME NEW n, NEW E, NEW C, NEW h, Holds(h.set, n, E, C), Rising(h.set, n, h.at)
  PROVE  LET g == MovedUp(h) IN
         /\ Holds(g.set, n, E, C) /\ Rising(g.set, n, g.at)
         /\ CheapestFirst(g.set, n) \/ (~CheapestFirst(h.set, n) /\ g.at < h.at)
<1> DEFINE set == h.set
           i == h.at
           l == i \div 2
           g == MovedUp(h)
<1>1. n \in Nat /\ \A k \in 1 .. n : set[k].cost \in Int
  BY DEF Holds
<1>2. /\ i \in 1 .. n
      /\ \A k \in 2 .. n : /\ k # i => set[k \div 2].cost <= set[k].cost
                           /\ k \div 2 = i /\ i > 1 => set[i \div 2].cost <= set[k].cost
  BY DEF Rising
<1>3. g = IF i = 1 \/ set[i].cost >= set[l].cost THEN h ELSE [set |-> Swapped(set, i, l), at |-> l]
  BY DEF MovedUp
<1>0. set = h.set /\ i = h.at /\ g = MovedUp(h)
  OBVIOUS
<1> HIDE DEF g, set, i
<1> SUFFICES /\ Holds(g.set, n, E, C) /\ Rising(g.set, n, g.at)
             /\ CheapestFirst(g.set, n) \/ (~CheapestFirst(set, n) /\ g.at < i)
  BY <1>0
<1>4. CASE i = 1 \/ set[i].cost >= set[l].cost
  <2>1. g = h
    BY <1>3, <1>4
  <2>2. CheapestFirst(set, n)
    <3>1. i # 1 => l \in 1 .. n
      BY <1>1, <1>2
    <3>2. ASSUME NEW k \in 2 .. n PROVE set[k \div 2].cost <= set[k].cost
      <4>1. CASE k = i
        <5>1. i # 1 /\ i \in 1 .. n
          BY <1>1, <4>1
        <5> QED BY <1>1, <1>4, <3>1, <4>1, <5>1
      <4>2. CASE k # i
        BY <1>2, <4>2
      <4> QED BY <4>1, <4>2
    <3> QED BY <3>2 DEF CheapestFirst
  <2> QED BY <1>0, <2>1, <2>2
<1>5. CASE ~(i = 1 \/ set[i].cost >= set[l].cost)
  <2> DEFINE t == Swapped(set, i, l)
  <2>0. Holds(set, n, E, C)
    BY <1>0
  <2>1. l \in 1 .. n /\ i \in 2 .. n /\ l < i /\ set[i].cost < set[l].cost
    BY <1>1, <1>2, <1>5
  <2>2. g.set = t /\ g.at = l
    BY <1>3, <1>5
  <2>3. /\ Holds(t, n, E, C)
        /\ t[i] = set[l] /\ t[l] = set[i] /\ \A k \in 1 .. n : k # i /\ k # l => t[k] = set[k]
    <3>1. i \in 1 .. n /\ l \in 1 .. n
      BY <1>2, <2>1
    <3> HIDE DEF l
    <3> QED BY ONLY <2>0, <3>1, SwappedHolds DEF t
  <2> HIDE DEF t
  <2>4. ASSUME NEW k \in 2 .. n
        PROVE  /\ k # l => t[k \div 2].cost <= t[k].cost
               /\ k \div 2 = l /\ l > 1 => t[l \div 2].cost <= t[k].cost
    <3>1. /\ k \in 1 .. n /\ k \div 2 \in 1 .. n /\ k \div 2 < k
          /\ l > 1 => l \in 2 .. n /\ l \div 2 \in 1 .. n /\ l \div 2 < l
      BY <1>1, <2>1
    <3>2. k # l => t[k \div 2].cost <= t[k].cost
      <4>1. CASE k = i
        BY <1>1, <2>1, <2>3, <4>1
      <4>2. CASE k # i /\ k \div 2 = i
        <5>1. k # l /\ t[k] = set[k] /\ set[l].cost <= set[k].cost
          BY <1>1, <1>2, <2>1, <2>3, <3>1, <4>2
        <5> QED BY <2>3, <4>2, <5>1
      <4>3. CASE k # i /\ k \div 2 = l /\ k # l
        <5>1. t[k] = set[k] /\ set[l].cost <= set[k].cost
          BY <1>2, <2>3, <3>1, <4>3
        <5> QED BY <1>1, <2>1, <2>3, <3>1, <4>3, <5>1
      <4>4. CASE k # i /\ k \div 2 # i /\ k \div 2 # l /\ k # l
        BY <1>2, <2>3, <3>1, <4>4
      <4> QED BY <4>1, <4>2, <4>3, <4>4
    <3>3. ASSUME k \div 2 = l, l > 1 PROVE t[l \div 2].cost <= t[k].cost
      <4>1. l \div 2 # i /\ l \div 2 # l /\ t[l \div 2] = set[l \div 2] /\ set[l \div 2].cost <= set[l].cost /\ l # i
        BY <1>2, <2>1, <2>3, <3>1, <3>3
      <4>2. CASE k = i
        BY <2>3, <4>1, <4>2
      <4>3. CASE k # i
        <5>1. k # l /\ t[k] = set[k] /\ set[l].cost <= set[k].cost
          BY <1>2, <2>3, <3>1, <3>3, <4>3
        <5>2. set[l].cost \in Int /\ set[k].cost \in Int /\ set[l \div 2].cost \in Int
          BY <1>1, <2>1, <3>1, <3>3
        <5> QED BY <4>1, <5>1, <5>2
      <4> QED BY <4>2, <4>3
    <3> QED BY <3>2, <3>3
  <2>5. Rising(t, n, l)
    BY <2>1, <2>4 DEF Rising
  <2>6. ~CheapestFirst(set, n)
    BY <1>1, <2>1 DEF CheapestFirst
  <2> QED BY ONLY <2>1, <2>2, <2>3, <2>5, <2>6
<1> QED BY <1>4, <1>5

\* The function that MoveUp defines.
IsMovingUp(set, i, n, w) ==
  w = [k \in 0 .. n |-> IF k = 0 THEN [set |-> set, at |-> i] ELSE MovedUp(w[k - 1])]

\* The function in the definition of MoveUp exists: by induction over the turns.
LEMMA MovingUpExists ==
  ASSUME NEW set, NEW i, NEW n \in Nat
  PROVE  \E w : IsMovingUp(set, i, n, w)
<1> DEFINE Bad == {k \in Nat : ~ \E w : IsMovingUp(set, i, k, w)}
<1> SUFFICES ASSUME Bad # {} PROVE FALSE
  OBVIOUS
<1>1. PICK b \in Bad : \A k \in Bad : b <= k
  BY LeastOf
<1>2. b \in Nat /\ ~ \E w : IsMovingUp(set, i, b, w)
  OBVIOUS
<1>3. CASE b = 0
  <2> DEFINE w == [k \in 0 .. 0 |-> [set |-> set, at |-> i]]
  <2>1. IsMovingUp(set, i, 0, w)
    BY DEF IsMovingUp
  <2> QED BY <1>2, <1>3, <2>1
<1>4. CASE b # 0
  <2>1. b - 1 \in Nat /\ b - 1 \notin Bad
    BY <1>1, <1>2, <1>4
  <2>2. PICK w : IsMovingUp(set, i, b - 1, w)
    BY <2>1
  <2> DEFINE v == [k \in 0 .. b |-> IF k = b THEN MovedUp(w[b - 1]) ELSE w[k]]
  <2>3. ASSUME NEW k \in 0 .. b PROVE v[k] = IF k = 0 THEN [set |-> set, at |-> i] ELSE MovedUp(v[k - 1])
    <3>1. CASE k = b
      BY <1>2, <1>4, <3>1
    <3>2. CASE k # b
      <4>1. k \in 0 .. b - 1 /\ (k # 0 => k - 1 \in 0 .. b /\ k - 1 # b)
        BY <1>2, <3>2
      <4>2. w[k] = IF k = 0 THEN [set |-> set, at |-> i] ELSE MovedUp(w[k - 1])
        BY <2>2, <4>1 DEF IsMovingUp
      <4> QED BY <3>2, <4>1, <4>2
    <3> QED BY <3>1, <3>2
  <2>4. v = [k \in 0 .. b |-> v[k]]
    OBVIOUS
  <2> HIDE DEF v
  <2>5. IsMovingUp(set, i, b, v)
    BY <2>3, <2>4 DEF IsMovingUp
  <2> QED BY <1>2, <2>5
<1> QED BY <1>3, <1>4

\* After moveup the element is in its place.
LEMMA MoveUpKeeps ==
  ASSUME NEW set, NEW n, NEW E, NEW C, NEW i, Holds(set, n, E, C), Rising(set, n, i)
  PROVE  Holds(MoveUp(set, i), n, E, C) /\ CheapestFirst(MoveUp(set, i), n)
<1>1. n \in Nat /\ i \in 1 .. n /\ i \in Nat
  BY DEF Holds, Rising
<1> DEFINE w == CHOOSE v : IsMovingUp(set, i, i, v)
<1>2. MoveUp(set, i) = w[i].set
  BY DEF MoveUp, IsMovingUp
<1>3. IsMovingUp(set, i, i, w)
  BY <1>1, MovingUpExists
<1> HIDE DEF w
<1>4. \A k \in 0 .. i : w[k] = IF k = 0 THEN [set |-> set, at |-> i] ELSE MovedUp(w[k - 1])
  BY <1>3 DEF IsMovingUp
<1> DEFINE Good(k) == /\ Holds(w[k].set, n, E, C) /\ Rising(w[k].set, n, w[k].at)
                      /\ CheapestFirst(w[k].set, n) \/ w[k].at + k <= i
           Bad == {k \in 0 .. i : ~Good(k)}
<1>5. Good(0)
  BY <1>1, <1>4
<1>6. ASSUME NEW k \in 1 .. i, Good(k - 1) PROVE Good(k)
  <2>1. w[k] = MovedUp(w[k - 1]) /\ k \in Int
    BY <1>1, <1>4
  <2>2. /\ Holds(w[k].set, n, E, C) /\ Rising(w[k].set, n, w[k].at)
        /\ CheapestFirst(w[k].set, n) \/ (~CheapestFirst(w[k - 1].set, n) /\ w[k].at < w[k - 1].at)
    BY <1>6, <2>1, MovedUpKeeps
  <2>3. w[k].at \in Int /\ w[k - 1].at \in Int
    BY <1>1, <1>6, <2>2 DEF Rising
  <2> QED BY <1>1, <1>6, <2>1, <2>2, <2>3
<1>7. Good(i)
  <2> SUFFICES ASSUME Bad # {} PROVE FALSE
    BY <1>1
  <2>1. PICK k \in Bad : \A l \in Bad : k <= l
    <3>1. Bad \subseteq Nat
      BY <1>1
    <3> QED BY <3>1, LeastOf
  <2>2. k # 0 /\ k \in 1 .. i /\ k - 1 \in 0 .. i /\ ~(k <= k - 1)
    BY <1>1, <1>5, <2>1
  <2>3. k - 1 \notin Bad
    BY <2>1, <2>2
  <2> QED BY <1>6, <2>1, <2>2, <2>3
<1>8. CheapestFirst(w[i].set, n)
  BY <1>1, <1>7 DEF Rising
<1> QED BY <1>2, <1>7, <1>8

\* A turn of the loop of shift, likewise.
LEMMA MovedDownKeeps ==
  ASSUME NEW n, NEW E, NEW C, NEW h, Holds(h.set, n, E, C), Sinking(h.set, n, h.at)
  PROVE  LET g == MovedDown(h) IN
         /\ Holds(g.set, n, E, C) /\ Sinking(g.set, n, g.at)
         /\ CheapestFirst(g.set, n) \/ (~CheapestFirst(h.set, n) /\ g.at > h.at)
<1> DEFINE set == h.set
           i == h.at
           c == Child(set, i)
           g == MovedDown(h)
<1>1. n \in Nat /\ (\A k \in 1 .. n : set[k].cost \in Int) /\ set \in [1 .. n -> E]
  BY DEF Holds
<1>2. /\ i \in 1 .. n
      /\ \A k \in 2 .. n : /\ k \div 2 # i => set[k \div 2].cost <= set[k].cost
                           /\ k \div 2 = i /\ i > 1 => set[i \div 2].cost <= set[k].cost
  BY DEF Sinking
<1>3. Len(set) = n
  BY <1>1, SeqIs
<1>4. g = IF i > n \div 2 \/ set[i].cost <= set[c].cost THEN h ELSE [set |-> Swapped(set, i, c), at |-> c]
  BY <1>3 DEF MovedDown
<1>5. c = IF 2 * i < n /\ set[2 * i].cost >= set[2 * i + 1].cost THEN 2 * i + 1 ELSE 2 * i
  BY <1>3 DEF Child
<1>0. set = h.set /\ i = h.at /\ g = MovedDown(h)
  OBVIOUS
<1> HIDE DEF g, set, i, c
<1> SUFFICES /\ Holds(g.set, n, E, C) /\ Sinking(g.set, n, g.at)
             /\ CheapestFirst(g.set, n) \/ (~CheapestFirst(set, n) /\ g.at > i)
  BY <1>0
<1>6. ASSUME i <= n \div 2
      PROVE  c \in 2 .. n /\ c \div 2 = i /\ i < c /\ \A k \in 2 .. n : k \div 2 = i => set[c].cost <= set[k].cost
  <2>1. 2 * i \in 2 .. n /\ (2 * i < n => 2 * i + 1 \in 2 .. n)
    BY <1>1, <1>2, <1>6
  <2>2. (2 * i) \div 2 = i /\ (2 * i + 1) \div 2 = i
    BY <1>1, <1>2
  <2>3. ASSUME NEW k \in 2 .. n, k \div 2 = i PROVE k = 2 * i \/ (k = 2 * i + 1 /\ 2 * i < n)
    BY <1>1, <1>2, <2>3
  <2>4. CASE 2 * i < n /\ set[2 * i].cost >= set[2 * i + 1].cost
    <3>1. c = 2 * i + 1 /\ set[2 * i].cost \in Int /\ set[2 * i + 1].cost \in Int
      BY <1>1, <1>5, <2>1, <2>4
    <3>2. c \in 2 .. n /\ c \div 2 = i /\ i < c
      BY ONLY <1>2, <2>1, <2>2, <2>4, <3>1, <1>1
    <3>3. set[c].cost <= set[2 * i].cost /\ set[c].cost <= set[2 * i + 1].cost
      BY ONLY <2>4, <3>1
    <3> QED BY ONLY <2>3, <3>2, <3>3
  <2>5. CASE ~(2 * i < n /\ set[2 * i].cost >= set[2 * i + 1].cost)
    <3>1. c = 2 * i /\ set[2 * i].cost \in Int /\ (2 * i < n => set[2 * i + 1].cost \in Int)
      BY <1>1, <1>5, <2>1, <2>5
    <3>2. c \in 2 .. n /\ c \div 2 = i /\ i < c
      BY ONLY <1>2, <2>1, <2>2, <2>5, <3>1, <1>1
    <3>3. set[c].cost <= set[2 * i].cost /\ (2 * i < n => set[c].cost <= set[2 * i + 1].cost)
      BY ONLY <2>5, <3>1
    <3> QED BY ONLY <2>3, <3>2, <3>3
  <2> QED BY <2>4, <2>5
<1>7. CASE i > n \div 2 \/ set[i].cost <= set[c].cost
  <2>1. g = h
    BY <1>4, <1>7
  <2>2. ASSUME NEW k \in 2 .. n PROVE set[k \div 2].cost <= set[k].cost
    <3>1. CASE k \div 2 # i
      BY <1>2, <3>1
    <3>2. CASE k \div 2 = i
      <4>1. i <= n \div 2
        BY <1>1, <1>2, <3>2
      <4>2. set[c].cost <= set[k].cost /\ c \in 2 .. n /\ set[i].cost <= set[c].cost
        BY <1>1, <1>2, <1>6, <1>7, <3>2, <4>1
      <4>3. set[c].cost \in Int /\ set[k].cost \in Int /\ set[i].cost \in Int
        BY <1>1, <1>2, <4>2
      <4> QED BY <3>2, <4>2, <4>3
    <3> QED BY <3>1, <3>2
  <2>3. CheapestFirst(set, n)
    BY <2>2 DEF CheapestFirst
  <2> QED BY <1>0, <2>1, <2>3
<1>8. CASE ~(i > n \div 2 \/ set[i].cost <= set[c].cost)
  <2> DEFINE t == Swapped(set, i, c)
  <2>0. Holds(set, n, E, C)
    BY <1>0
  <2>1. i <= n \div 2 /\ c \in 2 .. n /\ c \in 1 .. n /\ c \div 2 = i /\ i < c
    BY <1>1, <1>2, <1>6, <1>8
  <2>2. set[c].cost < set[i].cost /\ \A k \in 2 .. n : k \div 2 = i => set[c].cost <= set[k].cost
    BY <1>1, <1>2, <1>6, <1>8, <2>1
  <2>3. g.set = t /\ g.at = c
    BY <1>4, <1>8
  <2>4. /\ Holds(t, n, E, C)
        /\ t[i] = set[c] /\ t[c] = set[i] /\ \A k \in 1 .. n : k # i /\ k # c => t[k] = set[k]
    <3>1. i \in 1 .. n /\ c \in 1 .. n
      BY <1>2, <2>1
    <3> QED BY ONLY <2>0, <3>1, SwappedHolds DEF t
  <2> HIDE DEF t
  <2>5. ASSUME NEW k \in 2 .. n
        PROVE  /\ k \div 2 # c => t[k \div 2].cost <= t[k].cost
               /\ k \div 2 = c /\ c > 1 => t[c \div 2].cost <= t[k].cost
    <3>1. k \in 1 .. n /\ k \div 2 \in 1 .. n /\ k \div 2 < k
      BY <1>1
    <3>2. ASSUME k \div 2 # c PROVE t[k \div 2].cost <= t[k].cost
      <4>1. CASE k = c
        BY <1>1, <1>2, <2>1, <2>2, <2>4, <4>1
      <4>2. CASE k # c /\ k \div 2 = i
        <5>1. k # i /\ t[k] = set[k] /\ set[c].cost <= set[k].cost
          BY <1>2, <2>2, <2>4, <3>1, <4>2
        <5> QED BY <2>4, <4>2, <5>1
      <4>3. CASE k # c /\ k = i
        <5>1. /\ k \div 2 # i /\ k \div 2 # c /\ i > 1 /\ t[k \div 2] = set[i \div 2]
              /\ set[i \div 2].cost <= set[c].cost
          BY <1>1, <1>2, <2>1, <2>4, <3>1, <4>3
        <5> QED BY <2>4, <4>3, <5>1
      <4>4. CASE k # c /\ k # i /\ k \div 2 # i
        BY <1>2, <2>4, <3>1, <3>2, <4>4
      <4> QED BY <4>1, <4>2, <4>3, <4>4
    <3>3. ASSUME k \div 2 = c, c > 1 PROVE t[c \div 2].cost <= t[k].cost
      <4>1. k # i /\ k # c /\ t[k] = set[k] /\ k \div 2 # i /\ set[c].cost <= set[k].cost
        BY <1>1, <1>2, <2>1, <2>4, <3>1, <3>3
      <4> QED BY <2>1, <2>4, <4>1
    <3> QED BY <3>2, <3>3
  <2>6. Sinking(t, n, c)
    BY <2>1, <2>5 DEF Sinking
  <2>7. ~CheapestFirst(set, n)
    BY <1>1, <1>2, <2>1, <2>2 DEF CheapestFirst
  <2> QED BY ONLY <2>1, <2>3, <2>4, <2>6, <2>7, <1>1, <1>2
<1> QED BY <1>7, <1>8

\* The function that MoveDown defines.
IsMovingDown(set, n, w) ==
  w = [k \in 0 .. n |-> IF k = 0 THEN [set |-> set, at |-> 1] ELSE MovedDown(w[k - 1])]

LEMMA MovingDownExists ==
  ASSUME NEW set, NEW n \in Nat
  PROVE  \E w : IsMovingDown(set, n, w)
<1> DEFINE Bad == {k \in Nat : ~ \E w : IsMovingDown(set, k, w)}
<1> SUFFICES ASSUME Bad # {} PROVE FALSE
  OBVIOUS
<1>1. PICK b \in Bad : \A k \in Bad : b <= k
  BY LeastOf
<1>2. b \in Nat /\ ~ \E w : IsMovingDown(set, b, w)
  OBVIOUS
<1>3. CASE b = 0
  <2> DEFINE w == [k \in 0 .. 0 |-> [set |-> set, at |-> 1]]
  <2>1. IsMovingDown(set, 0, w)
    BY DEF IsMovingDown
  <2> QED BY <1>2, <1>3, <2>1
<1>4. CASE b # 0
  <2>1. b - 1 \in Nat /\ b - 1 \notin Bad
    BY <1>1, <1>2, <1>4
  <2>2. PICK w : IsMovingDown(set, b - 1, w)
    BY <2>1
  <2> DEFINE v == [k \in 0 .. b |-> IF k = b THEN MovedDown(w[b - 1]) ELSE w[k]]
  <2>3. ASSUME NEW k \in 0 .. b PROVE v[k] = IF k = 0 THEN [set |-> set, at |-> 1] ELSE MovedDown(v[k - 1])
    <3>1. CASE k = b
      BY <1>2, <1>4, <3>1
    <3>2. CASE k # b
      <4>1. k \in 0 .. b - 1 /\ (k # 0 => k - 1 \in 0 .. b /\ k - 1 # b)
        BY <1>2, <3>2
      <4>2. w[k] = IF k = 0 THEN [set |-> set, at |-> 1] ELSE MovedDown(w[k - 1])
        BY <2>2, <4>1 DEF IsMovingDown
      <4> QED BY <3>2, <4>1, <4>2
    <3> QED BY <3>1, <3>2
  <2>4. v = [k \in 0 .. b |-> v[k]]
    OBVIOUS
  <2> HIDE DEF v
  <2>5. IsMovingDown(set, b, v)
    BY <2>3, <2>4 DEF IsMovingDown
  <2> QED BY <1>2, <2>5
<1> QED BY <1>3, <1>4

\* The first element sinks to its place.
LEMMA MoveDownKeeps ==
  ASSUME NEW set, NEW n, NEW E, NEW C, Holds(set, n, E, C), Sinking(set, n, 1)
  PROVE  Holds(MoveDown(set), n, E, C) /\ CheapestFirst(MoveDown(set), n)
<1>1. n \in Nat /\ n >= 1 /\ Len(set) = n
  BY SeqIs DEF Holds, Sinking
<1> DEFINE w == CHOOSE v : IsMovingDown(set, n, v)
<1>2. MoveDown(set) = w[n].set
  BY <1>1 DEF MoveDown, IsMovingDown
<1>3. IsMovingDown(set, n, w)
  BY <1>1, MovingDownExists
<1> HIDE DEF w
<1>4. \A k \in 0 .. n : w[k] = IF k = 0 THEN [set |-> set, at |-> 1] ELSE MovedDown(w[k - 1])
  BY <1>3 DEF IsMovingDown
<1> DEFINE Good(k) == /\ Holds(w[k].set, n, E, C) /\ Sinking(w[k].set, n, w[k].at)
                      /\ CheapestFirst(w[k].set, n) \/ k < w[k].at
           Bad == {k \in 0 .. n : ~Good(k)}
<1>5. Good(0)
  BY <1>1, <1>4
<1>6. ASSUME NEW k \in 1 .. n, Good(k - 1) PROVE Good(k)
  <2>1. w[k] = MovedDown(w[k - 1]) /\ k \in Int
    BY <1>1, <1>4
  <2>2. /\ Holds(w[k].set, n, E, C) /\ Sinking(w[k].set, n, w[k].at)
        /\ CheapestFirst(w[k].set, n) \/ (~CheapestFirst(w[k - 1].set, n) /\ w[k].at > w[k - 1].at)
    BY <1>6, <2>1, MovedDownKeeps
  <2>3. w[k].at \in Int /\ w[k - 1].at \in Int
    BY <1>1, <1>6, <2>2 DEF Sinking
  <2> QED BY <1>1, <1>6, <2>1, <2>2, <2>3
<1>7. Good(n)
  <2> SUFFICES ASSUME Bad # {} PROVE FALSE
    BY <1>1
  <2>1. PICK k \in Bad : \A l \in Bad : k <= l
    <3>1. Bad \subseteq Nat
      BY <1>1
    <3> QED BY <3>1, LeastOf
  <2>2. k # 0 /\ k \in 1 .. n /\ k - 1 \in 0 .. n /\ ~(k <= k - 1)
    BY <1>1, <1>5, <2>1
  <2>3. k - 1 \notin Bad
    BY <2>1, <2>2
  <2> QED BY <1>6, <2>1, <2>2, <2>3
<1>8. CheapestFirst(w[n].set, n)
  BY <1>1, <1>7 DEF Sinking
<1> QED BY <1>2, <1>7, <1>8

\* The open set holds the entries in C, with the cheapest one first.
Heap(set, E, C) == Holds(set, Len(set), E, C) /\ CheapestFirst(set, Len(set))

LEMMA HeapIs ==
  ASSUME NEW set, NEW n, NEW E, NEW C, Holds(set, n, E, C), CheapestFirst(set, n)
  PROVE  Heap(set, E, C) /\ Len(set) = n
<1>1. n \in Nat /\ set \in [1 .. n -> E]
  BY DEF Holds
<1>2. Len(set) = n
  BY <1>1, SeqIs
<1> QED BY <1>2 DEF Heap

LEMMA HeapFacts ==
  ASSUME NEW set, NEW E, NEW C, Heap(set, E, C)
  PROVE  /\ Len(set) \in Nat /\ set \in [1 .. Len(set) -> E] /\ DOMAIN set = 1 .. Len(set)
         /\ C \subseteq E /\ \A x \in C : x.cost \in Int /\ \E i \in 1 .. Len(set) : set[i] = x
         /\ \A i \in 1 .. Len(set) : set[i] \in C
         /\ \A x, y \in C : x.portal = y.portal => x = y
<1> DEFINE n == Len(set)
<1>1. /\ n \in Nat /\ set \in [1 .. n -> E] /\ (\A x \in E : x.cost \in Int)
      /\ {set[i] : i \in 1 .. n} = C
      /\ \A i, j \in 1 .. n : set[i].portal = set[j].portal => i = j
  BY DEF Heap, Holds
<1> HIDE DEF n
<1>2. \A i \in 1 .. n : set[i] \in C
  BY <1>1
<1>3. \A x \in C : \E i \in 1 .. n : set[i] = x
  BY <1>1
<1>4. C \subseteq E /\ \A x \in C : x.cost \in Int
  BY <1>1, <1>3
<1>5. DOMAIN set = 1 .. n
  BY <1>1
<1>6. \A x, y \in C : x.portal = y.portal => x = y
  BY <1>1, <1>3
<1> QED BY <1>1, <1>2, <1>3, <1>4, <1>5, <1>6 DEF n

\* The first element is the cheapest one: of another one that were cheaper, the first such in the
\* array has a parent that is cheaper still.
LEMMA HeadIsCheapest ==
  ASSUME NEW set, NEW E, NEW C, Heap(set, E, C), NEW x \in C
  PROVE  Len(set) >= 1 /\ set[1] \in C /\ set[1].cost <= x.cost
<1> DEFINE n == Len(set)
           Bad == {k \in 1 .. n : ~(set[1].cost <= set[k].cost)}
<1>1. /\ n \in Nat /\ \A i \in 1 .. n : set[i] \in C /\ set[i].cost \in Int
      /\ \E i \in 1 .. n : set[i] = x
  BY HeapFacts
<1>2. \A k \in 2 .. n : set[k \div 2].cost <= set[k].cost
  BY DEF Heap, CheapestFirst
<1> HIDE DEF n
<1>3. n >= 1
  BY <1>1
<1>4. Bad = {}
  <2> SUFFICES ASSUME Bad # {} PROVE FALSE
    OBVIOUS
  <2>1. PICK k \in Bad : \A l \in Bad : k <= l
    <3>1. Bad \subseteq Nat
      BY <1>1
    <3> QED BY <3>1, LeastOf
  <2>2. k \in 1 .. n /\ ~(set[1].cost <= set[k].cost)
    BY <2>1
  <2>3. set[1].cost \in Int /\ set[k].cost \in Int
    BY <1>1, <1>3, <2>2
  <2>4. k \in 2 .. n
    BY ONLY <1>1, <2>2, <2>3
  <2>5. k \div 2 \in 1 .. n /\ ~(k <= k \div 2)
    BY <1>1, <2>4
  <2>6. k \div 2 \notin Bad
    BY <2>1, <2>5
  <2>7. set[1].cost <= set[k \div 2].cost
    BY <2>5, <2>6
  <2>8. set[k \div 2].cost <= set[k].cost /\ set[k \div 2].cost \in Int
    BY <1>1, <1>2, <2>4, <2>5
  <2> QED BY ONLY <2>2, <2>3, <2>7, <2>8
<1> QED BY <1>1, <1>3, <1>4 DEF n

\* add, where there is room, update and shift keep the heap, with the entries they should.
LEMMA AddedKeeps ==
  ASSUME NEW set, NEW E, NEW C, Heap(set, E, C), Len(set) < MaxOpen,
         NEW entry \in E, \A x \in C : x.portal # entry.portal
  PROVE  Heap(Added(set, entry), E, C \cup {entry})
<1> DEFINE n == Len(set)
           t == Append(set, entry)
<1>1. /\ n \in Nat /\ set \in [1 .. n -> E] /\ \A i \in 1 .. n : set[i] \in C
  BY ONLY Heap(set, E, C), HeapFacts
<1>2. /\ \A x \in E : x.cost \in Int
      /\ {set[i] : i \in 1 .. n} = C
      /\ \A i, j \in 1 .. n : set[i].portal = set[j].portal => i = j
      /\ \A k \in 2 .. n : set[k \div 2].cost <= set[k].cost
  BY DEF Heap, Holds, CheapestFirst
<1>0. Added(set, entry) = MoveUp(t, n + 1)
  <2>1. ~(n >= MaxOpen)
    BY <1>1, FinderAssumption
  <2> QED BY <2>1 DEF Added
<1> HIDE DEF n
<1>3. t \in [1 .. n + 1 -> E] /\ t[n + 1] = entry /\ \A i \in 1 .. n : t[i] = set[i]
  <2>1. set \in Seq(E) /\ Len(set) = n /\ DOMAIN set = 1 .. n
    BY <1>1, SeqIs
  <2>2. t \in Seq(E) /\ Len(t) = n + 1
    BY <2>1
  <2>3. t \in [1 .. n + 1 -> E]
    BY ONLY <2>2, SeqOf
  <2>4. t[n + 1] = entry /\ \A i \in 1 .. n : t[i] = set[i]
    BY <2>1
  <2> QED BY <2>3, <2>4
<1> HIDE DEF t
<1>4. n + 1 \in Nat /\ n + 1 \in 1 .. n + 1 /\ \A i \in 1 .. n + 1 : i = n + 1 \/ i \in 1 .. n
  BY <1>1
<1>5. {t[i] : i \in 1 .. n + 1} = C \cup {entry}
  <2>1. \A i \in 1 .. n : i \in 1 .. n + 1
    BY <1>1
  <2> QED BY <1>2, <1>3, <1>4, <2>1
<1>6. \A i, j \in 1 .. n + 1 : t[i].portal = t[j].portal => i = j
  BY <1>1, <1>2, <1>3, <1>4
<1>7. Holds(t, n + 1, E, C \cup {entry})
  BY <1>2, <1>3, <1>4, <1>5, <1>6 DEF Holds
<1>8. ASSUME NEW k \in 2 .. n + 1
      PROVE  /\ k # n + 1 => t[k \div 2].cost <= t[k].cost
             /\ ~(k \div 2 = n + 1)
  <2>1. k \div 2 < k /\ k \div 2 \in 1 .. n
    BY <1>1
  <2>2. k # n + 1 => k \in 2 .. n /\ t[k] = set[k] /\ t[k \div 2] = set[k \div 2]
    BY <1>1, <1>3, <2>1
  <2>3. ~(k \div 2 = n + 1)
    BY <1>1, <2>1
  <2> QED BY <1>2, <2>2, <2>3
<1>9. Rising(t, n + 1, n + 1)
  BY <1>4, <1>8 DEF Rising
<1>10. Holds(MoveUp(t, n + 1), n + 1, E, C \cup {entry}) /\ CheapestFirst(MoveUp(t, n + 1), n + 1)
  BY <1>7, <1>9, MoveUpKeeps
<1> QED BY <1>0, <1>10, HeapIs

LEMMA UpdatedKeeps ==
  ASSUME NEW set, NEW E, NEW C, Heap(set, E, C), NEW i \in 1 .. Len(set),
         NEW entry \in E, entry.portal = set[i].portal, entry.cost <= set[i].cost
  PROVE  Heap(Updated(set, i, entry), E, {x \in C : x.portal # entry.portal} \cup {entry})
<1> DEFINE n == Len(set)
           t == [set EXCEPT ![i] = entry]
           D == {x \in C : x.portal # entry.portal} \cup {entry}
<1>1. /\ n \in Nat /\ set \in [1 .. n -> E] /\ i \in 1 .. n
      /\ \A j \in 1 .. n : set[j] \in C /\ set[j].cost \in Int
      /\ \A x \in C : \E j \in 1 .. n : set[j] = x
  BY HeapFacts
<1>2. /\ \A x \in E : x.cost \in Int
      /\ \A j, k \in 1 .. n : set[j].portal = set[k].portal => j = k
      /\ \A k \in 2 .. n : set[k \div 2].cost <= set[k].cost
  BY DEF Heap, Holds, CheapestFirst
<1> HIDE DEF n
<1>3. t \in [1 .. n -> E] /\ t[i] = entry /\ \A j \in 1 .. n : j # i => t[j] = set[j]
  BY <1>1
<1>0. Updated(set, i, entry) = MoveUp(t, i)
  BY DEF Updated
<1> HIDE DEF t
<1>4. {t[j] : j \in 1 .. n} = D
  <2>1. ASSUME NEW j \in 1 .. n PROVE t[j] \in D
    BY <1>1, <1>2, <1>3
  <2>2. ASSUME NEW x \in D PROVE \E j \in 1 .. n : t[j] = x
    <3>1. CASE x = entry
      BY <1>1, <1>3, <3>1
    <3>2. CASE x \in C /\ x.portal # entry.portal
      BY <1>1, <1>3, <3>2
    <3> QED BY <3>1, <3>2
  <2> QED BY <2>1, <2>2
<1> HIDE DEF D
<1>6. \A j, k \in 1 .. n : t[j].portal = t[k].portal => j = k
  <2>1. \A j \in 1 .. n : t[j].portal = set[j].portal
    BY <1>1, <1>3
  <2> QED BY <1>2, <2>1
<1>7. Holds(t, n, E, D)
  BY <1>1, <1>2, <1>3, <1>4, <1>6 DEF Holds
<1>8. ASSUME NEW k \in 2 .. n
      PROVE  /\ k # i => t[k \div 2].cost <= t[k].cost
             /\ k \div 2 = i /\ i > 1 => t[i \div 2].cost <= t[k].cost
  <2>1. k \in 1 .. n /\ k \div 2 \in 1 .. n /\ k \div 2 < k /\ set[k \div 2].cost <= set[k].cost
    <3>1. n \in Nat
      BY <1>1
    <3>2. k \in 1 .. n /\ k \div 2 \in 1 .. n /\ k \div 2 < k
      BY ONLY <3>1, k \in 2 .. n
    <3> QED BY <1>2, <3>2
  <2>2. entry.cost \in Int /\ set[i].cost \in Int /\ set[k].cost \in Int
    BY <1>1, <1>2, <2>1
  <2>3. k # i => t[k \div 2].cost <= t[k].cost
    <3>1. CASE k \div 2 = i
      BY <1>3, <2>1, <2>2, <3>1
    <3>2. CASE k \div 2 # i
      BY <1>3, <2>1, <3>2
    <3> QED BY <3>1, <3>2
  <2>4. ASSUME k \div 2 = i, i > 1 PROVE t[i \div 2].cost <= t[k].cost
    <3>1. i \in 2 .. n /\ i \div 2 \in 1 .. n /\ i \div 2 # i /\ k # i
      BY <1>1, <2>1, <2>4
    <3>2. t[i \div 2] = set[i \div 2] /\ t[k] = set[k] /\ set[i \div 2].cost <= set[i].cost
      BY <1>2, <1>3, <2>1, <3>1
    <3>3. set[i \div 2].cost \in Int /\ set[i].cost <= set[k].cost
      BY <1>1, <2>1, <2>4, <3>1
    <3> QED BY ONLY <2>2, <3>2, <3>3
  <2> QED BY <2>3, <2>4
<1>9. Rising(t, n, i)
  BY <1>1, <1>8 DEF Rising
<1>10. Holds(MoveUp(t, i), n, E, D) /\ CheapestFirst(MoveUp(t, i), n)
  BY <1>7, <1>9, MoveUpKeeps
<1> QED BY <1>0, <1>10, HeapIs DEF D

LEMMA ShiftedKeeps ==
  ASSUME NEW set, NEW E, NEW C, Heap(set, E, C), set # <<>>
  PROVE  /\ Len(set) >= 1 /\ set[1] \in C
         /\ Heap(Shifted(set), E, C \ {set[1]})
<1> DEFINE n == Len(set) - 1
           t == SubSeq(set, 1, n)
           u == [t EXCEPT ![1] = set[n + 1]]
           D == C \ {set[1]}
<1>1. /\ Len(set) \in Nat /\ set \in [1 .. Len(set) -> E]
      /\ \A j \in 1 .. Len(set) : set[j] \in C
      /\ \A x \in C : \E j \in 1 .. Len(set) : set[j] = x
  BY HeapFacts
<1>2. Len(set) >= 1 /\ n \in Nat /\ Len(set) = n + 1
  <2>1. Len(set) # 0
    BY <1>1, EmptyIs
  <2> QED BY <1>1, <2>1
<1>3. /\ \A x \in E : x.cost \in Int
      /\ \A j, k \in 1 .. Len(set) : set[j].portal = set[k].portal => j = k
      /\ \A k \in 2 .. Len(set) : set[k \div 2].cost <= set[k].cost
  BY DEF Heap, Holds, CheapestFirst
<1>4. Shifted(set) = IF n = 0 THEN <<>> ELSE MoveDown(u)
  BY DEF Shifted
<1> HIDE DEF n
<1>5. /\ set \in [1 .. n + 1 -> E]
      /\ \A j \in 1 .. n + 1 : set[j] \in C
      /\ \A x \in C : \E j \in 1 .. n + 1 : set[j] = x
      /\ \A j, k \in 1 .. n + 1 : set[j].portal = set[k].portal => j = k
      /\ \A k \in 2 .. n + 1 : set[k \div 2].cost <= set[k].cost
  BY <1>1, <1>2, <1>3
<1>6. CASE n = 0
  <2>1. D = {}
    <3>1. \A j \in 1 .. n + 1 : j = 1
      BY <1>6
    <3> QED BY <1>5, <3>1
  <2> HIDE DEF D
  <2>2. Holds(<<>>, 0, E, D) /\ CheapestFirst(<<>>, 0)
    <3>1. <<>> \in [1 .. 0 -> E] /\ 1 .. 0 = {} /\ 2 .. 0 = {} /\ 0 \in Nat
      OBVIOUS
    <3>2. {<<>>[i] : i \in 1 .. 0} = {}
      BY <3>1
    <3> QED BY <1>3, <2>1, <3>1, <3>2 DEF Holds, CheapestFirst
  <2>3. Heap(<<>>, E, D)
    BY <2>2, HeapIs
  <2> QED BY <1>1, <1>2, <1>4, <1>6, <2>3 DEF D
<1>7. CASE n # 0
  <2>1. t \in [1 .. n -> E] /\ \A j \in 1 .. n : t[j] = set[j]
    BY <1>2, <1>5, SubSeqIs
  <2> HIDE DEF t
  <2>2. 1 \in 1 .. n /\ n + 1 \in 1 .. n + 1 /\ n + 1 \notin 1 .. n /\ \A j \in 1 .. n : j \in 1 .. n + 1
    BY <1>2, <1>7
  <2>3. u \in [1 .. n -> E] /\ u[1] = set[n + 1] /\ \A j \in 1 .. n : j # 1 => u[j] = set[j]
    BY <1>5, <2>1, <2>2
  <2> HIDE DEF u
  <2>4. {u[j] : j \in 1 .. n} = D
    <3>1. ASSUME NEW j \in 1 .. n PROVE u[j] \in D
      <4>1. CASE j = 1
        <5>1. n + 1 # 1
          BY <1>2, <1>7
        <5>2. set[n + 1] \in C /\ set[n + 1] # set[1]
          BY <1>5, <2>2, <5>1
        <5> QED BY <2>3, <4>1, <5>2
      <4>2. CASE j # 1
        <5>1. set[j] \in C /\ set[j] # set[1]
          BY <1>5, <2>2, <4>2
        <5> QED BY <2>3, <4>2, <5>1
      <4> QED BY <4>1, <4>2
    <3>2. ASSUME NEW x \in D PROVE \E j \in 1 .. n : u[j] = x
      <4>1. PICK j \in 1 .. n + 1 : set[j] = x /\ j # 1
        BY <1>5
      <4>2. j = n + 1 \/ j \in 1 .. n
        BY <1>2
      <4> QED BY <2>2, <2>3, <4>1, <4>2
    <3> QED BY <3>1, <3>2
  <2> HIDE DEF D
  <2>5. \A j, k \in 1 .. n : u[j].portal = u[k].portal => j = k
    <3>1. ASSUME NEW j \in 1 .. n PROVE u[j] = set[IF j = 1 THEN n + 1 ELSE j]
      BY <2>3
    <3>2. ASSUME NEW j \in 1 .. n, NEW k \in 1 .. n, u[j].portal = u[k].portal PROVE j = k
      <4> DEFINE jj == IF j = 1 THEN n + 1 ELSE j
                 kk == IF k = 1 THEN n + 1 ELSE k
      <4>1. set[jj].portal = set[kk].portal
        BY <3>1, <3>2
      <4>2. jj \in 1 .. n + 1 /\ kk \in 1 .. n + 1
        BY <2>2
      <4>3. jj = kk
        <5> HIDE DEF jj, kk
        <5> QED BY <1>5, <4>1, <4>2
      <4> QED BY <2>2, <4>3
    <3> QED BY <3>2
  <2>6. Holds(u, n, E, D)
    BY <1>2, <1>3, <2>3, <2>4, <2>5 DEF Holds
  <2>7. ASSUME NEW k \in 2 .. n
        PROVE  /\ k \div 2 # 1 => u[k \div 2].cost <= u[k].cost
               /\ ~(k \div 2 = 1 /\ 1 > 1)
    <3>1. k \in 2 .. n + 1 /\ k \in 1 .. n /\ k # 1 /\ k \div 2 \in 1 .. n
      BY <1>2
    <3> QED BY <1>5, <2>3, <3>1
  <2>8. Sinking(u, n, 1)
    BY <2>2, <2>7 DEF Sinking
  <2>9. Holds(MoveDown(u), n, E, D) /\ CheapestFirst(MoveDown(u), n)
    BY <2>6, <2>8, MoveDownKeeps
  <2>10. Heap(MoveDown(u), E, D)
    BY <2>9, HeapIs
  <2> QED BY <1>1, <1>2, <1>4, <1>7, <2>10 DEF D
<1> QED BY <1>6, <1>7

-----------------------------------------------------------------------------
(* Where centers are *)

\* Starts and ends are within the border.
LEMMA MiddleIs ==
  ASSUME NEW t \in WithinBorder
  PROVE  Middle(t) \in Pixels /\ TileAt(Middle(t)) = t
<1>1. t = <<t[1], t[2]>> /\ t[1] \in 1 .. Width - 2 /\ t[2] \in 1 .. Height - 2 /\ Width \in Nat /\ Height \in Nat
  BY SizeAssumption DEF WithinBorder
<1>2. Middle(t) = <<t[1] * 256 + 128, t[2] * 256 + 128>>
  <2>1. 256 \div 2 = 128
    OBVIOUS
  <2> QED BY <2>1 DEF Middle, TILE_SCALE
<1>3. (t[1] * 256 + 128) \div 256 = t[1] /\ (t[2] * 256 + 128) \div 256 = t[2]
  BY <1>1
<1>4. TileAt(Middle(t)) = t
  BY <1>1, <1>2, <1>3 DEF TileAt, TILE_SCALE
<1>5. t[1] * 256 + 128 \in 256 .. (Width - 1) * 256 - 1 /\ t[2] * 256 + 128 \in 256 .. (Height - 1) * 256 - 1
  BY <1>1
<1> QED BY <1>2, <1>4, <1>5 DEF Pixels, TILE_SCALE

\* The center of a portal is the last pixel of a tile of the first of its areas, from which it
\* leads to one of the second.
CenterOf(m, p, dir, c, k, x) ==
  /\ dir = m.portal[p].dir /\ c \in Int /\ k \in Int /\ x \in Int
  /\ Center(m, p) = IF dir = VERTICAL THEN <<c * 256 + 255, x>> ELSE <<x, c * 256 + 255>>
  /\ 256 * k <= x /\ x <= 256 * k + 128 /\ \E j \in Int : x = 128 * j
  /\ At(dir, c, k) \in DOMAIN m.area /\ m.area[At(dir, c, k)] = m.portal[p].area[0]
  /\ At(dir, c + 1, k) \in DOMAIN m.area /\ m.area[At(dir, c + 1, k)] = m.portal[p].area[1]

\* Such an edge is found.
LEMMA CenterIs ==
  ASSUME NEW m, Rectangles(m), PortalsSound(m), NEW p \in DOMAIN m.portal
  PROVE  \E dir \in Dirs : \E c, k, x : CenterOf(m, p, dir, c, k, x)
<1> DEFINE dir == m.portal[p].dir
           a == m.portal[p].area[0]
           b == m.portal[p].area[1]
           s1 == m.portal[p].s1
           s2 == m.portal[p].s2
           c == Far(m.rect[a], dir)
           span == s2 - s1 + 1
           k == s1 + span \div 2
           x == s1 * 256 + (span * 256) \div 2
<1>1. Ends(m, dir, a, b, s1, s2)
  BY PortalEnds
<1>2. Center(m, p) = IF dir = VERTICAL THEN <<(m.rect[a].x2 + 1) * 256 - 1, x>>
                     ELSE <<x, (m.rect[a].y2 + 1) * 256 - 1>>
  BY DEF Center, TILE_SCALE
<1>3. c = IF dir = VERTICAL THEN m.rect[a].x2 ELSE m.rect[a].y2
  BY DEF Far
<1> HIDE DEF dir, a, b, s1, s2, c
<1>4. /\ dir \in Dirs /\ a \in DOMAIN m.rect /\ b \in DOMAIN m.rect
      /\ s1 \in Int /\ s2 \in Int /\ s1 <= s2 /\ c \in Int
      /\ Far(m.rect[a], dir) = c
      /\ Near(m.rect[b], dir) \in Int /\ Far(m.rect[b], dir) \in Int
      /\ Near(m.rect[a], dir) <= c
      /\ Near(m.rect[b], dir) <= Far(m.rect[b], dir) /\ c + 1 = Near(m.rect[b], dir)
      /\ Low(m.rect[a], dir) \in Int /\ High(m.rect[a], dir) \in Int
      /\ Low(m.rect[b], dir) \in Int /\ High(m.rect[b], dir) \in Int
      /\ Low(m.rect[a], dir) <= s1 /\ Low(m.rect[b], dir) <= s1
      /\ s2 <= High(m.rect[a], dir) /\ s2 <= High(m.rect[b], dir)
  BY <1>1 DEF Ends, c
<1>5. span \in Int /\ span >= 1 /\ span = s2 - s1 + 1
  BY ONLY <1>4
<1> HIDE DEF span
<1>6. /\ span \div 2 \in Int /\ 2 * (span \div 2) <= span /\ span <= 2 * (span \div 2) + 1
      /\ (span * 256) \div 2 = span * 128
  BY ONLY <1>5
<1>7. k \in Int /\ s1 <= k /\ k <= s2 /\ x \in Int /\ x = 128 * (2 * s1 + span) /\ 2 * s1 + span \in Int
      /\ 256 * k <= x /\ x <= 256 * k + 128
  BY ONLY <1>4, <1>5, <1>6
<1> HIDE DEF k, x
<1>8. At(dir, c, k) \in DOMAIN m.area /\ m.area[At(dir, c, k)] = a
  <2>1. /\ Near(m.rect[a], dir) <= c /\ c <= Far(m.rect[a], dir)
        /\ Low(m.rect[a], dir) <= k /\ k <= High(m.rect[a], dir)
    BY ONLY <1>4, <1>7
  <2>2. dir \in Dirs /\ a \in DOMAIN m.rect /\ c \in Int /\ k \in Int
    BY ONLY <1>4, <1>7
  <2> QED BY ONLY Rectangles(m), <2>1, <2>2, TileIn
<1>9. At(dir, c + 1, k) \in DOMAIN m.area /\ m.area[At(dir, c + 1, k)] = b
  <2>1. /\ Near(m.rect[b], dir) <= c + 1 /\ c + 1 <= Far(m.rect[b], dir)
        /\ Low(m.rect[b], dir) <= k /\ k <= High(m.rect[b], dir)
    BY ONLY <1>4, <1>7
  <2>2. dir \in Dirs /\ b \in DOMAIN m.rect /\ c + 1 \in Int /\ k \in Int
    BY ONLY <1>4, <1>7
  <2> QED BY ONLY Rectangles(m), <2>1, <2>2, TileIn
<1>10. Center(m, p) = IF dir = VERTICAL THEN <<c * 256 + 255, x>> ELSE <<x, c * 256 + 255>>
  <2>1. CASE dir = VERTICAL
    <3>1. (c + 1) * 256 - 1 = c * 256 + 255
      BY <1>4
    <3> QED BY <1>2, <1>3, <2>1, <3>1
  <2>2. CASE dir # VERTICAL
    <3>1. (c + 1) * 256 - 1 = c * 256 + 255
      BY <1>4
    <3> QED BY <1>2, <1>3, <2>2, <3>1
  <2> QED BY <2>1, <2>2
<1>11. \E j \in Int : x = 128 * j
  BY <1>7
<1>12. dir = m.portal[p].dir /\ a = m.portal[p].area[0] /\ b = m.portal[p].area[1]
  BY DEF dir, a, b
<1>13. CenterOf(m, p, dir, c, k, x)
  BY ONLY <1>4, <1>7, <1>8, <1>9, <1>10, <1>11, <1>12 DEF CenterOf
<1> QED BY <1>4, <1>13

\* A center is on the map, and no two portals have the same one.
LEMMA CenterOnMap ==
  ASSUME NEW m, Rectangles(m), PortalsSound(m), NEW p \in DOMAIN m.portal
  PROVE  Center(m, p) \in Pixels
<1>1. PICK dir, c, k, x : dir \in Dirs /\ CenterOf(m, p, dir, c, k, x)
  BY CenterIs
<1>2. c \in Int /\ k \in Int /\ x \in Int /\ 256 * k <= x /\ x <= 256 * k + 128 /\ At(dir, c, k) \in WithinBorder
  BY <1>1 DEF CenterOf, Rectangles
<1>3. Center(m, p) = IF dir = VERTICAL THEN <<c * 256 + 255, x>> ELSE <<x, c * 256 + 255>>
  BY <1>1 DEF CenterOf
<1>4. CASE dir = VERTICAL
  <2>1. c \in 1 .. Width - 2 /\ k \in 1 .. Height - 2
    BY <1>2, <1>4 DEF At, WithinBorder
  <2>2. c * 256 + 255 \in 256 .. (Width - 1) * 256 - 1 /\ x \in 256 .. (Height - 1) * 256 - 1
    BY <1>2, <2>1, SizeAssumption
  <2> QED BY <1>3, <1>4, <2>2 DEF Pixels, TILE_SCALE
<1>5. CASE dir # VERTICAL
  <2>1. c \in 1 .. Height - 2 /\ k \in 1 .. Width - 2
    BY <1>2, <1>5 DEF At, WithinBorder
  <2>2. c * 256 + 255 \in 256 .. (Height - 1) * 256 - 1 /\ x \in 256 .. (Width - 1) * 256 - 1
    BY <1>2, <2>1, SizeAssumption
  <2> QED BY <1>3, <1>5, <2>2 DEF Pixels, TILE_SCALE
<1> QED BY <1>4, <1>5

LEMMA CentersDiffer ==
  ASSUME NEW m, Rectangles(m), PortalsSound(m), Paired(m),
         NEW p \in DOMAIN m.portal, NEW q \in DOMAIN m.portal, Center(m, p) = Center(m, q)
  PROVE  p = q
<1>1. PICK dir, c, k, x : dir \in Dirs /\ CenterOf(m, p, dir, c, k, x)
  BY CenterIs
<1>2. PICK dir2, c2, k2, x2 : dir2 \in Dirs /\ CenterOf(m, q, dir2, c2, k2, x2)
  BY CenterIs
<1>3. /\ c \in Int /\ k \in Int /\ x \in Int /\ 256 * k <= x /\ x <= 256 * k + 128
      /\ Center(m, p) = IF dir = VERTICAL THEN <<c * 256 + 255, x>> ELSE <<x, c * 256 + 255>>
  BY <1>1 DEF CenterOf
<1>4. PICK j \in Int : x = 128 * j
  BY <1>1 DEF CenterOf
<1>5. /\ c2 \in Int /\ k2 \in Int /\ x2 \in Int /\ 256 * k2 <= x2 /\ x2 <= 256 * k2 + 128
      /\ Center(m, q) = IF dir2 = VERTICAL THEN <<c2 * 256 + 255, x2>> ELSE <<x2, c2 * 256 + 255>>
  BY <1>2 DEF CenterOf
<1>6. PICK j2 \in Int : x2 = 128 * j2
  BY <1>2 DEF CenterOf
<1>7. c * 256 + 255 # x2 /\ c2 * 256 + 255 # x
  BY ONLY <1>3, <1>4, <1>5, <1>6
<1> DEFINE y == c * 256 + 255
           y2 == c2 * 256 + 255
           ofp == Center(m, p)
<1>12. y # x2 /\ y2 # x
  BY <1>7
<1>13. /\ ofp = (IF dir = VERTICAL THEN <<y, x>> ELSE <<x, y>>)
       /\ ofp = (IF dir2 = VERTICAL THEN <<y2, x2>> ELSE <<x2, y2>>)
  BY <1>3, <1>5
<1> HIDE DEF y, y2, ofp
<1>14. /\ (dir = VERTICAL => ofp[1] = y /\ ofp[2] = x) /\ (dir # VERTICAL => ofp[1] = x /\ ofp[2] = y)
       /\ (dir2 = VERTICAL => ofp[1] = y2 /\ ofp[2] = x2) /\ (dir2 # VERTICAL => ofp[1] = x2 /\ ofp[2] = y2)
  BY ONLY <1>13
<1>8. dir = dir2
  BY ONLY <1>1, <1>2, <1>12, <1>14 DEF Dirs
<1>9. c * 256 + 255 = c2 * 256 + 255 /\ x = x2
  BY ONLY <1>8, <1>14 DEF y, y2
<1>10. c = c2 /\ k = k2
  BY ONLY <1>3, <1>5, <1>9
<1>11. SamePair(m, p, q)
  BY <1>1, <1>2, <1>8, <1>10 DEF CenterOf, SamePair
<1> QED BY <1>11 DEF Paired

-----------------------------------------------------------------------------
(* The portals as a graph *)

\* What it costs from portal to portal, and what it seems to cost still to the start.
Leg(m, p, q) == Cost(Center(m, p), Center(m, q))
Ahead(m, p, s) == Cost(Center(m, p), s)
PortalsOf(m, a) == {p \in DOMAIN m.portal : a \in Of(m, p)}

\* A ring has a side of every portal of an area, and of no other one.
RingCovers(m, ring, a) ==
  \E n \in Nat : DOMAIN ring = 1 .. n /\ {ring[k][1] : k \in 1 .. n} = PortalsOf(m, a)

LEMMA RingCoversArea ==
  ASSUME NEW m, NEW ring, NEW a, NEW n \in Nat, DOMAIN ring = 1 .. n,
         RingSet(ring) = {t \in Sides(m) : AreaOf(m, t) = a}
  PROVE  RingCovers(m, ring, a)
<1>1. ASSUME NEW k \in 1 .. n PROVE ring[k][1] \in PortalsOf(m, a)
  <2>1. ring[k] \in Sides(m) /\ AreaOf(m, ring[k]) = a
    BY DEF RingSet
  <2>2. ring[k][1] \in DOMAIN m.portal /\ ring[k][2] \in {0, 1}
    BY <2>1 DEF Sides
  <2> QED BY <2>1, <2>2 DEF PortalsOf, Of, AreaOf
<1>2. ASSUME NEW p \in PortalsOf(m, a) PROVE \E k \in 1 .. n : ring[k][1] = p
  <2>1. PICK i \in {0, 1} : m.portal[p].area[i] = a
    BY DEF PortalsOf, Of
  <2>2. <<p, i>> \in Sides(m) /\ AreaOf(m, <<p, i>>) = a /\ <<p, i>>[1] = p
    BY <2>1 DEF PortalsOf, Sides, AreaOf
  <2>3. <<p, i>> \in RingSet(ring)
    BY <2>2
  <2> QED BY <2>2, <2>3 DEF RingSet
<1> QED BY <1>1, <1>2 DEF RingCovers

\* A place on a side of a frame, not near to a corner: along is the axis of the side.
OnSide(x, y, low, high, from, to) == x \in {low, high} /\ from + 127 <= y /\ y <= to - 127

\* Centers of the portals of an area are on the sides of one frame.
Framed(m, z) ==
  \E x1, x2, y1, y2 \in Int :
    /\ x1 + 256 <= x2 /\ y1 + 256 <= y2
    /\ \A p \in PortalsOf(m, z) :
         LET c == Center(m, p)
         IN OnSide(c[1], c[2], x1, x2, y1, y2) \/ OnSide(c[2], c[1], y1, y2, x1, x2)

\* Within an area a detour over another portal does not look shorter.
Flat(m) ==
  \A z : \A p, q, r \in PortalsOf(m, z) : Leg(m, p, r) <= Leg(m, p, q) + Leg(m, q, r)

\* A detour over a portal on another side is longer by at least a pixel.
LEMMA FramedIsFlat ==
  ASSUME NEW m, SquaresFit, \A p \in DOMAIN m.portal : Center(m, p) \in Pixels, \A z : Framed(m, z)
  PROVE  Flat(m)
<1> SUFFICES ASSUME NEW z, NEW p \in PortalsOf(m, z), NEW q \in PortalsOf(m, z), NEW r \in PortalsOf(m, z)
             PROVE  Leg(m, p, r) <= Leg(m, p, q) + Leg(m, q, r)
  BY DEF Flat
<1> DEFINE P == Center(m, p)
           Q == Center(m, q)
           R == Center(m, r)
           A == Cost(P, Q)
           B == Cost(Q, R)
           C == Cost(P, R)
<1>1. P \in Pixels /\ Q \in Pixels /\ R \in Pixels
  BY DEF PortalsOf
<1>2. PICK x1, x2, y1, y2 \in Int :
        /\ x1 + 256 <= x2 /\ y1 + 256 <= y2
        /\ \A v \in PortalsOf(m, z) :
             LET c == Center(m, v)
             IN OnSide(c[1], c[2], x1, x2, y1, y2) \/ OnSide(c[2], c[1], y1, y2, x1, x2)
  BY DEF Framed
<1>3. /\ OnSide(P[1], P[2], x1, x2, y1, y2) \/ OnSide(P[2], P[1], y1, y2, x1, x2)
      /\ OnSide(Q[1], Q[2], x1, x2, y1, y2) \/ OnSide(Q[2], Q[1], y1, y2, x1, x2)
      /\ OnSide(R[1], R[2], x1, x2, y1, y2) \/ OnSide(R[2], R[1], y1, y2, x1, x2)
  BY <1>2
<1>4. Leg(m, p, r) = C /\ Leg(m, p, q) = A /\ Leg(m, q, r) = B
  BY DEF Leg
<1> HIDE DEF P, Q, R
<1>5. IsRoot(A, Square(P, Q)) /\ IsRoot(B, Square(Q, R)) /\ IsRoot(C, Square(P, R)) /\ C <= MAX_COST
  <2>1. C \in 0 .. MAX_COST
    BY <1>1, CostSound
  <2> HIDE DEF A, B, C
  <2>2. C <= MAX_COST
    <3>1. MAX_COST \in Nat
      BY DEF MAX_COST
    <3> QED BY <2>1, <3>1
  <2>3. IsRoot(A, Square(P, Q)) /\ IsRoot(B, Square(Q, R)) /\ IsRoot(C, Square(P, R))
    BY <1>1, CostIs DEF A, B, C
  <2> QED BY <2>2, <2>3
<1>12. x1 + 256 <= x2 /\ y1 + 256 <= y2
  BY <1>2
<1>6. P[1] \in Int /\ P[2] \in Int /\ Q[1] \in Int /\ Q[2] \in Int /\ R[1] \in Int /\ R[2] \in Int
  BY <1>1, SizeAssumption DEF Pixels, TILE_SCALE
<1> HIDE DEF A, B, C
<1>7. CASE OnSide(Q[1], Q[2], x1, x2, y1, y2)
  <2>1. Q[1] \in {x1, x2}
    BY <1>7 DEF OnSide
  <2>2. \/ P[1] = Q[1] \/ R[1] = Q[1]
        \/ P[1] <= Q[1] - 127 /\ R[1] <= Q[1] - 127
        \/ P[1] >= Q[1] + 127 /\ R[1] >= Q[1] + 127
    BY ONLY <1>3, <1>6, <1>12, <2>1 DEF OnSide
  <2>3. /\ IsRoot(A, (P[1] - Q[1]) * (P[1] - Q[1]) + (P[2] - Q[2]) * (P[2] - Q[2]))
        /\ IsRoot(B, (Q[1] - R[1]) * (Q[1] - R[1]) + (Q[2] - R[2]) * (Q[2] - R[2]))
        /\ IsRoot(C, (P[1] - R[1]) * (P[1] - R[1]) + (P[2] - R[2]) * (P[2] - R[2]))
    BY ONLY <1>5 DEF Square
  <2>4. C <= A + B
    BY ONLY <1>5, <1>6, <2>2, <2>3, OverSide
  <2> QED BY <1>4, <2>4
<1>8. CASE OnSide(Q[2], Q[1], y1, y2, x1, x2)
  <2>1. Q[2] \in {y1, y2}
    BY <1>8 DEF OnSide
  <2>2. \/ P[2] = Q[2] \/ R[2] = Q[2]
        \/ P[2] <= Q[2] - 127 /\ R[2] <= Q[2] - 127
        \/ P[2] >= Q[2] + 127 /\ R[2] >= Q[2] + 127
    BY ONLY <1>3, <1>6, <1>12, <2>1 DEF OnSide
  <2>3. /\ Square(P, Q) = (P[2] - Q[2]) * (P[2] - Q[2]) + (P[1] - Q[1]) * (P[1] - Q[1])
        /\ Square(Q, R) = (Q[2] - R[2]) * (Q[2] - R[2]) + (Q[1] - R[1]) * (Q[1] - R[1])
        /\ Square(P, R) = (P[2] - R[2]) * (P[2] - R[2]) + (P[1] - R[1]) * (P[1] - R[1])
    BY ONLY <1>6 DEF Square
  <2>4. /\ IsRoot(A, (P[2] - Q[2]) * (P[2] - Q[2]) + (P[1] - Q[1]) * (P[1] - Q[1]))
        /\ IsRoot(B, (Q[2] - R[2]) * (Q[2] - R[2]) + (Q[1] - R[1]) * (Q[1] - R[1]))
        /\ IsRoot(C, (P[2] - R[2]) * (P[2] - R[2]) + (P[1] - R[1]) * (P[1] - R[1]))
    BY ONLY <1>5, <2>3
  <2>5. C <= A + B
    BY ONLY <1>5, <1>6, <2>2, <2>4, OverSide
  <2> QED BY <1>4, <2>5
<1> QED BY <1>3, <1>7, <1>8

\* The frame goes around the pixels of the rectangle, but on the left and above just outside of it.
LEMMA CenterOnSide ==
  ASSUME NEW m, Rectangles(m), PortalsSound(m), NEW z \in DOMAIN m.rect, NEW p \in PortalsOf(m, z)
  PROVE  LET r == m.rect[z]
             c == Center(m, p)
             x1 == r.x1 * 256 - 1
             x2 == r.x2 * 256 + 255
             y1 == r.y1 * 256 - 1
             y2 == r.y2 * 256 + 255
         IN OnSide(c[1], c[2], x1, x2, y1, y2) \/ OnSide(c[2], c[1], y1, y2, x1, x2)
<1> DEFINE dir == m.portal[p].dir
           a == m.portal[p].area[0]
           b == m.portal[p].area[1]
           s1 == m.portal[p].s1
           s2 == m.portal[p].s2
           span == s2 - s1 + 1
           x == s1 * 256 + (span * 256) \div 2
           r == m.rect[z]
           c == Center(m, p)
<1>1. Ends(m, dir, a, b, s1, s2)
  BY PortalEnds DEF PortalsOf
<1>2. c = IF dir = VERTICAL THEN <<(m.rect[a].x2 + 1) * 256 - 1, x>>
          ELSE <<x, (m.rect[a].y2 + 1) * 256 - 1>>
  BY DEF Center, TILE_SCALE
<1>3. z = a \/ z = b
  BY DEF PortalsOf, Of
<1> HIDE DEF dir, a, b, s1, s2, c
<1>4. Far(m.rect[a], dir) \in Int
      /\ c = IF dir = VERTICAL THEN <<Far(m.rect[a], dir) * 256 + 255, x>> ELSE <<x, Far(m.rect[a], dir) * 256 + 255>>
  BY ONLY <1>1, <1>2 DEF Far, Ends
<1>5. /\ s1 \in Int /\ s2 \in Int /\ s1 <= s2
      /\ Low(r, dir) \in Int /\ High(r, dir) \in Int /\ Low(r, dir) <= s1 /\ s2 <= High(r, dir)
      /\ Near(r, dir) \in Int /\ Far(r, dir) \in Int
      /\ Far(m.rect[a], dir) = Far(r, dir) \/ Far(m.rect[a], dir) = Near(r, dir) - 1
      /\ dir \in Dirs
  BY ONLY <1>1, <1>3 DEF Ends
<1>6. x \in Int /\ 256 * s1 + 128 <= x /\ x <= 256 * s2 + 128
  <2>1. span \in Int /\ span = s2 - s1 + 1 /\ span >= 1
    BY ONLY <1>5
  <2> HIDE DEF span
  <2>2. (span * 256) \div 2 = span * 128
    BY ONLY <2>1
  <2> QED BY ONLY <1>5, <2>1, <2>2
<1>7. 256 * Low(r, dir) - 1 + 127 <= x /\ x <= 256 * High(r, dir) + 255 - 127
  BY ONLY <1>5, <1>6
<1>8. Far(m.rect[a], dir) * 256 + 255 \in {Near(r, dir) * 256 - 1, Far(r, dir) * 256 + 255}
  BY ONLY <1>4, <1>5
<1> HIDE DEF x, r
<1>9. OnSide(Far(m.rect[a], dir) * 256 + 255, x, Near(r, dir) * 256 - 1, Far(r, dir) * 256 + 255,
             Low(r, dir) * 256 - 1, High(r, dir) * 256 + 255)
  BY ONLY <1>5, <1>6, <1>7, <1>8 DEF OnSide
<1>10. CASE dir = VERTICAL
  BY ONLY <1>4, <1>9, <1>10 DEF Near, Far, Low, High, r, c
<1>11. CASE dir # VERTICAL
  BY ONLY <1>4, <1>9, <1>11 DEF Near, Far, Low, High, r, c
<1> QED BY <1>10, <1>11

LEMMA AreaFramed ==
  ASSUME NEW m, Rectangles(m), PortalsSound(m), NEW z
  PROVE  Framed(m, z)
<1>1. CASE z \in DOMAIN m.rect
  <2> DEFINE r == m.rect[z]
             x1 == r.x1 * 256 - 1
             x2 == r.x2 * 256 + 255
             y1 == r.y1 * 256 - 1
             y2 == r.y2 * 256 + 255
  <2>1. r \in Rect /\ r.x1 <= r.x2 /\ r.y1 <= r.y2
    BY <1>1 DEF Rectangles
  <2>2. x1 \in Int /\ x2 \in Int /\ y1 \in Int /\ y2 \in Int /\ x1 + 256 <= x2 /\ y1 + 256 <= y2
    BY <2>1 DEF Rect
  <2>3. ASSUME NEW p \in PortalsOf(m, z)
        PROVE  LET c == Center(m, p)
               IN OnSide(c[1], c[2], x1, x2, y1, y2) \/ OnSide(c[2], c[1], y1, y2, x1, x2)
    BY <1>1, CenterOnSide
  <2> HIDE DEF x1, x2, y1, y2
  <2> QED BY <2>2, <2>3 DEF Framed
<1>2. CASE z \notin DOMAIN m.rect
  <2>1. ASSUME NEW p \in PortalsOf(m, z) PROVE FALSE
    <3>1. p \in DOMAIN m.portal /\ (z = m.portal[p].area[0] \/ z = m.portal[p].area[1])
      BY DEF PortalsOf, Of
    <3> QED BY <1>2, <3>1, PortalIs
  <2>2. 0 \in Int /\ 256 \in Int /\ 0 + 256 <= 256
    OBVIOUS
  <2> QED BY <2>1, <2>2 DEF Framed
<1> QED BY <1>1, <1>2

\* What the search needs of the map.
GraphSound(m) ==
  /\ SquaresFit
  /\ IsFiniteSet(DOMAIN m.portal) /\ Cardinality(DOMAIN m.portal) \in Nat /\ Cardinality(DOMAIN m.portal) <= MaxOpen
  /\ NoPortal \notin DOMAIN m.portal
  /\ \A p \in DOMAIN m.portal : Center(m, p) \in Pixels
  /\ \A p, q \in DOMAIN m.portal : Center(m, p) = Center(m, q) => p = q
  /\ Flat(m) /\ \A p \in DOMAIN m.portal : m.portal[p].area[0] # m.portal[p].area[1]
  /\ \A s \in Sides(m) : RingCovers(m, RingFrom(m, s), AreaOf(m, s))
  /\ \A a : RingCovers(m, Ring(m, a), a)

\* A ring may be entered at any of its sides.
LEMMA RingFromIs ==
  ASSUME NEW m, NEW S, Ringed(m, S), Bounded(m, S), NEW s \in S
  PROVE  /\ RingSet(RingFrom(m, s)) = {t \in S : AreaOf(m, t) = AreaOf(m, s)}
         /\ \E n \in Nat : DOMAIN RingFrom(m, s) = 1 .. n
<1> DEFINE area == [t \in S |-> AreaOf(m, t)]
           val == [t \in S |-> Value(m, t)]
<1>1. IsFiniteSet(S) /\ Sorted(S, m.next, m.prev, area, val)
  BY DEF Ringed
<1>2. Full \in Nat /\ \A t \in S : val[t] \in 0 .. Full
  <2>1. Full \in Nat
    BY SMT DEF Full
  <2> QED BY <2>1 DEF Bounded
<1>3. area[s] = AreaOf(m, s) /\ \A t \in S : area[t] = AreaOf(m, t)
  OBVIOUS
<1> HIDE DEF area, val
<1>4. Pointers(m, S)
  BY <1>1 DEF Pointers, Sorted, Linked
<1>5. /\ RingSet(RingFrom(m, s)) = {t \in S : area[t] = area[s]}
      /\ DOMAIN RingFrom(m, s) = 1 .. Round(m, s) /\ Round(m, s) \in Nat \ {0}
      /\ \A i, j \in 1 .. Round(m, s) : RingFrom(m, s)[i] = RingFrom(m, s)[j] => i = j
  BY <1>1, <1>2, <1>4, RingWalk
<1>6. RingSet(RingFrom(m, s)) = {t \in S : AreaOf(m, t) = AreaOf(m, s)}
  BY <1>3, <1>5
<1> QED BY <1>5, <1>6

\* Rings, centers and the number of portals of every map that was dug.
LEMMA MapIsGraph ==
  ASSUME NEW m, MapInv(m, {}), Paired(m), SquaresFit, Cardinality(DOMAIN m.portal) <= MaxOpen
  PROVE  GraphSound(m)
<1>1. Rectangles(m) /\ PortalsSound(m) /\ Ringed(m, Sides(m)) /\ Drawn(m, {})
  BY DEF MapInv, Drawn
<1>2. Bounded(m, Sides(m))
  BY <1>1, AllBounded
<1>3. IsFiniteSet(DOMAIN m.portal) /\ Cardinality(DOMAIN m.portal) \in Nat
  BY PortalsFinite
<1>4. NoPortal \notin DOMAIN m.portal
  <2>1. <<0, 0>> \notin WithinBorder
    BY SizeAssumption DEF WithinBorder
  <2>2. \A p \in DOMAIN m.portal : p[1] \in WithinBorder
    BY <1>1 DEF PortalsSound, Rectangles
  <2>3. NoPortal[1] = <<0, 0>>
    BY DEF NoPortal
  <2> QED BY <2>1, <2>2, <2>3
<1>5. ASSUME NEW a PROVE RingCovers(m, Ring(m, a), a)
  <2>1. RingSet(Ring(m, a)) = {t \in Sides(m) : AreaOf(m, t) = a} /\ \E n \in Nat : DOMAIN Ring(m, a) = 1 .. n
    BY <1>1, <1>2, RingIs
  <2> QED BY <2>1, RingCoversArea
<1>6. ASSUME NEW s \in Sides(m) PROVE RingCovers(m, RingFrom(m, s), AreaOf(m, s))
  <2>1. /\ RingSet(RingFrom(m, s)) = {t \in Sides(m) : AreaOf(m, t) = AreaOf(m, s)}
        /\ \E n \in Nat : DOMAIN RingFrom(m, s) = 1 .. n
    BY <1>1, <1>2, RingFromIs
  <2> QED BY <2>1, RingCoversArea
<1>7. \A p \in DOMAIN m.portal : Center(m, p) \in Pixels
  BY <1>1, CenterOnMap
<1>8. \A p, q \in DOMAIN m.portal : Center(m, p) = Center(m, q) => p = q
  BY <1>1, CentersDiffer
<1>9. Flat(m)
  BY <1>1, <1>7, AreaFramed, FramedIsFlat
<1>10. \A p \in DOMAIN m.portal : m.portal[p].area[0] # m.portal[p].area[1]
  BY <1>1, PortalIs
<1> QED BY <1>3, <1>4, <1>5, <1>6, <1>7, <1>8, <1>9, <1>10 DEF GraphSound

\* Legs have a length, take more than nothing, and are less than a pixel longer than a detour.
LEMMA LegIs ==
  ASSUME NEW m, GraphSound(m), NEW s \in Pixels, NEW p \in DOMAIN m.portal
  PROVE  /\ Ahead(m, p, s) \in 0 .. MAX_COST /\ Cost(s, Center(m, p)) \in 0 .. MAX_COST
         /\ \A q \in DOMAIN m.portal : /\ Leg(m, p, q) \in 0 .. MAX_COST /\ (p # q => Leg(m, p, q) >= 1)
                                        /\ Leg(m, p, q) = Leg(m, q, p)
                                        /\ Ahead(m, p, s) <= Leg(m, p, q) + Ahead(m, q, s) + 1
                                        /\ Cost(s, Center(m, p)) <= Cost(s, Center(m, q)) + Leg(m, q, p) + 1
<1>1. SquaresFit /\ Center(m, p) \in Pixels
  BY DEF GraphSound
<1>2. Ahead(m, p, s) \in 0 .. MAX_COST /\ Cost(s, Center(m, p)) \in 0 .. MAX_COST
  BY <1>1, CostSound DEF Ahead
<1>3. ASSUME NEW q \in DOMAIN m.portal
      PROVE  /\ Leg(m, p, q) \in 0 .. MAX_COST /\ (p # q => Leg(m, p, q) >= 1)
             /\ Leg(m, p, q) = Leg(m, q, p)
             /\ Ahead(m, p, s) <= Leg(m, p, q) + Ahead(m, q, s) + 1
             /\ Cost(s, Center(m, p)) <= Cost(s, Center(m, q)) + Leg(m, q, p) + 1
  <2>1. Center(m, q) \in Pixels /\ (p # q => Center(m, p) # Center(m, q))
    BY DEF GraphSound
  <2>2. Leg(m, p, q) \in 0 .. MAX_COST /\ (p # q => Leg(m, p, q) >= 1) /\ Leg(m, p, q) = Leg(m, q, p)
    BY <1>1, <2>1, CostSound DEF Leg
  <2>3. /\ Ahead(m, p, s) <= Leg(m, p, q) + Ahead(m, q, s) + 1
        /\ Cost(s, Center(m, p)) <= Cost(s, Center(m, q)) + Leg(m, q, p) + 1
    BY <1>1, <2>1, CostTriangle DEF Leg, Ahead
  <2> QED BY <2>2, <2>3
<1> QED BY <1>2, <1>3

-----------------------------------------------------------------------------
(* A portal is reached *)

\* Entries of the open set.
EntriesOn(m) == [portal : DOMAIN m.portal, fromside : {0, 1}, cost : Int]
Entries(f) == {f.open[i] : i \in 1 .. Len(f.open)}

\* Portals that are known have a cost, and those in the open set are known.
Typed(m, f, s) ==
  /\ f = [open |-> f.open, cost |-> f.cost, prev |-> f.prev]
  /\ DOMAIN f.cost \subseteq DOMAIN m.portal
  /\ f.cost \in [DOMAIN f.cost -> Nat] /\ DOMAIN f.prev = DOMAIN f.cost
  /\ Heap(f.open, EntriesOn(m), Entries(f))
  /\ \A x \in Entries(f) : /\ x.portal \in DOMAIN f.cost
                            /\ x.cost = f.cost[x.portal] + Ahead(m, x.portal, s)

\* The entries are those that the heap holds.
LEMMA HeapOf ==
  ASSUME NEW f, NEW E, NEW C, Heap(f.open, E, C)
  PROVE  Entries(f) = C
BY DEF Heap, Holds, Entries

\* There is room for a portal that is not in the open set.
LEMMA RoomInside ==
  ASSUME NEW m, NEW f, NEW s, Typed(m, f, s), GraphSound(m), NEW p \in DOMAIN m.portal,
         \A x \in Entries(f) : x.portal # p
  PROVE  Len(f.open) < MaxOpen
<1> DEFINE n == Len(f.open)
           P == DOMAIN m.portal
           place == [i \in 1 .. n |-> f.open[i].portal]
<1>1. /\ n \in Nat /\ \A i \in 1 .. n : f.open[i] \in Entries(f)
  BY HeapFacts DEF Typed
<1>2. \A i, j \in 1 .. n : f.open[i].portal = f.open[j].portal => i = j
  BY DEF Typed, Heap, Holds
<1>3. \A i \in 1 .. n : f.open[i].portal \in P \ {p}
  BY <1>1 DEF Typed
<1>4. IsFiniteSet(P) /\ Cardinality(P) \in Nat /\ Cardinality(P) <= MaxOpen
  BY DEF GraphSound
<1> HIDE DEF n, P
<1>5. place \in Injection(1 .. n, P \ {p})
  <2>1. place \in [1 .. n -> P \ {p}]
    BY <1>3
  <2>2. \A i, j \in 1 .. n : place[i] = place[j] => i = j
    BY <1>2
  <2> HIDE DEF place
  <2> QED BY ONLY <2>1, <2>2 DEF Injection, IsInjective
<1>6. IsFiniteSet(P \ {p}) /\ Cardinality(P \ {p}) = Cardinality(P) - 1
  BY <1>4, FS_RemoveElement DEF P
<1>7. IsFiniteSet(1 .. n) /\ Cardinality(1 .. n) = n
  BY <1>1, FS_Interval
<1>8. Cardinality(1 .. n) <= Cardinality(P \ {p})
  BY <1>5, <1>6, <1>7, FS_Injection
<1> QED BY <1>1, <1>4, <1>6, <1>7, <1>8, FinderAssumption DEF n

\* What finder_find does with a portal of the area: nothing, or it is known at the new cost and
\* has its only entry there.
LEMMA ReachedIs ==
  ASSUME NEW m, GraphSound(m), NEW s \in Pixels, NEW g, Typed(m, g, s), NEW way,
         way.cost \in Nat, way.from \in Pixels,
         NEW p \in DOMAIN m.portal, NEW cost, cost = way.cost + Cost(way.from, Center(m, p))
  PROVE  LET g2 == Reached(m, g, way, p, s) IN
         IF p = way.prev \/ (p \in DOMAIN g.cost /\ g.cost[p] <= cost) THEN g2 = g
         ELSE /\ Typed(m, g2, s)
              /\ g2.cost = With(g.cost, p, cost) /\ g2.prev = With(g.prev, p, way.prev)
              /\ Entries(g2) = {x \in Entries(g) : x.portal # p} \cup {Entry(m, p, way.area, cost, s)}
<1> DEFINE g2 == Reached(m, g, way, p, s)
           entry == Entry(m, p, way.area, cost, s)
           places == {i \in DOMAIN g.open : g.open[i].portal = p}
           open2 == IF places = {} THEN Added(g.open, entry) ELSE Updated(g.open, Least(places), entry)
           C2 == {x \in Entries(g) : x.portal # p} \cup {entry}
<1>1. g2 = IF p = way.prev \/ ~Better(g, p, cost) THEN g
           ELSE [open |-> open2, cost |-> With(g.cost, p, cost), prev |-> With(g.prev, p, way.prev)]
  BY DEF Reached
<1>2. cost \in Nat /\ Ahead(m, p, s) \in Nat
  <2>1. Cost(way.from, Center(m, p)) \in 0 .. MAX_COST
    BY LegIs
  <2>2. Ahead(m, p, s) \in 0 .. MAX_COST
    BY LegIs
  <2>3. MAX_COST \in Nat
    BY DEF MAX_COST
  <2> QED BY ONLY way.cost \in Nat, cost = way.cost + Cost(way.from, Center(m, p)), <2>1, <2>2, <2>3
<1>3. entry \in EntriesOn(m) /\ entry.portal = p /\ entry.cost = cost + Ahead(m, p, s)
  BY <1>2 DEF Entry, EntriesOn, Ahead
<1>4. /\ DOMAIN g.cost \subseteq DOMAIN m.portal
      /\ g.cost \in [DOMAIN g.cost -> Nat] /\ DOMAIN g.prev = DOMAIN g.cost
      /\ Heap(g.open, EntriesOn(m), Entries(g))
      /\ \A x \in Entries(g) : x.portal \in DOMAIN g.cost /\ x.cost = g.cost[x.portal] + Ahead(m, x.portal, s)
  BY DEF Typed
<1>5. /\ Len(g.open) \in Nat /\ DOMAIN g.open = 1 .. Len(g.open)
      /\ \A i \in 1 .. Len(g.open) : g.open[i] \in Entries(g)
      /\ \A x \in Entries(g) : \E i \in 1 .. Len(g.open) : g.open[i] = x
  <2>1. Heap(g.open, EntriesOn(m), Entries(g))
    BY <1>4
  <2> QED BY ONLY <2>1, HeapFacts
<1> HIDE DEF g2, entry
<1>6. ASSUME ~(p = way.prev \/ (p \in DOMAIN g.cost /\ g.cost[p] <= cost))
      PROVE  /\ Typed(m, g2, s)
             /\ g2.cost = With(g.cost, p, cost) /\ g2.prev = With(g.prev, p, way.prev)
             /\ Entries(g2) = C2
  <2>1. g2 = [open |-> open2, cost |-> With(g.cost, p, cost), prev |-> With(g.prev, p, way.prev)]
    <3>1. Better(g, p, cost)
      BY <1>2, <1>4, <1>6 DEF Better
    <3> QED BY <1>1, <1>6, <3>1
  <2>2. Heap(open2, EntriesOn(m), C2)
    <3>1. CASE places = {}
      <4>1. \A x \in Entries(g) : x.portal # p
        BY <1>5, <3>1
      <4>2. Len(g.open) < MaxOpen
        BY <4>1, RoomInside
      <4>3. Heap(Added(g.open, entry), EntriesOn(m), Entries(g) \cup {entry})
        BY <1>3, <1>4, <4>1, <4>2, AddedKeeps
      <4>4. C2 = Entries(g) \cup {entry}
        BY <4>1
      <4> QED BY <3>1, <4>3, <4>4
    <3>2. CASE places # {}
      <4> DEFINE i == Least(places)
      <4>1. i \in places
        <5>1. places \subseteq Nat
          BY <1>5
        <5>2. \E n \in places : \A k \in places : n <= k
          BY <3>2, <5>1, LeastOf
        <5> QED BY <5>2 DEF Least
      <4> HIDE DEF i
      <4>2. i \in 1 .. Len(g.open) /\ g.open[i].portal = p /\ g.open[i] \in Entries(g)
        BY <1>5, <4>1
      <4>3. /\ p \in DOMAIN g.cost /\ g.open[i].cost = g.cost[p] + Ahead(m, p, s) /\ g.cost[p] \in Nat
            /\ cost < g.cost[p]
        BY <1>2, <1>4, <1>6, <4>2
      <4>4. entry.cost <= g.open[i].cost
        BY ONLY <1>2, <1>3, <4>3
      <4>5. Heap(Updated(g.open, i, entry), EntriesOn(m), {x \in Entries(g) : x.portal # entry.portal} \cup {entry})
        BY <1>3, <1>4, <4>2, <4>4, UpdatedKeeps
      <4> QED BY <1>3, <3>2, <4>5 DEF i
    <3> QED BY <3>1, <3>2
  <2> HIDE DEF open2, C2
  <2>3. g2.open = open2 /\ g2.cost = With(g.cost, p, cost) /\ g2.prev = With(g.prev, p, way.prev)
    BY <2>1
  <2>4. Entries(g2) = C2
    BY <2>2, <2>3, HeapOf
  <2>5. /\ DOMAIN g2.cost = DOMAIN g.cost \cup {p} /\ DOMAIN g2.prev = DOMAIN g2.cost
        /\ g2.cost[p] = cost /\ \A y \in DOMAIN g.cost : y # p => g2.cost[y] = g.cost[y]
    <3>1. /\ DOMAIN With(g.cost, p, cost) = DOMAIN g.cost \cup {p}
          /\ With(g.cost, p, cost)[p] = cost
          /\ \A y \in DOMAIN g.cost : y # p => With(g.cost, p, cost)[y] = g.cost[y]
      BY DEF With
    <3>2. DOMAIN With(g.prev, p, way.prev) = DOMAIN g.prev \cup {p}
      BY DEF With
    <3> QED BY <1>4, <2>3, <3>1, <3>2
  <2>6. g2.cost \in [DOMAIN g2.cost -> Nat]
    <3>1. \A y \in DOMAIN g2.cost : g2.cost[y] \in Nat
      BY <1>2, <1>4, <2>5
    <3>2. g2.cost = [y \in DOMAIN g2.cost |-> g2.cost[y]]
      BY <2>3 DEF With
    <3> QED BY <3>1, <3>2
  <2>7. \A x \in Entries(g2) : x.portal \in DOMAIN g2.cost /\ x.cost = g2.cost[x.portal] + Ahead(m, x.portal, s)
    BY <1>3, <1>4, <2>4, <2>5 DEF C2
  <2>8. g2 = [open |-> g2.open, cost |-> g2.cost, prev |-> g2.prev]
    BY <2>1
  <2>9. DOMAIN g2.cost \subseteq DOMAIN m.portal
    BY <1>4, <2>5
  <2>10. Heap(g2.open, EntriesOn(m), Entries(g2))
    BY <2>2, <2>3, <2>4
  <2>11. Typed(m, g2, s)
    BY ONLY <2>5, <2>6, <2>7, <2>8, <2>9, <2>10 DEF Typed
  <2> QED BY <2>3, <2>4, <2>11
<1>7. ASSUME p = way.prev \/ (p \in DOMAIN g.cost /\ g.cost[p] <= cost) PROVE g2 = g
  <2>1. p = way.prev \/ ~Better(g, p, cost)
    BY <1>2, <1>4, <1>7 DEF Better
  <2> QED BY <1>1, <2>1
<1> QED BY <1>6, <1>7 DEF g2, entry

-----------------------------------------------------------------------------
(* A ring is walked along *)

\* What of g is as in f, and what is new in it: portals of the area to which the way is cheaper.
Same(f, g, p) ==
  /\ p \in DOMAIN f.cost /\ g.cost[p] = f.cost[p] /\ g.prev[p] = f.prev[p]
  /\ {x \in Entries(g) : x.portal = p} = {x \in Entries(f) : x.portal = p}

Cheaper(m, f, g, way, s, p) ==
  /\ p \in PortalsOf(m, way.area) /\ p # way.prev
  /\ p \in DOMAIN f.cost => g.cost[p] < f.cost[p]
  /\ g.cost[p] = way.cost + Cost(way.from, Center(m, p)) /\ g.prev[p] = way.prev
  /\ Entry(m, p, way.area, g.cost[p], s) \in Entries(g)

ReachedIn(m, g, way, p) == p \in DOMAIN g.cost /\ g.cost[p] <= way.cost + Cost(way.from, Center(m, p))

\* After the portals in R.
Spread(m, f, g, way, s, R) ==
  /\ Typed(m, g, s)
  /\ \A p \in R : ReachedIn(m, g, way, p)
  /\ DOMAIN f.cost \subseteq DOMAIN g.cost
  /\ \A p \in DOMAIN g.cost : Same(f, g, p) \/ Cheaper(m, f, g, way, s, p)

\* A way starts at a point from which a known portal, or none, leads.
WayFrom(m, f, way) ==
  /\ way.cost \in Nat /\ way.from \in Pixels
  /\ way.prev = NoPortal \/ (way.prev \in DOMAIN f.cost /\ f.cost[way.prev] = way.cost)

\* One portal more.
LEMMA ReachedSpreads ==
  ASSUME NEW m, GraphSound(m), NEW s \in Pixels, NEW f, NEW way, WayFrom(m, f, way),
         NEW g, NEW R, Spread(m, f, g, way, s, R), NEW p \in PortalsOf(m, way.area)
  PROVE  Spread(m, f, Reached(m, g, way, p, s), way, s, R \cup {p})
<1> DEFINE g2 == Reached(m, g, way, p, s)
           cost == way.cost + Cost(way.from, Center(m, p))
           entry == Entry(m, p, way.area, cost, s)
<1>1. /\ Typed(m, g, s) /\ DOMAIN f.cost \subseteq DOMAIN g.cost
      /\ \A q \in R : ReachedIn(m, g, way, q)
      /\ \A q \in DOMAIN g.cost : Same(f, g, q) \/ Cheaper(m, f, g, way, s, q)
  BY DEF Spread
<1>2. /\ way.cost \in Nat /\ way.from \in Pixels
      /\ way.prev = NoPortal \/ (way.prev \in DOMAIN f.cost /\ f.cost[way.prev] = way.cost)
  BY DEF WayFrom
<1>3. p \in DOMAIN m.portal /\ p # NoPortal
  BY DEF PortalsOf, GraphSound
<1>4. Cost(way.from, Center(m, p)) \in Nat /\ cost \in Nat
  <2>1. Cost(way.from, Center(m, p)) \in 0 .. MAX_COST
    BY ONLY GraphSound(m), <1>2, <1>3, LegIs
  <2>2. MAX_COST \in Nat
    BY DEF MAX_COST
  <2> QED BY ONLY <1>2, <2>1, <2>2
<1>5. IF p = way.prev \/ (p \in DOMAIN g.cost /\ g.cost[p] <= cost) THEN g2 = g
      ELSE /\ Typed(m, g2, s)
           /\ g2.cost = With(g.cost, p, cost) /\ g2.prev = With(g.prev, p, way.prev)
           /\ Entries(g2) = {x \in Entries(g) : x.portal # p} \cup {entry}
  BY ONLY GraphSound(m), s \in Pixels, <1>1, <1>2, <1>3, ReachedIs
<1>6. g.cost \in [DOMAIN g.cost -> Nat] /\ DOMAIN g.prev = DOMAIN g.cost
  BY <1>1 DEF Typed
<1>7. entry.portal = p
  BY DEF Entry
<1> HIDE DEF g2, cost, entry
<1>8. CASE p = way.prev \/ (p \in DOMAIN g.cost /\ g.cost[p] <= cost)
  <2>1. g2 = g
    BY <1>5, <1>8
  <2>2. ReachedIn(m, g, way, p)
    <3>1. CASE p = way.prev
      <4>1. p \in DOMAIN f.cost /\ f.cost[p] = way.cost /\ p \in DOMAIN g.cost
        BY <1>1, <1>2, <1>3, <3>1
      <4>2. ~Cheaper(m, f, g, way, s, p)
        BY <3>1 DEF Cheaper
      <4>3. g.cost[p] = way.cost
        BY <1>1, <4>1, <4>2 DEF Same
      <4> QED BY ONLY <1>2, <1>4, <4>1, <4>3 DEF ReachedIn
    <3>2. CASE p \in DOMAIN g.cost /\ g.cost[p] <= cost
      BY <3>2 DEF ReachedIn, cost
    <3> QED BY <1>8, <3>1, <3>2
  <2>3. \A q \in R \cup {p} : ReachedIn(m, g, way, q)
    BY <1>1, <2>2
  <2>4. Spread(m, f, g, way, s, R \cup {p})
    BY ONLY <1>1, <2>3 DEF Spread
  <2> QED BY <2>1, <2>4 DEF g2
<1>9. CASE ~(p = way.prev \/ (p \in DOMAIN g.cost /\ g.cost[p] <= cost))
  <2>1. /\ Typed(m, g2, s)
        /\ g2.cost = With(g.cost, p, cost) /\ g2.prev = With(g.prev, p, way.prev)
        /\ Entries(g2) = {x \in Entries(g) : x.portal # p} \cup {entry}
    BY <1>5, <1>9
  <2>2. /\ DOMAIN g2.cost = DOMAIN g.cost \cup {p}
        /\ g2.cost[p] = cost /\ \A y \in DOMAIN g.cost : y # p => g2.cost[y] = g.cost[y]
    BY <2>1 DEF With
  <2>3. g2.prev[p] = way.prev /\ \A y \in DOMAIN g.cost : y # p => g2.prev[y] = g.prev[y]
    BY <1>6, <2>1 DEF With
  <2>4. ASSUME NEW q \in DOMAIN g.cost, q # p
        PROVE  {x \in Entries(g2) : x.portal = q} = {x \in Entries(g) : x.portal = q}
    BY <1>7, <2>1, <2>4
  <2>5. p # way.prev /\ (p \in DOMAIN g.cost => cost < g.cost[p])
    BY <1>4, <1>6, <1>9
  <2>6. Cheaper(m, f, g2, way, s, p)
    <3>1. p \in DOMAIN f.cost => g.cost[p] <= f.cost[p] /\ f.cost[p] \in Int
      <4> SUFFICES ASSUME p \in DOMAIN f.cost PROVE g.cost[p] <= f.cost[p] /\ f.cost[p] \in Int
        OBVIOUS
      <4>1. p \in DOMAIN g.cost /\ g.cost[p] \in Nat
        BY <1>1, <1>6
      <4>2. CASE Same(f, g, p)
        BY <4>1, <4>2 DEF Same
      <4>3. CASE Cheaper(m, f, g, way, s, p)
        <5>1. g.cost[p] = cost
          BY <4>3 DEF Cheaper, cost
        <5> QED BY <2>5, <4>1, <5>1
      <4> QED BY <1>1, <4>1, <4>2, <4>3
    <3>2. p \in DOMAIN f.cost => g2.cost[p] < f.cost[p]
      BY <1>1, <1>4, <1>6, <2>2, <2>5, <3>1
    <3>3. entry \in Entries(g2)
      BY <2>1
    <3> QED BY <2>2, <2>3, <2>5, <3>2, <3>3 DEF Cheaper, cost, entry
  <2>7. ASSUME NEW q \in DOMAIN g2.cost PROVE Same(f, g2, q) \/ Cheaper(m, f, g2, way, s, q)
    <3>1. CASE q = p
      BY <2>6, <3>1
    <3>2. CASE q # p
      <4>1. q \in DOMAIN g.cost /\ g2.cost[q] = g.cost[q] /\ g2.prev[q] = g.prev[q]
        BY <2>2, <2>3, <2>7, <3>2
      <4>2. {x \in Entries(g2) : x.portal = q} = {x \in Entries(g) : x.portal = q}
        BY <2>4, <3>2, <4>1
      <4>3. Same(f, g, q) => Same(f, g2, q)
        BY <4>1, <4>2 DEF Same
      <4>4. ASSUME Cheaper(m, f, g, way, s, q) PROVE Cheaper(m, f, g2, way, s, q)
        <5> DEFINE x == Entry(m, q, way.area, g.cost[q], s)
        <5>1. x \in Entries(g)
          BY <4>4 DEF Cheaper
        <5>2. x.portal = q
          BY DEF Entry
        <5> HIDE DEF x
        <5>3. x \in Entries(g2)
          BY <2>1, <3>2, <5>1, <5>2
        <5> QED BY <4>1, <4>4, <5>3 DEF Cheaper, x
      <4> QED BY <1>1, <4>1, <4>3, <4>4
    <3> QED BY <3>1, <3>2
  <2>8. ASSUME NEW q \in R \cup {p} PROVE ReachedIn(m, g2, way, q)
    <3>1. CASE q = p
      BY <1>4, <2>2, <3>1 DEF ReachedIn, cost
    <3>2. CASE q # p
      <4>1. ReachedIn(m, g, way, q)
        BY <1>1, <3>2
      <4> QED BY <2>2, <3>2, <4>1 DEF ReachedIn
    <3> QED BY <3>1, <3>2
  <2>9. DOMAIN f.cost \subseteq DOMAIN g2.cost
    BY <1>1, <2>2
  <2>10. Spread(m, f, g2, way, s, R \cup {p})
    BY ONLY <2>1, <2>7, <2>8, <2>9 DEF Spread
  <2> QED BY <2>10 DEF g2
<1> QED BY <1>8, <1>9

\* The function that Along defines, after n turns.
IsWalkingAlong(m, f, way, ring, s, n, w) ==
  w = [k \in 0 .. n |-> IF k = 0 THEN f ELSE Reached(m, w[k - 1], way, ring[k][1], s)]

\* The function in the definition of Along exists, and so on below: a loop of n turns is one.
LEMMA WalkingAlongExists ==
  ASSUME NEW m, NEW f, NEW way, NEW ring, NEW s, NEW n \in Nat
  PROVE  \E w : IsWalkingAlong(m, f, way, ring, s, n, w)
<1> DEFINE Bad == {k \in Nat : ~ \E w : IsWalkingAlong(m, f, way, ring, s, k, w)}
<1> SUFFICES ASSUME Bad # {} PROVE FALSE
  OBVIOUS
<1>1. PICK b \in Bad : \A k \in Bad : b <= k
  BY LeastOf
<1>2. b \in Nat /\ ~ \E w : IsWalkingAlong(m, f, way, ring, s, b, w)
  OBVIOUS
<1>3. CASE b = 0
  <2> DEFINE w == [k \in 0 .. 0 |-> f]
  <2>1. IsWalkingAlong(m, f, way, ring, s, 0, w)
    BY DEF IsWalkingAlong
  <2> QED BY <1>2, <1>3, <2>1
<1>4. CASE b # 0
  <2>1. b - 1 \in Nat /\ b - 1 \notin Bad
    BY <1>1, <1>2, <1>4
  <2>2. PICK w : IsWalkingAlong(m, f, way, ring, s, b - 1, w)
    BY <2>1
  <2> DEFINE v == [k \in 0 .. b |-> IF k = b THEN Reached(m, w[b - 1], way, ring[b][1], s) ELSE w[k]]
  <2>3. ASSUME NEW k \in 0 .. b PROVE v[k] = IF k = 0 THEN f ELSE Reached(m, v[k - 1], way, ring[k][1], s)
    <3>1. CASE k = b
      BY <1>2, <1>4, <3>1
    <3>2. CASE k # b
      <4>1. k \in 0 .. b - 1 /\ (k # 0 => k - 1 \in 0 .. b /\ k - 1 # b)
        BY <1>2, <3>2
      <4>2. w[k] = IF k = 0 THEN f ELSE Reached(m, w[k - 1], way, ring[k][1], s)
        BY <2>2, <4>1 DEF IsWalkingAlong
      <4> QED BY <3>2, <4>1, <4>2
    <3> QED BY <3>1, <3>2
  <2>4. v = [k \in 0 .. b |-> v[k]]
    OBVIOUS
  <2> HIDE DEF v
  <2>5. IsWalkingAlong(m, f, way, ring, s, b, v)
    BY <2>3, <2>4 DEF IsWalkingAlong
  <2> QED BY <1>2, <2>5
<1> QED BY <1>3, <1>4

\* The whole ring.
LEMMA AlongSpreads ==
  ASSUME NEW m, GraphSound(m), NEW s \in Pixels, NEW f, Typed(m, f, s), NEW way, WayFrom(m, f, way),
         NEW ring, RingCovers(m, ring, way.area)
  PROVE  Spread(m, f, Along(m, f, way, ring, s), way, s, PortalsOf(m, way.area))
<1>1. PICK n \in Nat : DOMAIN ring = 1 .. n /\ {ring[k][1] : k \in 1 .. n} = PortalsOf(m, way.area)
  BY DEF RingCovers
<1>2. Cardinality(DOMAIN ring) = n
  BY <1>1, FS_Interval
<1> DEFINE w == CHOOSE v : IsWalkingAlong(m, f, way, ring, s, n, v)
<1>3. Along(m, f, way, ring, s) = w[n]
  BY <1>2 DEF Along, IsWalkingAlong
<1>4. IsWalkingAlong(m, f, way, ring, s, n, w)
  BY WalkingAlongExists
<1> HIDE DEF w
<1>5. \A k \in 0 .. n : w[k] = IF k = 0 THEN f ELSE Reached(m, w[k - 1], way, ring[k][1], s)
  BY <1>4 DEF IsWalkingAlong
<1> DEFINE R(k) == {ring[j][1] : j \in 1 .. k}
           Good(k) == Spread(m, f, w[k], way, s, R(k))
           Bad == {k \in 0 .. n : ~Good(k)}
<1>6. Good(0)
  <2>1. w[0] = f /\ R(0) = {}
    BY <1>5
  <2>2. \A p \in DOMAIN f.cost : Same(f, f, p)
    BY DEF Same
  <2>3. Spread(m, f, f, way, s, {})
    BY <2>2 DEF Spread
  <2> QED BY <2>1, <2>3
<1>7. ASSUME NEW k \in 1 .. n, Good(k - 1) PROVE Good(k)
  <2>1. w[k] = Reached(m, w[k - 1], way, ring[k][1], s) /\ ring[k][1] \in PortalsOf(m, way.area)
    BY <1>1, <1>5
  <2>2. R(k) = R(k - 1) \cup {ring[k][1]}
    <3>1. \A j \in 1 .. k : j = k \/ j \in 1 .. k - 1
      OBVIOUS
    <3>2. \A j \in 1 .. k - 1 : j \in 1 .. k
      OBVIOUS
    <3>3. k \in 1 .. k
      OBVIOUS
    <3> QED BY <3>1, <3>2, <3>3
  <2>3. Spread(m, f, w[k], way, s, R(k - 1) \cup {ring[k][1]})
    <3> HIDE DEF R
    <3>1. Spread(m, f, w[k - 1], way, s, R(k - 1))
      BY <1>7
    <3> QED BY ONLY GraphSound(m), s \in Pixels, WayFrom(m, f, way), <2>1, <3>1, ReachedSpreads
  <2> QED BY <2>2, <2>3
<1> HIDE DEF Good
<1>8. Good(n)
  <2> SUFFICES ASSUME Bad # {} PROVE FALSE
    OBVIOUS
  <2>1. PICK k \in Bad : \A l \in Bad : k <= l
    <3>1. Bad \subseteq Nat
      OBVIOUS
    <3> QED BY <3>1, LeastOf
  <2>2. k # 0 /\ k \in 1 .. n /\ k - 1 \in 0 .. n /\ ~(k <= k - 1)
    BY <1>6, <2>1
  <2>3. k - 1 \notin Bad
    BY <2>1, <2>2
  <2> QED BY <1>7, <2>1, <2>2, <2>3
<1>9. R(n) = PortalsOf(m, way.area)
  BY <1>1
<1> QED BY <1>3, <1>8, <1>9 DEF Good

-----------------------------------------------------------------------------
(* What a search knows *)

\* Portals that were taken out of the open set, and the area in which an element of it was reached.
Done(f) == {p \in DOMAIN f.cost : \A x \in Entries(f) : x.portal # p}
Entered(m, x) == AreaOf(m, <<x.portal, x.fromside>>)

\* The portals of area c are known, and over p none of them is cheaper.
Around(m, f, p, c) ==
  \A q \in PortalsOf(m, c) : q \in DOMAIN f.cost /\ f.cost[q] <= f.cost[p] + Leg(m, p, q) + 1

\* The same from the end, for what is in the open set, and for what was taken out of it.
AroundEnd(m, f, b, e) ==
  \A q \in PortalsOf(m, b) : q \in DOMAIN f.cost /\ f.cost[q] <= Cost(e, Center(m, q))

AroundOpen(m, f) == \A x \in Entries(f) : Around(m, f, x.portal, Entered(m, x))
AroundDone(m, f) == \A p \in Done(f) : \A c \in Of(m, p) : Around(m, f, p, c)

\* The ways back lead down.
Descending(f) ==
  \A p \in DOMAIN f.cost :
    f.prev[p] = NoPortal \/ (f.prev[p] \in DOMAIN f.cost /\ f.cost[f.prev[p]] < f.cost[p])

\* No cost is greater than that of a way with the longest possible leg to every portal.
Affordable(f) == \A p \in DOMAIN f.cost : f.cost[p] <= MAX_COST * Cardinality(DOMAIN f.cost)

\* The area in which a portal was reached is the other one of the portal that leads back to it, or
\* that of the end, and not that of the start; nor did its cost fall since.
Sided(m, f, side, a, b) ==
  \A p \in DOMAIN f.cost :
    /\ side[p] \in Of(m, p) /\ side[p] # a
    /\ \A x \in Entries(f) : x.portal = p => Entered(m, x) = side[p]
    /\ IF f.prev[p] = NoPortal THEN side[p] = b
       ELSE /\ f.prev[p] \in DOMAIN f.cost /\ side[p] \in Of(m, f.prev[p]) \ {side[f.prev[p]]}
            /\ f.cost[f.prev[p]] + Leg(m, f.prev[p], p) <= f.cost[p]

\* A way goes on in the other area of the portal that leads to it.
WaySided(m, f, way, side, a, b) ==
  /\ way.area # a
  /\ IF way.prev = NoPortal THEN way.area = b /\ DOMAIN f.cost = {}
     ELSE way.area \in Of(m, way.prev) \ {side[way.prev]}

\* The invariant of the loop: the open set is a heap of portals that are known, the portals around
\* what was done are known at no more than it costs over it, and the start was not met.
Searched(m, f, a, b, s, e) ==
  /\ Typed(m, f, s)
  /\ AroundEnd(m, f, b, e) /\ AroundOpen(m, f) /\ AroundDone(m, f)
  /\ \A p \in Done(f) : a \notin Of(m, p)
  /\ Descending(f) /\ Affordable(f)
  /\ a # b => \E side : Sided(m, f, side, a, b)

\* The same between two turns of the search, when the ring of a way is still to be walked along.
Leaving(m, f, way, a, b, s, e) ==
  /\ Typed(m, f, s) /\ WayFrom(m, f, way)
  /\ AroundEnd(m, f, b, e) \/ (way.area = b /\ way.from = e /\ way.cost = 0)
  /\ AroundOpen(m, f)
  /\ \A p \in Done(f) : \A c \in Of(m, p) : Around(m, f, p, c) \/ (p = way.prev /\ c = way.area)
  /\ \A p \in Done(f) : a \notin Of(m, p)
  /\ way.prev # NoPortal => way.from = Center(m, way.prev)
  /\ Descending(f) /\ Affordable(f) /\ way.cost <= MAX_COST * Cardinality(DOMAIN f.cost)
  /\ a # b => \E side : Sided(m, f, side, a, b) /\ WaySided(m, f, way, side, a, b)

\* An entry knows the area it was reached in.
LEMMA EntryIs ==
  ASSUME NEW m, NEW c, NEW p \in PortalsOf(m, c), NEW cost, NEW s
  PROVE  Entry(m, p, c, cost, s).portal = p /\ Entered(m, Entry(m, p, c, cost, s)) = c
<1>1. c = m.portal[p].area[0] \/ c = m.portal[p].area[1]
  BY DEF PortalsOf, Of
<1>2. CASE m.portal[p].area[1] = c
  BY <1>2 DEF Entry, Entered, AreaOf
<1>3. CASE m.portal[p].area[1] # c
  BY <1>1, <1>3 DEF Entry, Entered, AreaOf
<1> QED BY <1>2, <1>3

LEMMA OneEntry ==
  ASSUME NEW m, NEW f, NEW s, Typed(m, f, s), NEW x \in Entries(f), NEW y \in Entries(f), x.portal = y.portal
  PROVE  x = y
<1>1. Heap(f.open, EntriesOn(m), Entries(f))
  BY DEF Typed
<1>2. \A z, v \in Entries(f) : z.portal = v.portal => z = v
  BY ONLY <1>1, HeapFacts
<1> QED BY <1>2

\* Costs only fall, and a portal that was taken out of the open set comes back only at less.
LEMMA SpreadFacts ==
  ASSUME NEW m, NEW s, NEW f, Typed(m, f, s), NEW way, NEW g, NEW R, Spread(m, f, g, way, s, R)
  PROVE  /\ \A p \in DOMAIN f.cost : p \in DOMAIN g.cost /\ g.cost[p] <= f.cost[p] /\ f.cost[p] \in Nat
         /\ \A p \in DOMAIN g.cost : g.cost[p] \in Nat
         /\ \A p \in DOMAIN g.cost : Same(f, g, p) => (p \in Done(f) <=> p \in Done(g))
         /\ \A p \in DOMAIN g.cost : Cheaper(m, f, g, way, s, p) => p \notin Done(g)
<1>1. f.cost \in [DOMAIN f.cost -> Nat] /\ g.cost \in [DOMAIN g.cost -> Nat]
  BY DEF Spread, Typed
<1>2. DOMAIN f.cost \subseteq DOMAIN g.cost /\ \A p \in DOMAIN g.cost : Same(f, g, p) \/ Cheaper(m, f, g, way, s, p)
  BY DEF Spread
<1>3. ASSUME NEW p \in DOMAIN f.cost PROVE p \in DOMAIN g.cost /\ g.cost[p] <= f.cost[p] /\ f.cost[p] \in Nat
  <2>1. p \in DOMAIN g.cost /\ g.cost[p] \in Nat /\ f.cost[p] \in Nat
    BY <1>1, <1>2
  <2>2. g.cost[p] = f.cost[p] \/ g.cost[p] < f.cost[p]
    BY <1>2, <2>1 DEF Same, Cheaper
  <2> QED BY <2>1, <2>2
<1>4. ASSUME NEW p \in DOMAIN g.cost, Same(f, g, p) PROVE p \in Done(f) <=> p \in Done(g)
  <2>1. p \in DOMAIN f.cost /\ {x \in Entries(g) : x.portal = p} = {x \in Entries(f) : x.portal = p}
    BY <1>4 DEF Same
  <2> QED BY <2>1 DEF Done
<1>5. ASSUME NEW p \in DOMAIN g.cost, Cheaper(m, f, g, way, s, p) PROVE p \notin Done(g)
  <2>1. Entry(m, p, way.area, g.cost[p], s) \in Entries(g)
    BY <1>5 DEF Cheaper
  <2>2. Entry(m, p, way.area, g.cost[p], s).portal = p
    BY DEF Entry
  <2> QED BY <2>1, <2>2 DEF Done
<1> QED BY <1>1, <1>3, <1>4, <1>5

\* Where a portal is reached at less, those to which it leads stay in the other one of its areas:
\* had it led on into the area of the way, they were reached from the way itself at no more.
LEMMA SpreadSided ==
  ASSUME NEW m, GraphSound(m), NEW s, NEW a, NEW b, NEW f, Typed(m, f, s), NEW way, WayFrom(m, f, way),
         way.prev # NoPortal => way.from = Center(m, way.prev),
         NEW g, Spread(m, f, g, way, s, PortalsOf(m, way.area)),
         NEW side, Sided(m, f, side, a, b), WaySided(m, f, way, side, a, b)
  PROVE  \E after : Sided(m, g, after, a, b)
<1> DEFINE A == way.area
           K == DOMAIN f.cost
           L == DOMAIN g.cost
           after == [p \in L |-> IF Cheaper(m, f, g, way, s, p) THEN A ELSE side[p]]
<1>1. /\ Typed(m, g, s) /\ (\A p \in L : Same(f, g, p) \/ Cheaper(m, f, g, way, s, p))
      /\ \A q \in PortalsOf(m, A) : q \in L /\ g.cost[q] <= way.cost + Cost(way.from, Center(m, q))
  BY DEF Spread, ReachedIn
<1>2. /\ \A p \in K : p \in L /\ g.cost[p] <= f.cost[p] /\ f.cost[p] \in Nat
      /\ \A p \in L : g.cost[p] \in Nat
  BY SpreadFacts
<1>3. K \subseteq DOMAIN m.portal /\ L \subseteq DOMAIN m.portal
  BY <1>1 DEF Typed
<1>4. /\ way.cost \in Nat /\ way.from \in Pixels
      /\ way.prev = NoPortal \/ (way.prev \in K /\ f.cost[way.prev] = way.cost)
  BY DEF WayFrom
<1>5. MAX_COST \in Nat
  BY DEF MAX_COST
<1>6. /\ A # a /\ (way.prev = NoPortal => A = b /\ K = {})
      /\ way.prev # NoPortal => A \in Of(m, way.prev) /\ A # side[way.prev]
  BY DEF WaySided
<1>7. \A p \in K : /\ side[p] \in Of(m, p) /\ side[p] # a
                   /\ \A x \in Entries(f) : x.portal = p => Entered(m, x) = side[p]
                   /\ f.prev[p] = NoPortal => side[p] = b
                   /\ f.prev[p] # NoPortal =>
                        /\ f.prev[p] \in K /\ side[p] \in Of(m, f.prev[p]) /\ side[p] # side[f.prev[p]]
                        /\ f.cost[f.prev[p]] + Leg(m, f.prev[p], p) <= f.cost[p]
  BY DEF Sided
<1>8. \A p \in L : /\ Cheaper(m, f, g, way, s, p) => after[p] = A
                   /\ ~Cheaper(m, f, g, way, s, p) => after[p] = side[p]
  OBVIOUS
<1> HIDE DEF A, K, L, after
<1> SUFFICES ASSUME NEW p \in L
             PROVE  /\ after[p] \in Of(m, p) /\ after[p] # a
                    /\ \A x \in Entries(g) : x.portal = p => Entered(m, x) = after[p]
                    /\ g.prev[p] = NoPortal => after[p] = b
                    /\ g.prev[p] # NoPortal =>
                         /\ g.prev[p] \in L /\ after[p] \in Of(m, g.prev[p]) /\ after[p] # after[g.prev[p]]
                         /\ g.cost[g.prev[p]] + Leg(m, g.prev[p], p) <= g.cost[p]
  BY DEF Sided, L
<1>9. CASE Cheaper(m, f, g, way, s, p)
  <2> DEFINE y == Entry(m, p, way.area, g.cost[p], s)
  <2>1. /\ p \in PortalsOf(m, A) /\ p # way.prev /\ g.prev[p] = way.prev
        /\ g.cost[p] = way.cost + Cost(way.from, Center(m, p)) /\ y \in Entries(g) /\ after[p] = A
    BY <1>8, <1>9 DEF Cheaper, A
  <2>2. y.portal = p /\ Entered(m, y) = A
    BY <2>1, EntryIs DEF A
  <2> HIDE DEF y
  <2>3. \A x \in Entries(g) : x.portal = p => Entered(m, x) = after[p]
    BY <1>1, <2>1, <2>2, OneEntry
  <2>4. A \in Of(m, p)
    BY <2>1 DEF PortalsOf
  <2>5. ASSUME way.prev # NoPortal
        PROVE  /\ way.prev \in L /\ A \in Of(m, way.prev) /\ A # after[way.prev]
               /\ g.cost[way.prev] + Leg(m, way.prev, p) <= g.cost[p]
    <3>1. way.prev \in K /\ f.cost[way.prev] = way.cost /\ way.prev \in L
      BY <1>2, <1>4, <2>5
    <3>2. after[way.prev] = side[way.prev]
      BY <1>8, <3>1 DEF Cheaper
    <3>3. g.cost[p] = way.cost + Leg(m, way.prev, p)
      BY <2>1, <2>5 DEF Leg
    <3>4. Leg(m, way.prev, p) \in 0 .. MAX_COST
      BY <1>3, <1>4, <3>1, LegIs
    <3>5. g.cost[way.prev] <= way.cost /\ g.cost[way.prev] \in Nat
      BY <1>2, <3>1
    <3>6. g.cost[way.prev] + Leg(m, way.prev, p) <= g.cost[p]
      BY ONLY <1>4, <1>5, <3>3, <3>4, <3>5
    <3> QED BY <1>6, <2>5, <3>1, <3>2, <3>6
  <2> QED BY <1>6, <2>1, <2>3, <2>4, <2>5
<1>10. CASE ~Cheaper(m, f, g, way, s, p)
  <2>1. /\ p \in K /\ g.cost[p] = f.cost[p] /\ g.prev[p] = f.prev[p] /\ after[p] = side[p]
        /\ {x \in Entries(g) : x.portal = p} = {x \in Entries(f) : x.portal = p}
    BY <1>1, <1>8, <1>10 DEF Same, K
  <2>2. \A x \in Entries(g) : x.portal = p => Entered(m, x) = side[p]
    BY <1>7, <2>1
  <2>3. ASSUME f.prev[p] # NoPortal
        PROVE  /\ f.prev[p] \in L /\ side[p] \in Of(m, f.prev[p]) /\ side[p] # after[f.prev[p]]
               /\ g.cost[f.prev[p]] + Leg(m, f.prev[p], p) <= f.cost[p]
    <3> DEFINE q == f.prev[p]
               r == way.prev
    <3>1. q \in K /\ side[p] \in Of(m, q) /\ side[p] # side[q] /\ f.cost[q] + Leg(m, q, p) <= f.cost[p]
          /\ side[q] \in Of(m, q) /\ side[p] \in Of(m, p)
      BY <1>7, <2>1, <2>3
    <3> HIDE DEF q
    <3>2. q \in L /\ g.cost[q] <= f.cost[q] /\ f.cost[q] \in Nat /\ g.cost[q] \in Nat /\ f.cost[p] \in Nat
      BY <1>2, <2>1, <3>1
    <3>3. Leg(m, q, p) \in 0 .. MAX_COST
      BY <1>3, <1>4, <2>1, <3>1, LegIs
    <3>4. g.cost[q] + Leg(m, q, p) <= f.cost[p]
      BY ONLY <1>5, <3>1, <3>2, <3>3
    <3>5. ASSUME Cheaper(m, f, g, way, s, q), side[p] = A PROVE FALSE
      <4>1. r # NoPortal /\ r \in K /\ f.cost[r] = way.cost /\ way.from = Center(m, r)
        BY <1>4, <1>6, <3>1
      <4>2. p \in PortalsOf(m, A) /\ q \in PortalsOf(m, A) /\ r \in PortalsOf(m, A)
        BY <1>3, <1>6, <2>1, <3>1, <3>5, <4>1 DEF PortalsOf
      <4>3. Leg(m, r, p) <= Leg(m, r, q) + Leg(m, q, p)
        BY <4>2 DEF GraphSound, Flat
      <4>4. g.cost[p] <= way.cost + Leg(m, r, p)
        BY <1>1, <4>1, <4>2 DEF Leg
      <4>5. g.cost[q] = way.cost + Leg(m, r, q) /\ g.cost[q] < f.cost[q]
        BY <3>1, <3>5, <4>1 DEF Cheaper, Leg, K
      <4>6. Leg(m, r, p) \in 0 .. MAX_COST /\ Leg(m, r, q) \in 0 .. MAX_COST
        BY <1>3, <1>4, <2>1, <3>1, <4>1, LegIs
      <4> HIDE DEF r
      <4> QED BY ONLY <1>4, <1>5, <2>1, <3>1, <3>2, <3>3, <4>3, <4>4, <4>5, <4>6
    <3>6. side[p] # after[q]
      <4>1. CASE Cheaper(m, f, g, way, s, q)
        BY <1>8, <3>2, <3>5, <4>1
      <4>2. CASE ~Cheaper(m, f, g, way, s, q)
        BY <1>8, <3>1, <3>2, <4>2
      <4> QED BY <4>1, <4>2
    <3> QED BY <3>1, <3>2, <3>4, <3>6 DEF q
  <2> QED BY <1>7, <2>1, <2>2, <2>3
<1> QED BY <1>9, <1>10

\* What a search knows it knows again when the ring was walked along.
LEMMA LeavingSearched ==
  ASSUME NEW m, GraphSound(m), NEW s \in Pixels, NEW e \in Pixels, NEW a, NEW b, NEW f, NEW way,
         Leaving(m, f, way, a, b, s, e), NEW g, Spread(m, f, g, way, s, PortalsOf(m, way.area))
  PROVE  Searched(m, g, a, b, s, e)
<1> DEFINE A == way.area
           K == DOMAIN f.cost
           L == DOMAIN g.cost
<1>1. /\ Typed(m, f, s) /\ AroundOpen(m, f) /\ Descending(f) /\ Affordable(f)
      /\ way.cost \in Nat /\ way.from \in Pixels
      /\ way.prev = NoPortal \/ (way.prev \in K /\ f.cost[way.prev] = way.cost)
      /\ way.prev # NoPortal => way.from = Center(m, way.prev)
  BY DEF Leaving, WayFrom
<1>2. /\ Typed(m, g, s) /\ (\A p \in L : Same(f, g, p) \/ Cheaper(m, f, g, way, s, p))
      /\ \A q \in PortalsOf(m, A) : q \in L /\ g.cost[q] <= way.cost + Cost(way.from, Center(m, q))
  BY DEF Spread, ReachedIn
<1>3. /\ \A p \in K : p \in L /\ g.cost[p] <= f.cost[p] /\ f.cost[p] \in Nat
      /\ \A p \in L : g.cost[p] \in Nat
      /\ \A p \in L : Same(f, g, p) => (p \in Done(f) <=> p \in Done(g))
      /\ \A p \in L : Cheaper(m, f, g, way, s, p) => p \notin Done(g)
  BY <1>1, SpreadFacts
<1>4. K \subseteq DOMAIN m.portal /\ L \subseteq DOMAIN m.portal
  BY <1>1, <1>2 DEF Typed
<1>5. MAX_COST \in Nat
  BY DEF MAX_COST
<1> HIDE DEF A, K, L
<1>6. \A p \in DOMAIN m.portal : Cost(way.from, Center(m, p)) \in 0 .. MAX_COST
  BY <1>1, LegIs
<1>7. ASSUME NEW p \in K, NEW c, Same(f, g, p), Around(m, f, p, c) PROVE Around(m, g, p, c)
  <2> SUFFICES ASSUME NEW q \in PortalsOf(m, c) PROVE q \in L /\ g.cost[q] <= g.cost[p] + Leg(m, p, q) + 1
    BY DEF Around, L
  <2>1. q \in K /\ f.cost[q] <= f.cost[p] + Leg(m, p, q) + 1
    BY <1>7 DEF Around, K
  <2>2. /\ g.cost[p] = f.cost[p] /\ q \in L /\ g.cost[q] <= f.cost[q] /\ f.cost[q] \in Nat
        /\ g.cost[q] \in Nat /\ f.cost[p] \in Nat
    BY <1>3, <1>7, <2>1 DEF Same
  <2>3. Leg(m, p, q) \in 0 .. MAX_COST
    BY <1>4, <2>1, LegIs
  <2> QED BY ONLY <1>5, <2>1, <2>2, <2>3
<1>8. ASSUME NEW p \in L, Cheaper(m, f, g, way, s, p) PROVE Around(m, g, p, A)
  <2> SUFFICES ASSUME NEW q \in PortalsOf(m, A) PROVE q \in L /\ g.cost[q] <= g.cost[p] + Leg(m, p, q) + 1
    BY DEF Around, L
  <2>1. g.cost[p] = way.cost + Cost(way.from, Center(m, p))
    BY <1>8 DEF Cheaper
  <2>2. /\ q \in L /\ g.cost[q] <= way.cost + Cost(way.from, Center(m, q)) /\ q \in DOMAIN m.portal
        /\ p \in DOMAIN m.portal
    BY <1>2, <1>4
  <2>3. Cost(way.from, Center(m, q)) <= Cost(way.from, Center(m, p)) + Leg(m, p, q) + 1
    BY <1>1, <2>2, LegIs
  <2>4. Leg(m, p, q) \in 0 .. MAX_COST
    BY <1>1, <2>2, LegIs
  <2>5. Cost(way.from, Center(m, p)) \in 0 .. MAX_COST /\ Cost(way.from, Center(m, q)) \in 0 .. MAX_COST
    BY <1>6, <2>2
  <2>6. way.cost \in Nat /\ g.cost[p] \in Nat /\ g.cost[q] \in Nat
    BY <1>1, <1>3, <2>2
  <2> QED BY ONLY <1>5, <2>1, <2>2, <2>3, <2>4, <2>5, <2>6
<1>9. AroundEnd(m, g, b, e)
  <2>1. CASE AroundEnd(m, f, b, e)
    <3> SUFFICES ASSUME NEW q \in PortalsOf(m, b) PROVE q \in L /\ g.cost[q] <= Cost(e, Center(m, q))
      BY DEF AroundEnd, L
    <3>1. q \in K /\ f.cost[q] <= Cost(e, Center(m, q))
      BY <2>1 DEF AroundEnd, K
    <3>2. q \in L /\ g.cost[q] <= f.cost[q] /\ f.cost[q] \in Nat /\ g.cost[q] \in Nat
      BY <1>3, <3>1
    <3>3. Cost(e, Center(m, q)) \in 0 .. MAX_COST
      BY <1>4, <3>1, LegIs
    <3> QED BY ONLY <1>5, <3>1, <3>2, <3>3
  <2>2. CASE A = b /\ way.from = e /\ way.cost = 0
    <3> SUFFICES ASSUME NEW q \in PortalsOf(m, b) PROVE q \in L /\ g.cost[q] <= Cost(e, Center(m, q))
      BY DEF AroundEnd, L
    <3>1. q \in L /\ g.cost[q] <= 0 + Cost(e, Center(m, q))
      BY <1>2, <2>2
    <3>2. Cost(e, Center(m, q)) \in 0 .. MAX_COST
      BY <1>4, <3>1, LegIs
    <3> QED BY ONLY <1>5, <3>1, <3>2
  <2> QED BY <2>1, <2>2 DEF Leaving, A
<1>10. AroundOpen(m, g)
  <2> SUFFICES ASSUME NEW x \in Entries(g) PROVE Around(m, g, x.portal, Entered(m, x))
    BY DEF AroundOpen
  <2>1. x.portal \in L
    BY <1>2 DEF Typed, L
  <2>2. CASE Same(f, g, x.portal)
    <3>1. x.portal \in K /\ x \in Entries(f)
      BY <2>2 DEF Same, K
    <3>2. Around(m, f, x.portal, Entered(m, x))
      BY <1>1, <3>1 DEF AroundOpen
    <3> QED BY <1>7, <2>2, <3>1, <3>2
  <2>3. CASE Cheaper(m, f, g, way, s, x.portal)
    <3> DEFINE y == Entry(m, x.portal, way.area, g.cost[x.portal], s)
    <3>1. y \in Entries(g) /\ x.portal \in PortalsOf(m, way.area)
      BY <2>3 DEF Cheaper
    <3>2. y.portal = x.portal /\ Entered(m, y) = way.area
      BY <3>1, EntryIs
    <3> HIDE DEF y
    <3>3. x = y
      BY <1>2, <3>1, <3>2, OneEntry
    <3> QED BY <1>8, <2>1, <2>3, <3>2, <3>3 DEF A
  <2> QED BY <1>2, <2>1, <2>2, <2>3
<1>11. ASSUME NEW p \in Done(g)
       PROVE  a \notin Of(m, p) /\ \A c \in Of(m, p) : Around(m, g, p, c)
  <2>1. p \in L /\ Same(f, g, p) /\ p \in Done(f) /\ p \in K
    <3>1. p \in L
      BY DEF Done, L
    <3>2. Same(f, g, p)
      BY <1>2, <1>3, <3>1
    <3> QED BY <1>3, <3>1, <3>2 DEF Done, K
  <2>2. a \notin Of(m, p)
    BY <2>1 DEF Leaving
  <2>3. ASSUME NEW c \in Of(m, p) PROVE Around(m, g, p, c)
    <3>1. CASE Around(m, f, p, c)
      BY <1>7, <2>1, <3>1
    <3>2. CASE p = way.prev /\ c = A
      <4>1. p \in DOMAIN m.portal
        BY <1>4, <2>1
      <4>2. p # NoPortal
        BY <4>1 DEF GraphSound
      <4>3. g.cost[p] = way.cost /\ way.from = Center(m, p)
        BY <1>1, <2>1, <3>2, <4>2 DEF Same
      <4> SUFFICES ASSUME NEW q \in PortalsOf(m, A) PROVE q \in L /\ g.cost[q] <= g.cost[p] + Leg(m, p, q) + 1
        BY <3>2 DEF Around, L
      <4>4. q \in L /\ g.cost[q] <= g.cost[p] + Leg(m, p, q)
        BY <1>2, <4>3 DEF Leg
      <4>5. Leg(m, p, q) \in 0 .. MAX_COST
        BY <1>4, <4>1, <4>4, LegIs
      <4>6. g.cost[q] \in Nat /\ g.cost[p] \in Nat
        BY <1>3, <2>1, <4>4
      <4> QED BY ONLY <1>5, <4>4, <4>5, <4>6
    <3> QED BY <2>1, <3>1, <3>2 DEF Leaving, A
  <2> QED BY <2>2, <2>3
<1>12. Descending(g)
  <2> SUFFICES ASSUME NEW p \in L
               PROVE  g.prev[p] = NoPortal \/ (g.prev[p] \in L /\ g.cost[g.prev[p]] < g.cost[p])
    BY DEF Descending, L
  <2>1. CASE Same(f, g, p)
    <3>1. p \in K /\ g.cost[p] = f.cost[p] /\ g.prev[p] = f.prev[p]
      BY <2>1 DEF Same, K
    <3>2. f.prev[p] = NoPortal \/ (f.prev[p] \in K /\ f.cost[f.prev[p]] < f.cost[p])
      BY <1>1, <3>1 DEF Descending, K
    <3>3. ASSUME f.prev[p] \in K, f.cost[f.prev[p]] < f.cost[p] PROVE g.prev[p] \in L /\ g.cost[g.prev[p]] < g.cost[p]
      <4>1. f.prev[p] \in L /\ g.cost[f.prev[p]] <= f.cost[f.prev[p]] /\ f.cost[f.prev[p]] \in Nat
            /\ g.cost[f.prev[p]] \in Nat /\ f.cost[p] \in Nat
        BY <1>3, <3>1, <3>3
      <4>2. g.cost[f.prev[p]] < f.cost[p]
        BY ONLY <3>3, <4>1
      <4> QED BY <3>1, <4>1, <4>2
    <3> QED BY <3>1, <3>2, <3>3
  <2>2. CASE Cheaper(m, f, g, way, s, p) /\ way.prev # NoPortal
    <3>1. g.prev[p] = way.prev /\ p # way.prev /\ g.cost[p] = way.cost + Cost(way.from, Center(m, p))
      BY <2>2 DEF Cheaper
    <3>2. way.prev \in K /\ f.cost[way.prev] = way.cost /\ way.from = Center(m, way.prev)
      BY <1>1, <2>2
    <3>3. Leg(m, way.prev, p) >= 1 /\ Leg(m, way.prev, p) \in 0 .. MAX_COST
      BY <1>4, <3>1, <3>2, LegIs
    <3>4. way.prev \in L /\ g.cost[way.prev] <= way.cost /\ g.cost[way.prev] \in Nat /\ way.cost \in Nat
      BY <1>3, <3>2
    <3>5. g.cost[p] = way.cost + Leg(m, way.prev, p)
      BY <3>1, <3>2 DEF Leg
    <3>6. g.cost[way.prev] < g.cost[p]
      BY ONLY <1>5, <3>3, <3>4, <3>5
    <3> QED BY <3>1, <3>4, <3>6
  <2>3. CASE Cheaper(m, f, g, way, s, p) /\ way.prev = NoPortal
    BY <2>3 DEF Cheaper
  <2> QED BY <1>2, <2>1, <2>2, <2>3
<1>13. Affordable(g)
  <2>1. IsFiniteSet(DOMAIN m.portal)
    BY DEF GraphSound
  <2>2. IsFiniteSet(L) /\ K \subseteq L
    BY <1>3, <1>4, <2>1, FS_Subset
  <2>3. /\ Cardinality(L) \in Nat /\ Cardinality(K) \in Nat /\ Cardinality(K) <= Cardinality(L)
        /\ K # L => Cardinality(K) < Cardinality(L)
    <3>1. IsFiniteSet(K) /\ Cardinality(K) <= Cardinality(L)
      BY <2>2, FS_Subset
    <3>2. Cardinality(L) \in Nat /\ Cardinality(K) \in Nat
      BY <2>2, <3>1, FS_CardinalityType
    <3>3. K # L => Cardinality(K) # Cardinality(L)
      BY <2>2, FS_Subset
    <3> QED BY ONLY <3>1, <3>2, <3>3
  <2> SUFFICES ASSUME NEW p \in L PROVE g.cost[p] <= MAX_COST * Cardinality(L)
    BY DEF Affordable, L
  <2>4. CASE p \in K
    <3>1. f.cost[p] <= MAX_COST * Cardinality(K) /\ g.cost[p] <= f.cost[p] /\ f.cost[p] \in Nat /\ g.cost[p] \in Nat
      BY <1>1, <1>3, <2>4 DEF Affordable, K
    <3>2. MAX_COST * Cardinality(K) <= MAX_COST * Cardinality(L)
      BY ONLY <2>3 DEF MAX_COST
    <3>3. MAX_COST * Cardinality(K) \in Nat /\ MAX_COST * Cardinality(L) \in Nat
      BY ONLY <1>5, <2>3
    <3> QED BY ONLY <3>1, <3>2, <3>3
  <2>5. CASE p \notin K
    <3>1. Cheaper(m, f, g, way, s, p)
      BY <1>2, <2>5 DEF Same, K
    <3>2. g.cost[p] = way.cost + Cost(way.from, Center(m, p)) /\ p \in DOMAIN m.portal
      BY <1>4, <3>1 DEF Cheaper
    <3>3. Cost(way.from, Center(m, p)) \in 0 .. MAX_COST /\ way.cost <= MAX_COST * Cardinality(K)
      BY <1>6, <3>2 DEF Leaving, K
    <3>4. Cardinality(K) + 1 <= Cardinality(L)
      BY <2>3, <2>5
    <3>5. MAX_COST * Cardinality(K) + MAX_COST <= MAX_COST * Cardinality(L)
      BY ONLY <2>3, <3>4 DEF MAX_COST
    <3>6. MAX_COST * Cardinality(K) \in Nat /\ MAX_COST * Cardinality(L) \in Nat /\ way.cost \in Nat
      BY <1>1, <1>5, <2>3
    <3> QED BY ONLY <1>5, <3>2, <3>3, <3>5, <3>6
  <2> QED BY <2>4, <2>5
<1>14. AroundDone(m, g) /\ \A p \in Done(g) : a \notin Of(m, p)
  BY <1>11 DEF AroundDone
<1>15. ASSUME a # b PROVE \E side : Sided(m, g, side, a, b)
  <2>1. PICK side : Sided(m, f, side, a, b) /\ WaySided(m, f, way, side, a, b)
    BY <1>15 DEF Leaving
  <2>2. WayFrom(m, f, way)
    BY DEF Leaving
  <2> QED BY <1>1, <2>1, <2>2, SpreadSided
<1> QED BY <1>2, <1>9, <1>10, <1>12, <1>13, <1>14, <1>15 DEF Searched

\* At first nothing is known.
LEMMA CleanIs ==
  ASSUME NEW m, NEW s
  PROVE  Typed(m, Clean, s) /\ DOMAIN Clean.cost = {} /\ Entries(Clean) = {} /\ Done(Clean) = {}
<1>1. Clean = [open |-> <<>>, cost |-> <<>>, prev |-> <<>>]
  BY DEF Clean
<1>2. /\ <<>> \in [1 .. 0 -> EntriesOn(m)] /\ 1 .. 0 = {} /\ 2 .. 0 = {} /\ 0 \in Nat /\ Len(<<>>) = 0
      /\ DOMAIN <<>> = {} /\ <<>> \in [{} -> Nat]
  OBVIOUS
<1>3. Clean.open = <<>> /\ Clean.cost = <<>> /\ Clean.prev = <<>>
  BY <1>1
<1>4. Entries(Clean) = {}
  BY <1>2, <1>3 DEF Entries
<1>5. \A x \in EntriesOn(m) : x.cost \in Int
  BY DEF EntriesOn
<1>6. {<<>>[i] : i \in 1 .. 0} = {}
  BY <1>2
<1>7. Holds(<<>>, 0, EntriesOn(m), {})
  BY ONLY <1>2, <1>5, <1>6 DEF Holds
<1>8. CheapestFirst(<<>>, 0)
  BY ONLY <1>2 DEF CheapestFirst
<1>9. Heap(Clean.open, EntriesOn(m), Entries(Clean))
  BY <1>2, <1>3, <1>4, <1>7, <1>8 DEF Heap
<1>10. DOMAIN Clean.cost = {} /\ DOMAIN Clean.prev = {} /\ Clean.cost \in [{} -> Nat]
  BY ONLY <1>2, <1>3
<1>11. Clean = [open |-> Clean.open, cost |-> Clean.cost, prev |-> Clean.prev]
  BY <1>1
<1>12. Typed(m, Clean, s)
  BY ONLY <1>4, <1>9, <1>10, <1>11 DEF Typed
<1> QED BY <1>4, <1>10, <1>12 DEF Done

\* The ring of the area of the end is walked along: the search knows what it should.
LEMMA StartedSearched ==
  ASSUME NEW m, GraphSound(m), NEW s \in Pixels, NEW e \in Pixels, NEW a, NEW b
  PROVE  Searched(m, Started(m, b, s, e), a, b, s, e)
<1> DEFINE way == [area |-> b, from |-> e, cost |-> 0, prev |-> NoPortal]
<1>1. way.area = b /\ way.from = e /\ way.cost = 0 /\ way.prev = NoPortal
  OBVIOUS
<1>2. Started(m, b, s, e) = Along(m, Clean, way, Ring(m, b), s)
  BY DEF Started
<1> HIDE DEF way
<1>3. Typed(m, Clean, s) /\ DOMAIN Clean.cost = {} /\ Entries(Clean) = {} /\ Done(Clean) = {}
  BY CleanIs
<1>4. WayFrom(m, Clean, way)
  BY <1>1 DEF WayFrom
<1>5. RingCovers(m, Ring(m, b), way.area)
  BY <1>1 DEF GraphSound
<1>6. Spread(m, Clean, Started(m, b, s, e), way, s, PortalsOf(m, way.area))
  BY <1>2, <1>3, <1>4, <1>5, AlongSpreads
<1>7. Leaving(m, Clean, way, a, b, s, e)
  <2>1. AroundOpen(m, Clean) /\ Descending(Clean) /\ Affordable(Clean)
    BY ONLY <1>3 DEF AroundOpen, Descending, Affordable
  <2>2. way.cost <= MAX_COST * Cardinality(DOMAIN Clean.cost)
    <3>1. Cardinality(DOMAIN Clean.cost) = 0
      BY <1>3, FS_EmptySet
    <3> QED BY <1>1, <3>1 DEF MAX_COST
  <2>3. a # b => \E side : Sided(m, Clean, side, a, b) /\ WaySided(m, Clean, way, side, a, b)
    BY <1>1, <1>3 DEF Sided, WaySided
  <2> QED BY ONLY <1>1, <1>3, <1>4, <2>1, <2>2, <2>3 DEF Leaving
<1> QED BY <1>6, <1>7, LeavingSearched

LEMMA PairIs == ASSUME NEW A, NEW B PROVE /\ \A w \in A \X B : w[1] \in A /\ w[2] \in B
                                          /\ \A x \in A, y \in B : <<x, y>> \in A \X B
OBVIOUS

\* What portals may still be taken out of the open set for, a cost each.
Work(m, f) ==
  {w \in (DOMAIN m.portal) \X (0 .. MAX_COST * Cardinality(DOMAIN m.portal)) :
     w[1] \in DOMAIN f.cost => w[2] < f.cost[w[1]] \/ (w[2] = f.cost[w[1]] /\ w[1] \notin Done(f))}

\* Walking along a ring makes no work.
LEMMA SpreadIsNoWork ==
  ASSUME NEW m, NEW s, NEW f, Typed(m, f, s), NEW way, NEW g, NEW R, Spread(m, f, g, way, s, R)
  PROVE  Work(m, g) \subseteq Work(m, f)
<1>1. /\ \A p \in DOMAIN f.cost : p \in DOMAIN g.cost /\ g.cost[p] <= f.cost[p] /\ f.cost[p] \in Nat
      /\ \A p \in DOMAIN g.cost : g.cost[p] \in Nat
      /\ \A p \in DOMAIN g.cost : Same(f, g, p) => (p \in Done(f) <=> p \in Done(g))
  BY SpreadFacts
<1>2. \A p \in DOMAIN g.cost : Same(f, g, p) \/ Cheaper(m, f, g, way, s, p)
  BY DEF Spread
<1> SUFFICES ASSUME NEW w \in Work(m, g), w[1] \in DOMAIN f.cost
             PROVE  w[2] < f.cost[w[1]] \/ (w[2] = f.cost[w[1]] /\ w[1] \notin Done(f))
  BY DEF Work
<1> DEFINE p == w[1]
           c == w[2]
<1>3. c \in Int /\ p \in DOMAIN g.cost /\ g.cost[p] \in Nat /\ f.cost[p] \in Nat
  <2> DEFINE B == 0 .. MAX_COST * Cardinality(DOMAIN m.portal)
  <2>1. B \subseteq Int
    OBVIOUS
  <2>2. w \in (DOMAIN m.portal) \X B
    BY DEF Work
  <2> HIDE DEF B
  <2>3. c \in B
    BY ONLY <2>2, PairIs
  <2>4. c \in Int
    BY ONLY <2>1, <2>3
  <2>5. p \in DOMAIN f.cost
    OBVIOUS
  <2> HIDE DEF p, c
  <2> QED BY ONLY <1>1, <2>4, <2>5
<1>4. c < g.cost[p] \/ (c = g.cost[p] /\ p \notin Done(g))
  BY <1>3 DEF Work
<1> HIDE DEF p, c
<1>5. CASE Same(f, g, p)
  <2>1. g.cost[p] = f.cost[p]
    BY <1>5 DEF Same
  <2>2. p \notin Done(g) => p \notin Done(f)
    BY <1>1, <1>3, <1>5
  <2> QED BY <1>4, <2>1, <2>2 DEF p, c
<1>6. CASE Cheaper(m, f, g, way, s, p)
  <2>1. g.cost[p] < f.cost[p]
    BY <1>6 DEF Cheaper, p
  <2>2. c < f.cost[p]
    BY ONLY <1>3, <1>4, <2>1
  <2> QED BY <2>2 DEF p, c
<1> QED BY <1>2, <1>3, <1>5, <1>6

\* A turn keeps what a search knows, and does some of the work.
LEMMA ExpandedKeeps ==
  ASSUME NEW m, GraphSound(m), NEW s \in Pixels, NEW e \in Pixels, NEW a, NEW b,
         NEW f, Searched(m, f, a, b, s, e), ~Ended(m, f, a)
  PROVE  /\ Searched(m, Expanded(m, f, a, s), a, b, s, e)
         /\ Work(m, Expanded(m, f, a, s)) \subseteq Work(m, f)
         /\ \E w \in Work(m, f) : w \notin Work(m, Expanded(m, f, a, s))
<1> DEFINE x == f.open[1]
           p == x.portal
           behind == <<p, 1 - x.fromside>>
           way == [area |-> AreaOf(m, behind), from |-> Center(m, p), cost |-> f.cost[p], prev |-> p]
           h == [f EXCEPT !.open = Shifted(@)]
           g == Expanded(m, f, a, s)
           E == EntriesOn(m)
<1>1. g = Along(m, h, way, RingFrom(m, behind), s)
  BY DEF Expanded
<1>2. f.open # <<>> /\ a \notin Of(m, p)
  BY DEF Ended
<1>3. /\ f = [open |-> f.open, cost |-> f.cost, prev |-> f.prev]
      /\ DOMAIN f.cost \subseteq DOMAIN m.portal /\ f.cost \in [DOMAIN f.cost -> Nat] /\ DOMAIN f.prev = DOMAIN f.cost
      /\ Heap(f.open, E, Entries(f))
      /\ \A y \in Entries(f) : y.portal \in DOMAIN f.cost /\ y.cost = f.cost[y.portal] + Ahead(m, y.portal, s)
  BY DEF Searched, Typed
<1>4. /\ AroundEnd(m, f, b, e) /\ AroundOpen(m, f) /\ AroundDone(m, f)
      /\ \A q \in Done(f) : a \notin Of(m, q)
      /\ Descending(f) /\ Affordable(f)
  BY DEF Searched
<1>5. x \in Entries(f) /\ Heap(Shifted(f.open), E, Entries(f) \ {x})
  <2>1. Heap(f.open, E, Entries(f)) /\ f.open # <<>>
    BY <1>2, <1>3
  <2> QED BY ONLY <2>1, ShiftedKeeps
<1>6. /\ h = [open |-> Shifted(f.open), cost |-> f.cost, prev |-> f.prev] /\ h.open = Shifted(f.open)
      /\ h.cost = f.cost /\ h.prev = f.prev
  BY <1>3
<1>7. way.area = AreaOf(m, behind) /\ way.from = Center(m, p) /\ way.cost = f.cost[p] /\ way.prev = p
  OBVIOUS
<1>8. Entries(f) \subseteq E /\ \A y, z \in Entries(f) : y.portal = z.portal => y = z
  BY ONLY <1>3, HeapFacts
<1> HIDE DEF g, way, h, behind
<1>9. Entries(h) = Entries(f) \ {x}
  BY <1>5, <1>6, HeapOf
<1> HIDE DEF x
<1>10. x \in E
  BY <1>5, <1>8
<1>11. p \in DOMAIN m.portal /\ x.fromside \in {0, 1} /\ p \in DOMAIN f.cost
  BY <1>3, <1>5, <1>10 DEF EntriesOn
<1> HIDE DEF E
<1>12. behind \in Sides(m) /\ Of(m, p) = {AreaOf(m, behind), Entered(m, x)}
  <2>1. x.fromside = 0 \/ x.fromside = 1
    BY <1>11
  <2>2. behind = <<p, 1 - x.fromside>> /\ <<x.portal, x.fromside>> = <<p, x.fromside>>
    BY DEF behind
  <2>3. CASE x.fromside = 0
    <3>1. behind = <<p, 1>>
      BY <2>2, <2>3
    <3> HIDE DEF p
    <3> QED BY <1>11, <2>2, <2>3, <3>1 DEF Sides, Of, AreaOf, Entered
  <2>4. CASE x.fromside = 1
    <3>1. behind = <<p, 0>>
      BY <2>2, <2>4
    <3> HIDE DEF p
    <3> QED BY <1>11, <2>2, <2>4, <3>1 DEF Sides, Of, AreaOf, Entered
  <2> QED BY <2>1, <2>3, <2>4
<1>13. Done(h) = Done(f) \cup {p}
  <2>1. ASSUME NEW q \in DOMAIN f.cost
        PROVE  (\A y \in Entries(h) : y.portal # q) <=> q = p \/ \A y \in Entries(f) : y.portal # q
    <3>1. CASE q = p
      BY <1>5, <1>8, <1>9, <3>1
    <3>2. CASE q # p
      BY <1>5, <1>9, <3>2
    <3> QED BY <3>1, <3>2
  <2> QED BY <1>6, <1>11, <2>1 DEF Done
<1>14. Typed(m, h, s)
  BY <1>3, <1>5, <1>6, <1>9 DEF Typed, E
<1>15. WayFrom(m, h, way)
  <2>1. Center(m, p) \in Pixels /\ f.cost[p] \in Nat
    BY <1>3, <1>11 DEF GraphSound
  <2> QED BY <1>6, <1>7, <1>11, <2>1 DEF WayFrom
<1>16. \A q, c : Around(m, f, q, c) => Around(m, h, q, c)
  BY <1>6 DEF Around
<1>17. Leaving(m, h, way, a, b, s, e)
  <2>1. AroundEnd(m, h, b, e)
    BY <1>4, <1>6 DEF AroundEnd
  <2>2. AroundOpen(m, h)
    BY <1>4, <1>9, <1>16 DEF AroundOpen
  <2>3. ASSUME NEW q \in Done(h)
        PROVE  /\ a \notin Of(m, q)
               /\ \A c \in Of(m, q) : Around(m, h, q, c) \/ (q = way.prev /\ c = way.area)
    <3>1. CASE q = p
      <4>1. Around(m, h, p, Entered(m, x))
        BY <1>4, <1>5, <1>16 DEF AroundOpen
      <4> QED BY <1>2, <1>7, <1>12, <3>1, <4>1
    <3>2. CASE q \in Done(f)
      BY <1>4, <1>16, <3>2 DEF AroundDone
    <3> QED BY <1>13, <3>1, <3>2
  <2>4. Descending(h) /\ Affordable(h)
    BY <1>4, <1>6 DEF Descending, Affordable
  <2>5. way.cost <= MAX_COST * Cardinality(DOMAIN h.cost)
    BY <1>4, <1>6, <1>7, <1>11 DEF Affordable
  <2>6. way.prev # NoPortal => way.from = Center(m, way.prev)
    BY <1>7
  <2>7. ASSUME a # b PROVE \E side : Sided(m, h, side, a, b) /\ WaySided(m, h, way, side, a, b)
    <3>1. PICK side : Sided(m, f, side, a, b)
      BY <2>7 DEF Searched
    <3>2. Sided(m, h, side, a, b)
      BY <1>6, <1>9, <3>1 DEF Sided
    <3>3. Entered(m, x) = side[p]
      BY <1>5, <1>11, <3>1 DEF Sided
    <3>4. way.area \in Of(m, p) /\ way.area # Entered(m, x)
      <4>1. m.portal[p].area[0] # m.portal[p].area[1]
        BY <1>11 DEF GraphSound
      <4>2. Of(m, p) = {way.area, Entered(m, x)}
        BY <1>7, <1>12
      <4> HIDE DEF p
      <4> QED BY <4>1, <4>2 DEF Of
    <3>5. p # NoPortal
      BY <1>11 DEF GraphSound
    <3>6. WaySided(m, h, way, side, a, b)
      BY <1>2, <1>7, <3>3, <3>4, <3>5 DEF WaySided
    <3> QED BY <3>2, <3>6
  <2> QED BY ONLY <1>14, <1>15, <2>1, <2>2, <2>3, <2>4, <2>5, <2>6, <2>7 DEF Leaving
<1>18. RingCovers(m, RingFrom(m, behind), way.area)
  BY <1>7, <1>12 DEF GraphSound
<1>19. Spread(m, h, g, way, s, PortalsOf(m, way.area))
  BY <1>1, <1>14, <1>15, <1>18, AlongSpreads
<1>20. Searched(m, g, a, b, s, e)
  BY <1>17, <1>19, LeavingSearched
<1>21. Work(m, g) \subseteq Work(m, h)
  BY <1>14, <1>19, SpreadIsNoWork
<1>22. Work(m, h) \subseteq Work(m, f)
  BY <1>6, <1>13 DEF Work
<1>23. <<p, f.cost[p]>> \in Work(m, f) /\ <<p, f.cost[p]>> \notin Work(m, h)
  <2> DEFINE w == <<p, f.cost[p]>>
             N == Cardinality(DOMAIN m.portal)
  <2>1. w[1] = p /\ w[2] = f.cost[p] /\ f.cost[p] \in Nat
    BY <1>3, <1>11
  <2>2. p \notin Done(f)
    BY <1>5 DEF Done
  <2>3. f.cost[p] \in 0 .. MAX_COST * N
    <3>1. IsFiniteSet(DOMAIN m.portal) /\ N \in Nat
      BY DEF GraphSound
    <3>2. IsFiniteSet(DOMAIN f.cost) /\ Cardinality(DOMAIN f.cost) <= N /\ Cardinality(DOMAIN f.cost) \in Nat
      BY <1>3, <3>1, FS_Subset, FS_CardinalityType
    <3>3. f.cost[p] <= MAX_COST * Cardinality(DOMAIN f.cost)
      BY <1>4, <1>11 DEF Affordable
    <3>4. f.cost[p] \in Nat
      BY ONLY <2>1
    <3> HIDE DEF N, p
    <3> QED BY ONLY <3>1, <3>2, <3>3, <3>4 DEF MAX_COST
  <2>4. w \in (DOMAIN m.portal) \X (0 .. MAX_COST * N)
    <3>1. p \in DOMAIN m.portal
      BY <1>11
    <3> HIDE DEF p
    <3> QED BY ONLY <2>3, <3>1, PairIs
  <2> HIDE DEF w
  <2>5. w \in Work(m, f)
    BY <2>1, <2>2, <2>4 DEF Work
  <2>6. w \notin Work(m, h)
    BY <1>6, <1>11, <1>13, <2>1 DEF Work
  <2> QED BY <2>5, <2>6 DEF w
<1> QED BY <1>20, <1>21, <1>22, <1>23 DEF g

-----------------------------------------------------------------------------
(* The search ends *)

\* The function that Turned defines.
IsTurning(m, f, a, s, n, w) ==
  w = [k \in 0 .. n |-> IF k = 0 THEN f ELSE Expanded(m, w[k - 1], a, s)]

LEMMA TurningExists ==
  ASSUME NEW m, NEW f, NEW a, NEW s, NEW n \in Nat
  PROVE  \E w : IsTurning(m, f, a, s, n, w)
<1> DEFINE Bad == {k \in Nat : ~ \E w : IsTurning(m, f, a, s, k, w)}
<1> SUFFICES ASSUME Bad # {} PROVE FALSE
  OBVIOUS
<1>1. PICK b \in Bad : \A k \in Bad : b <= k
  BY LeastOf
<1>2. b \in Nat /\ ~ \E w : IsTurning(m, f, a, s, b, w)
  OBVIOUS
<1>3. CASE b = 0
  <2> DEFINE w == [k \in 0 .. 0 |-> f]
  <2>1. IsTurning(m, f, a, s, 0, w)
    BY DEF IsTurning
  <2> QED BY <1>2, <1>3, <2>1
<1>4. CASE b # 0
  <2>1. b - 1 \in Nat /\ b - 1 \notin Bad
    BY <1>1, <1>2, <1>4
  <2>2. PICK w : IsTurning(m, f, a, s, b - 1, w)
    BY <2>1
  <2> DEFINE v == [k \in 0 .. b |-> IF k = b THEN Expanded(m, w[b - 1], a, s) ELSE w[k]]
  <2>3. ASSUME NEW k \in 0 .. b PROVE v[k] = IF k = 0 THEN f ELSE Expanded(m, v[k - 1], a, s)
    <3>1. CASE k = b
      BY <1>2, <1>4, <3>1
    <3>2. CASE k # b
      <4>1. k \in 0 .. b - 1 /\ (k # 0 => k - 1 \in 0 .. b /\ k - 1 # b)
        BY <1>2, <3>2
      <4>2. w[k] = IF k = 0 THEN f ELSE Expanded(m, w[k - 1], a, s)
        BY <2>2, <4>1 DEF IsTurning
      <4> QED BY <3>2, <4>1, <4>2
    <3> QED BY <3>1, <3>2
  <2>4. v = [k \in 0 .. b |-> v[k]]
    OBVIOUS
  <2> HIDE DEF v
  <2>5. IsTurning(m, f, a, s, b, v)
    BY <2>3, <2>4 DEF IsTurning
  <2> QED BY <1>2, <2>5
<1> QED BY <1>3, <1>4

\* So do some turns.
LEMMA TurnedKeeps ==
  ASSUME NEW m, GraphSound(m), NEW s \in Pixels, NEW e \in Pixels, NEW a, NEW b,
         NEW f, Searched(m, f, a, b, s, e), NEW n \in Nat, NEW g, g = Turned(m, f, a, s, n)
  PROVE  /\ Searched(m, g, a, b, s, e)
         /\ Ended(m, f, a) => g = f
         /\ Work(m, g) \subseteq Work(m, f)
         /\ ~Ended(m, f, a) /\ n >= 1 => \E w \in Work(m, f) : w \notin Work(m, g)
<1> DEFINE w == CHOOSE v : IsTurning(m, f, a, s, n, v)
<1>1. g = w[n]
  BY DEF Turned, IsTurning
<1>2. IsTurning(m, f, a, s, n, w)
  BY TurningExists
<1> HIDE DEF w
<1>3. \A k \in 0 .. n : w[k] = IF k = 0 THEN f ELSE Expanded(m, w[k - 1], a, s)
  BY <1>2 DEF IsTurning
<1> DEFINE Good(k) == /\ Searched(m, w[k], a, b, s, e)
                      /\ Ended(m, f, a) => w[k] = f
                      /\ Work(m, w[k]) \subseteq Work(m, f)
                      /\ ~Ended(m, f, a) /\ k >= 1 => \E x \in Work(m, f) : x \notin Work(m, w[k])
           Bad == {k \in 0 .. n : ~Good(k)}
<1>4. Good(0)
  <2>1. w[0] = f
    BY <1>3
  <2> QED BY <2>1
<1>5. ASSUME NEW k \in 1 .. n, Good(k - 1) PROVE Good(k)
  <2>1. w[k] = Expanded(m, w[k - 1], a, s)
    BY <1>3
  <2>2. CASE Ended(m, w[k - 1], a)
    <3>1. w[k] = w[k - 1]
      BY <2>1, <2>2 DEF Expanded
    <3>2. k = 1 \/ k - 1 >= 1
      OBVIOUS
    <3>3. k = 1 => w[k - 1] = f
      BY <1>3
    <3> QED BY <1>5, <2>2, <3>1, <3>2, <3>3
  <2>3. CASE ~Ended(m, w[k - 1], a)
    <3>0. Searched(m, w[k - 1], a, b, s, e)
      BY <1>5
    <3>1. /\ Searched(m, w[k], a, b, s, e)
          /\ Work(m, w[k]) \subseteq Work(m, w[k - 1])
          /\ \E x \in Work(m, w[k - 1]) : x \notin Work(m, w[k])
      BY ONLY GraphSound(m), s \in Pixels, e \in Pixels, <2>1, <2>3, <3>0, ExpandedKeeps
    <3>2. ~Ended(m, f, a)
      BY <1>5, <2>3
    <3> QED BY <1>5, <3>1, <3>2
  <2> QED BY <2>2, <2>3
<1> HIDE DEF Good
<1>6. Good(n)
  <2> SUFFICES ASSUME Bad # {} PROVE FALSE
    OBVIOUS
  <2>1. PICK k \in Bad : \A l \in Bad : k <= l
    <3>1. Bad \subseteq Nat
      OBVIOUS
    <3> QED BY <3>1, LeastOf
  <2>2. k # 0 /\ k \in 1 .. n /\ k - 1 \in 0 .. n /\ ~(k <= k - 1)
    BY <1>4, <2>1
  <2>3. k - 1 \notin Bad
    BY <2>1, <2>2
  <2> QED BY <1>5, <2>1, <2>2, <2>3
<1> QED BY <1>1, <1>6 DEF Good

\* There is no more work than the turns that MaxTurns allows.
LEMMA WorkBounded ==
  ASSUME NEW m, GraphSound(m), NEW f
  PROVE  /\ MaxTurns(m) \in Nat /\ IsFiniteSet(Work(m, f)) /\ Cardinality(Work(m, f)) \in Nat
         /\ Cardinality(Work(m, f)) <= MaxTurns(m)
<1> DEFINE P == DOMAIN m.portal
           N == Cardinality(P)
           B == MAX_COST * N
           all == P \X (0 .. B)
<1>1. IsFiniteSet(P) /\ N \in Nat
  BY DEF GraphSound
<1>2. MaxTurns(m) = N * (N * MAX_COST + 1)
  BY DEF MaxTurns
<1>3. Work(m, f) \subseteq all
  BY DEF Work
<1> HIDE DEF P, N
<1>4. B \in Nat /\ B = N * MAX_COST
  BY <1>1 DEF MAX_COST
<1> HIDE DEF B
<1>5. IsFiniteSet(0 .. B) /\ Cardinality(0 .. B) = B + 1
  BY <1>4, FS_Interval
<1>6. IsFiniteSet(all) /\ Cardinality(all) = N * (B + 1)
  BY <1>1, <1>5, FS_Product DEF N
<1> HIDE DEF all
<1>7. IsFiniteSet(Work(m, f)) /\ Cardinality(Work(m, f)) <= N * (B + 1)
  BY <1>3, <1>6, FS_Subset
<1>8. Cardinality(Work(m, f)) \in Nat
  BY <1>7, FS_CardinalityType
<1>9. N * (B + 1) \in Nat
  BY <1>1, <1>4
<1> QED BY <1>2, <1>4, <1>7, <1>8, <1>9

\* The function that Search defines.
IsStriding(m, f, a, s, n, w) ==
  w = [k \in 0 .. n |-> IF k = 0 THEN f ELSE Turned(m, w[k - 1], a, s, Cardinality(DOMAIN m.portal))]

LEMMA StridingExists ==
  ASSUME NEW m, NEW f, NEW a, NEW s, NEW n \in Nat
  PROVE  \E w : IsStriding(m, f, a, s, n, w)
<1> DEFINE Bad == {k \in Nat : ~ \E w : IsStriding(m, f, a, s, k, w)}
<1> SUFFICES ASSUME Bad # {} PROVE FALSE
  OBVIOUS
<1>1. PICK b \in Bad : \A k \in Bad : b <= k
  BY LeastOf
<1>2. b \in Nat /\ ~ \E w : IsStriding(m, f, a, s, b, w)
  OBVIOUS
<1>3. CASE b = 0
  <2> DEFINE w == [k \in 0 .. 0 |-> f]
  <2>1. IsStriding(m, f, a, s, 0, w)
    BY DEF IsStriding
  <2> QED BY <1>2, <1>3, <2>1
<1>4. CASE b # 0
  <2>1. b - 1 \in Nat /\ b - 1 \notin Bad
    BY <1>1, <1>2, <1>4
  <2>2. PICK w : IsStriding(m, f, a, s, b - 1, w)
    BY <2>1
  <2> DEFINE v == [k \in 0 .. b |-> IF k = b THEN Turned(m, w[b - 1], a, s, Cardinality(DOMAIN m.portal)) ELSE w[k]]
  <2>3. ASSUME NEW k \in 0 .. b
        PROVE  v[k] = IF k = 0 THEN f ELSE Turned(m, v[k - 1], a, s, Cardinality(DOMAIN m.portal))
    <3>1. CASE k = b
      BY <1>2, <1>4, <3>1
    <3>2. CASE k # b
      <4>1. k \in 0 .. b - 1 /\ (k # 0 => k - 1 \in 0 .. b /\ k - 1 # b)
        BY <1>2, <3>2
      <4>2. w[k] = IF k = 0 THEN f ELSE Turned(m, w[k - 1], a, s, Cardinality(DOMAIN m.portal))
        BY <2>2, <4>1 DEF IsStriding
      <4> QED BY <3>2, <4>1, <4>2
    <3> QED BY <3>1, <3>2
  <2>4. v = [k \in 0 .. b |-> v[k]]
    OBVIOUS
  <2> HIDE DEF v
  <2>5. IsStriding(m, f, a, s, b, v)
    BY <2>3, <2>4 DEF IsStriding
  <2> QED BY <1>2, <2>5
<1> QED BY <1>3, <1>4

\* From turn k on, where the search ended.
IsLast(m, a, w, k, n, l) == l = [i \in k .. n |-> IF Ended(m, w[i], a) THEN w[i] ELSE l[i + 1]]

\* The function that looks for the end of the loop, which Search defines from the last turn back.
LEMMA LastExists ==
  ASSUME NEW m, NEW a, NEW w, NEW n \in Nat, Ended(m, w[n], a)
  PROVE  \E l : IsLast(m, a, w, 0, n, l)
<1> DEFINE Bad == {k \in 0 .. n : ~ \E l : IsLast(m, a, w, k, n, l)}
<1> SUFFICES ASSUME Bad # {} PROVE FALSE
  OBVIOUS
<1>1. PICK b \in Bad : \A k \in Bad : k <= b
  <2>1. Bad \subseteq 0 .. n
    OBVIOUS
  <2> QED BY <2>1, GreatestOf
<1>2. b \in 0 .. n /\ ~ \E l : IsLast(m, a, w, b, n, l)
  OBVIOUS
<1>3. CASE b = n
  <2> DEFINE l == [i \in n .. n |-> w[n]]
  <2>1. ASSUME NEW i \in n .. n PROVE l[i] = IF Ended(m, w[i], a) THEN w[i] ELSE l[i + 1]
    <3>1. i = n
      OBVIOUS
    <3> QED BY <3>1
  <2>2. l = [i \in n .. n |-> l[i]]
    OBVIOUS
  <2> HIDE DEF l
  <2>3. IsLast(m, a, w, n, n, l)
    BY <2>1, <2>2 DEF IsLast
  <2> QED BY <1>2, <1>3, <2>3
<1>4. CASE b # n
  <2>1. b + 1 \in 0 .. n /\ b + 1 \notin Bad
    BY <1>1, <1>2, <1>4
  <2>2. PICK l : IsLast(m, a, w, b + 1, n, l)
    BY <2>1
  <2> DEFINE v == [i \in b .. n |-> IF i = b THEN IF Ended(m, w[b], a) THEN w[b] ELSE l[b + 1] ELSE l[i]]
  <2>3. ASSUME NEW i \in b .. n PROVE v[i] = IF Ended(m, w[i], a) THEN w[i] ELSE v[i + 1]
    <3>1. CASE i = b
      <4>1. b + 1 \in b .. n /\ b + 1 # b
        BY <2>1
      <4> QED BY <3>1, <4>1
    <3>2. CASE i # b
      <4>1. i \in b + 1 .. n
        BY <1>2, <3>2
      <4>2. l[i] = IF Ended(m, w[i], a) THEN w[i] ELSE l[i + 1]
        BY <2>2, <4>1 DEF IsLast
      <4>3. CASE Ended(m, w[i], a)
        BY <3>2, <4>2, <4>3
      <4>4. CASE ~Ended(m, w[i], a)
        <5>1. i # n
          BY <4>4
        <5>2. i + 1 \in b .. n /\ i + 1 # b
          BY <1>2, <4>1, <5>1
        <5> QED BY <3>2, <4>2, <4>4, <5>2
      <4> QED BY <4>3, <4>4
    <3> QED BY <3>1, <3>2
  <2>4. v = [i \in b .. n |-> v[i]]
    OBVIOUS
  <2> HIDE DEF v
  <2>5. IsLast(m, a, w, b, n, v)
    BY <2>3, <2>4 DEF IsLast
  <2> QED BY <1>2, <2>5
<1> QED BY <1>3, <1>4

\* It stops at a turn after which the search ended.
LEMMA LastEnded ==
  ASSUME NEW m, NEW a, NEW w, NEW n \in Nat, Ended(m, w[n], a), NEW l, IsLast(m, a, w, 0, n, l)
  PROVE  \E j \in 0 .. n : l[0] = w[j] /\ Ended(m, w[j], a)
<1> DEFINE Good(k) == \E j \in 0 .. n : l[k] = w[j] /\ Ended(m, w[j], a)
           Bad == {k \in 0 .. n : ~Good(k)}
<1>1. \A k \in 0 .. n : l[k] = IF Ended(m, w[k], a) THEN w[k] ELSE l[k + 1]
  BY DEF IsLast
<1> HIDE DEF Good
<1>2. Bad = {}
  <2> SUFFICES ASSUME Bad # {} PROVE FALSE
    OBVIOUS
  <2>1. PICK b \in Bad : \A k \in Bad : k <= b
    <3>1. Bad \subseteq 0 .. n
      OBVIOUS
    <3> QED BY <3>1, GreatestOf
  <2>2. b \in 0 .. n /\ ~Good(b)
    OBVIOUS
  <2>3. CASE Ended(m, w[b], a)
    BY <1>1, <2>2, <2>3 DEF Good
  <2>4. CASE ~Ended(m, w[b], a)
    <3>1. b # n /\ l[b] = l[b + 1]
      BY <1>1, <2>2, <2>4
    <3>2. b + 1 \in 0 .. n /\ b + 1 \notin Bad
      BY <2>1, <2>2, <3>1
    <3>3. Good(b + 1)
      BY <3>2
    <3> QED BY <2>2, <3>1, <3>3 DEF Good
  <2> QED BY <2>3, <2>4
<1>3. 0 \in 0 .. n
  OBVIOUS
<1> QED BY <1>2, <1>3 DEF Good

\* Before the turns are used up there is no work left, so the search ended.
LEMMA SearchEnds ==
  ASSUME NEW m, GraphSound(m), NEW s \in Pixels, NEW e \in Pixels, NEW a, NEW b,
         NEW f, Searched(m, f, a, b, s, e)
  PROVE  Searched(m, Search(m, f, a, s), a, b, s, e) /\ Ended(m, Search(m, f, a, s), a)
<1> DEFINE M == MaxTurns(m)
           N == Cardinality(DOMAIN m.portal)
           w == CHOOSE v : IsStriding(m, f, a, s, M, v)
           l == CHOOSE v : IsLast(m, a, w, 0, M, v)
<1>1. M \in Nat /\ N \in Nat
  BY WorkBounded DEF GraphSound
<1>2. Search(m, f, a, s) = l[0]
  BY DEF Search, IsStriding, IsLast
<1>3. IsStriding(m, f, a, s, M, w)
  <2> HIDE DEF M
  <2> QED BY <1>1, StridingExists
<1> HIDE DEF w, M
<1>4. \A k \in 0 .. M : w[k] = IF k = 0 THEN f ELSE Turned(m, w[k - 1], a, s, N)
  BY <1>3 DEF IsStriding
<1> HIDE DEF N
<1> DEFINE Size(k) == Cardinality(Work(m, w[k]))
           Good(k) == Searched(m, w[k], a, b, s, e) /\ (Ended(m, w[k], a) \/ Size(k) + k <= M)
           Bad == {k \in 0 .. M : ~Good(k)}
<1>5. \A k : Size(k) \in Nat /\ Size(k) <= M /\ IsFiniteSet(Work(m, w[k]))
  BY WorkBounded DEF M
<1> HIDE DEF Size
<1>6. Good(0)
  <2>1. w[0] = f
    BY <1>1, <1>4
  <2>2. Size(0) + 0 <= M
    BY ONLY <1>1, <1>5
  <2> QED BY <2>1, <2>2
<1>7. ASSUME NEW k \in 1 .. M, Good(k - 1) PROVE Good(k)
  <2>1. w[k] = Turned(m, w[k - 1], a, s, N) /\ Searched(m, w[k - 1], a, b, s, e)
    BY <1>1, <1>4, <1>7
  <2>2. /\ Searched(m, w[k], a, b, s, e)
        /\ Ended(m, w[k - 1], a) => w[k] = w[k - 1]
        /\ Work(m, w[k]) \subseteq Work(m, w[k - 1])
        /\ ~Ended(m, w[k - 1], a) /\ N >= 1 => \E x \in Work(m, w[k - 1]) : x \notin Work(m, w[k])
    BY ONLY GraphSound(m), s \in Pixels, e \in Pixels, <1>1, <2>1, TurnedKeeps
  <2>3. CASE Ended(m, w[k - 1], a)
    BY <2>2, <2>3
  <2>4. CASE ~Ended(m, w[k - 1], a)
    <3>1. N >= 1
      <4>1. PICK x \in Work(m, w[k - 1]) : TRUE
        BY ONLY GraphSound(m), s \in Pixels, e \in Pixels, <2>1, <2>4, ExpandedKeeps
      <4>2. DOMAIN m.portal # {}
        BY <4>1 DEF Work
      <4>3. IsFiniteSet(DOMAIN m.portal)
        BY DEF GraphSound
      <4>4. N # 0
        BY <4>2, <4>3, FS_EmptySet DEF N
      <4> QED BY <1>1, <4>4
    <3>2. Work(m, w[k]) # Work(m, w[k - 1])
      BY <2>2, <2>4, <3>1
    <3>3. Size(k) <= Size(k - 1) /\ Size(k) # Size(k - 1)
      BY <1>5, <2>2, <3>2, FS_Subset DEF Size
    <3>4. Size(k - 1) + (k - 1) <= M
      BY <1>7, <2>4
    <3>5. Size(k) + k <= M
      BY ONLY <1>1, <1>5, <3>3, <3>4, k \in 1 .. M
    <3> QED BY <2>2, <3>5
  <2> QED BY <2>3, <2>4
<1> HIDE DEF Good
<1>8. Bad = {}
  <2> SUFFICES ASSUME Bad # {} PROVE FALSE
    OBVIOUS
  <2>1. PICK k \in Bad : \A j \in Bad : k <= j
    <3>1. Bad \subseteq Nat
      OBVIOUS
    <3> QED BY <3>1, LeastOf
  <2>2. k # 0 /\ k \in 1 .. M /\ k - 1 \in 0 .. M /\ ~(k <= k - 1)
    BY <1>1, <1>6, <2>1
  <2>3. k - 1 \notin Bad
    BY <2>1, <2>2
  <2> QED BY <1>7, <2>1, <2>2, <2>3
<1>9. \A k \in 0 .. M : Searched(m, w[k], a, b, s, e)
  BY <1>8 DEF Good
<1>10. Ended(m, w[M], a)
  <2> SUFFICES ASSUME ~Ended(m, w[M], a) PROVE FALSE
    OBVIOUS
  <2>1. M \in 0 .. M
    BY <1>1
  <2>2. Size(M) = 0
    <3>1. Size(M) + M <= M
      BY <1>8, <2>1 DEF Good
    <3> QED BY ONLY <1>1, <1>5, <3>1
  <2>3. Work(m, w[M]) = {}
    BY <1>5, <2>2, FS_EmptySet DEF Size
  <2>4. Searched(m, w[M], a, b, s, e)
    BY <1>9, <2>1
  <2>5. \E x \in Work(m, w[M]) : TRUE
    BY ONLY GraphSound(m), s \in Pixels, e \in Pixels, <2>4, ~Ended(m, w[M], a), ExpandedKeeps
  <2> QED BY <2>3, <2>5
<1>11. IsLast(m, a, w, 0, M, l)
  BY <1>1, <1>10, LastExists
<1> HIDE DEF l
<1>12. \E j \in 0 .. M : l[0] = w[j] /\ Ended(m, w[j], a)
  BY <1>1, <1>10, <1>11, LastEnded
<1> QED BY <1>2, <1>9, <1>12

-----------------------------------------------------------------------------
(* What was found *)

LEMMA CostIsNat == \A c \in 0 .. MAX_COST : c \in Nat
<1>1. MAX_COST \in Nat
  BY DEF MAX_COST
<1> QED BY ONLY <1>1

\* A portal that is known and was not taken out of the open set is behind the first of it.
LEMMA HeadIs ==
  ASSUME NEW m, NEW g, NEW s, Typed(m, g, s), NEW p \in DOMAIN g.cost, p \notin Done(g)
  PROVE  /\ g.open # <<>> /\ g.open[1] \in Entries(g)
         /\ g.open[1].cost <= g.cost[p] + Ahead(m, p, s)
<1>1. PICK x \in Entries(g) : x.portal = p
  BY DEF Done
<1>2. Heap(g.open, EntriesOn(m), Entries(g)) /\ x.cost = g.cost[p] + Ahead(m, p, s)
  BY <1>1 DEF Typed
<1>3. Len(g.open) >= 1 /\ g.open[1] \in Entries(g) /\ g.open[1].cost <= x.cost
  BY ONLY <1>2, x \in Entries(g), HeadIsCheapest
<1>4. g.open # <<>>
  <2>1. Len(<<>>) = 0
    OBVIOUS
  <2> QED BY <1>3, <2>1
<1> QED BY <1>2, <1>3, <1>4

\* The search ended at a portal of the area of the start.
LEMMA FoundIs ==
  ASSUME NEW m, NEW g, NEW s, Typed(m, g, s), NEW a, Ended(m, g, a), g.open # <<>>
  PROVE  /\ Found(g) \in DOMAIN g.cost /\ a \in Of(m, Found(g))
         /\ g.open[1].cost = g.cost[Found(g)] + Ahead(m, Found(g), s)
<1>1. Heap(g.open, EntriesOn(m), Entries(g)) /\ g.open # <<>>
  BY DEF Typed
<1>2. g.open[1] \in Entries(g)
  BY ONLY <1>1, ShiftedKeeps
<1>3. Found(g) = g.open[1].portal
  BY DEF Found
<1> QED BY <1>2, <1>3 DEF Ended, Typed

-----------------------------------------------------------------------------
(* No other chain of portals is cheaper *)

\* After k turns of the relaxation: what it knows the search has done as cheaply, or has something
\* in front that looks as cheap.
Reckoned(m, g, s, costs, k) ==
  /\ DOMAIN costs \subseteq DOMAIN m.portal /\ \A p \in DOMAIN costs : costs[p] \in Nat
  /\ \A p \in DOMAIN costs :
       \/ p \in Done(g) /\ g.cost[p] <= costs[p] + k
       \/ g.open # <<>> /\ g.open[1].cost <= costs[p] + Ahead(m, p, s) + k

\* A portal that is known at a cost.
LEMMA ReckonedAt ==
  ASSUME NEW m, NEW s \in Pixels, GraphSound(m), NEW g, Typed(m, g, s),
         NEW p \in DOMAIN g.cost, NEW c \in Nat, NEW k \in Nat, g.cost[p] <= c + k
  PROVE  \/ p \in Done(g) /\ g.cost[p] <= c + k
         \/ g.open # <<>> /\ g.open[1].cost <= c + Ahead(m, p, s) + k
<1>1. CASE p \in Done(g)
  BY <1>1
<1>2. CASE p \notin Done(g)
  <2>1. /\ g.open # <<>> /\ g.open[1] \in Entries(g)
        /\ g.open[1].cost <= g.cost[p] + Ahead(m, p, s)
    BY <1>2, HeadIs
  <2>2. p \in DOMAIN m.portal /\ g.cost[p] \in Nat
    BY DEF Typed
  <2>3. Ahead(m, p, s) \in 0 .. MAX_COST
    BY <2>2, LegIs
  <2>4. g.open[1].cost \in Int
    <3>1. Heap(g.open, EntriesOn(m), Entries(g))
      BY DEF Typed
    <3> QED BY ONLY <2>1, <3>1, HeapFacts
  <2>5. Ahead(m, p, s) \in Nat
    BY ONLY <2>3, CostIsNat
  <2>6. g.open[1].cost <= c + Ahead(m, p, s) + k
    BY ONLY <2>1, <2>2, <2>4, <2>5, g.cost[p] <= c + k, c \in Nat, k \in Nat
  <2> QED BY <2>1, <2>6
<1> QED BY <1>1, <1>2

\* At first, the portals of the area of the end.
LEMMA ReckonedStarts ==
  ASSUME NEW m, GraphSound(m), NEW s \in Pixels, NEW e \in Pixels, NEW a, NEW b,
         NEW g, Searched(m, g, a, b, s, e)
  PROVE  Reckoned(m, g, s, [p \in PortalsOf(m, b) |-> Cost(e, Center(m, p))], 0)
<1>1. Typed(m, g, s) /\ AroundEnd(m, g, b, e)
  BY DEF Searched
<1>2. ASSUME NEW p \in PortalsOf(m, b)
      PROVE  /\ p \in DOMAIN m.portal /\ Cost(e, Center(m, p)) \in Nat
             /\ \/ p \in Done(g) /\ g.cost[p] <= Cost(e, Center(m, p)) + 0
                \/ g.open # <<>> /\ g.open[1].cost <= Cost(e, Center(m, p)) + Ahead(m, p, s) + 0
  <2>1. p \in DOMAIN m.portal
    BY DEF PortalsOf
  <2>2. Cost(e, Center(m, p)) \in 0 .. MAX_COST
    BY <2>1, LegIs
  <2>3. Cost(e, Center(m, p)) \in Nat
    BY ONLY <2>2, CostIsNat
  <2>4. p \in DOMAIN g.cost /\ g.cost[p] <= Cost(e, Center(m, p))
    BY <1>1 DEF AroundEnd
  <2>5. g.cost[p] <= Cost(e, Center(m, p)) + 0
    BY ONLY <2>3, <2>4
  <2>6. 0 \in Nat
    OBVIOUS
  <2>7. \/ p \in Done(g) /\ g.cost[p] <= Cost(e, Center(m, p)) + 0
        \/ g.open # <<>> /\ g.open[1].cost <= Cost(e, Center(m, p)) + Ahead(m, p, s) + 0
    BY ONLY GraphSound(m), s \in Pixels, <1>1, <2>3, <2>4, <2>5, <2>6, ReckonedAt
  <2> QED BY <2>1, <2>3, <2>7
<1> DEFINE costs == [p \in PortalsOf(m, b) |-> Cost(e, Center(m, p))]
<1>3. DOMAIN costs = PortalsOf(m, b) /\ \A p \in PortalsOf(m, b) : costs[p] = Cost(e, Center(m, p))
  OBVIOUS
<1> HIDE DEF costs
<1>4. Reckoned(m, g, s, costs, 0)
  BY <1>2, <1>3 DEF Reckoned
<1> QED BY <1>4 DEF costs

\* A portal more: over one that was taken out of the open set it is known, over any other the
\* estimate grows by no more than the leg, and a pixel.
LEMMA ReckonedGoesOn ==
  ASSUME NEW m, GraphSound(m), NEW s \in Pixels, NEW e \in Pixels, NEW a, NEW b,
         NEW g, Searched(m, g, a, b, s, e), NEW k \in Nat, NEW costs, Reckoned(m, g, s, costs, k)
  PROVE  Reckoned(m, g, s, Relaxed(m, costs, Legs(m)), k + 1)
<1> DEFINE next == Relaxed(m, costs, Legs(m))
           From(p) == {q \in DOMAIN costs : Meeting(m, q, p)}
           Sums(p) == {costs[r] + Legs(m)[<<r, p>>] : r \in From(p)}
<1>1. /\ DOMAIN next = {q \in DOMAIN m.portal : \E r \in DOMAIN costs : Meeting(m, r, q)}
      /\ \A p \in DOMAIN next : next[p] = Least(Sums(p))
  BY DEF Relaxed
<1> HIDE DEF next
<1>2. Typed(m, g, s) /\ AroundDone(m, g)
  BY DEF Searched
<1>3. /\ DOMAIN costs \subseteq DOMAIN m.portal /\ \A p \in DOMAIN costs : costs[p] \in Nat
      /\ \A p \in DOMAIN costs :
           \/ p \in Done(g) /\ g.cost[p] <= costs[p] + k
           \/ g.open # <<>> /\ g.open[1].cost <= costs[p] + Ahead(m, p, s) + k
  BY DEF Reckoned
<1>4. ASSUME NEW p \in DOMAIN m.portal, NEW r \in DOMAIN m.portal
      PROVE  Legs(m)[<<r, p>>] = Leg(m, r, p) /\ Leg(m, r, p) \in Nat
  <2> DEFINE D == DOMAIN m.portal
             l == <<r, p>>
  <2>1. Legs(m)[<<r, p>>] = Leg(m, r, p)
    <3>1. l \in D \X D /\ l[1] = r /\ l[2] = p
      OBVIOUS
    <3> HIDE DEF D, l
    <3>2. Legs(m)[l] = Cost(Center(m, l[1]), Center(m, l[2]))
      BY ONLY <3>1 DEF Legs, D
    <3> QED BY <3>1, <3>2 DEF l, Leg
  <2>2. Leg(m, r, p) \in 0 .. MAX_COST
    BY LegIs
  <2> QED BY ONLY <2>1, <2>2, CostIsNat
<1>5. ASSUME NEW p \in DOMAIN next
      PROVE  /\ p \in DOMAIN m.portal /\ next[p] \in Nat
             /\ \/ p \in Done(g) /\ g.cost[p] <= next[p] + (k + 1)
                \/ g.open # <<>> /\ g.open[1].cost <= next[p] + Ahead(m, p, s) + (k + 1)
  <2>1. p \in DOMAIN m.portal /\ From(p) # {}
    BY <1>1
  <2>2. Sums(p) \subseteq Nat
    <3> SUFFICES ASSUME NEW r \in From(p) PROVE costs[r] + Legs(m)[<<r, p>>] \in Nat
      BY Zenon
    <3>1. costs[r] \in Nat /\ Legs(m)[<<r, p>>] \in Nat
      BY <1>3, <1>4, <2>1
    <3> QED BY <3>1
  <2>3. Sums(p) # {}
    BY <2>1
  <2>4. next[p] \in Sums(p)
    <3> HIDE DEF Sums
    <3>1. \E n \in Sums(p) : \A j \in Sums(p) : n <= j
      BY <2>2, <2>3, LeastOf
    <3>2. Least(Sums(p)) \in Sums(p)
      BY <3>1 DEF Least
    <3> QED BY <1>1, <3>2
  <2>5. PICK r \in From(p) : next[p] = costs[r] + Legs(m)[<<r, p>>]
    BY <2>4
  <2>6. r \in DOMAIN costs /\ r \in DOMAIN m.portal /\ Meeting(m, r, p)
    BY <1>3
  <2>7. next[p] = costs[r] + Leg(m, r, p) /\ Leg(m, r, p) \in Nat /\ costs[r] \in Nat
    BY <1>3, <1>4, <2>1, <2>5, <2>6
  <2>8. next[p] \in Nat /\ k + 1 \in Nat
    BY ONLY <2>7, k \in Nat
  <2>9. CASE r \in Done(g) /\ g.cost[r] <= costs[r] + k
    <3>1. PICK c : c \in Of(m, r) /\ c \in Of(m, p)
      BY <2>6 DEF Meeting
    <3>2. p \in PortalsOf(m, c)
      BY <2>1, <3>1 DEF PortalsOf
    <3>3. p \in DOMAIN g.cost /\ g.cost[p] <= g.cost[r] + Leg(m, r, p) + 1
      BY <1>2, <2>9, <3>1, <3>2 DEF AroundDone, Around
    <3>4. g.cost[p] \in Nat /\ g.cost[r] \in Nat
      BY <1>2, <2>9, <3>3 DEF Typed, Done
    <3>5. g.cost[p] <= next[p] + (k + 1)
      BY ONLY <2>7, <2>9, <3>3, <3>4, k \in Nat
    <3>6. \/ p \in Done(g) /\ g.cost[p] <= next[p] + (k + 1)
          \/ g.open # <<>> /\ g.open[1].cost <= next[p] + Ahead(m, p, s) + (k + 1)
      BY ONLY GraphSound(m), s \in Pixels, <1>2, <2>8, <3>3, <3>5, ReckonedAt
    <3> QED BY <2>1, <2>8, <3>6
  <2>10. CASE g.open # <<>> /\ g.open[1].cost <= costs[r] + Ahead(m, r, s) + k
    <3>1. /\ Ahead(m, r, s) <= Leg(m, r, p) + Ahead(m, p, s) + 1
          /\ Ahead(m, r, s) \in 0 .. MAX_COST /\ Ahead(m, p, s) \in 0 .. MAX_COST
      BY ONLY GraphSound(m), s \in Pixels, <2>1, <2>6, LegIs
    <3>2. Ahead(m, r, s) \in Nat /\ Ahead(m, p, s) \in Nat
      BY ONLY <3>1, CostIsNat
    <3>3. g.open[1].cost \in Int
      <4>1. Heap(g.open, EntriesOn(m), Entries(g)) /\ g.open # <<>>
        BY <1>2, <2>10 DEF Typed
      <4>2. g.open[1] \in Entries(g)
        BY ONLY <4>1, ShiftedKeeps
      <4> QED BY ONLY <4>1, <4>2, HeapFacts
    <3>4. g.open[1].cost <= next[p] + Ahead(m, p, s) + (k + 1)
      BY ONLY <2>7, <2>10, <3>1, <3>2, <3>3, k \in Nat
    <3> QED BY <2>1, <2>8, <2>10, <3>4
  <2> QED BY <1>3, <2>6, <2>9, <2>10
<1>6. DOMAIN next \subseteq DOMAIN m.portal /\ \A p \in DOMAIN next : next[p] \in Nat
  BY <1>5
<1>7. \A p \in DOMAIN next : \/ p \in Done(g) /\ g.cost[p] <= next[p] + (k + 1)
                             \/ g.open # <<>> /\ g.open[1].cost <= next[p] + Ahead(m, p, s) + (k + 1)
  BY <1>5
<1>8. Reckoned(m, g, s, next, k + 1)
  BY ONLY <1>6, <1>7 DEF Reckoned
<1> QED BY <1>8 DEF next

\* The function that CostsFrom defines.
IsRelaxing(m, first, legs, n, w) ==
  w = [k \in 0 .. n |-> IF k = 0 THEN first ELSE Relaxed(m, w[k - 1], legs)]

LEMMA RelaxingExists ==
  ASSUME NEW m, NEW first, NEW legs, NEW n \in Nat
  PROVE  \E w : IsRelaxing(m, first, legs, n, w)
<1> DEFINE Bad == {k \in Nat : ~ \E w : IsRelaxing(m, first, legs, k, w)}
<1> SUFFICES ASSUME Bad # {} PROVE FALSE
  OBVIOUS
<1>1. PICK b \in Bad : \A k \in Bad : b <= k
  BY LeastOf
<1>2. b \in Nat /\ ~ \E w : IsRelaxing(m, first, legs, b, w)
  OBVIOUS
<1>3. CASE b = 0
  <2> DEFINE w == [k \in 0 .. 0 |-> first]
  <2>1. IsRelaxing(m, first, legs, 0, w)
    BY DEF IsRelaxing
  <2> QED BY <1>2, <1>3, <2>1
<1>4. CASE b # 0
  <2>1. b - 1 \in Nat /\ b - 1 \notin Bad
    BY <1>1, <1>2, <1>4
  <2>2. PICK w : IsRelaxing(m, first, legs, b - 1, w)
    BY <2>1
  <2> DEFINE v == [k \in 0 .. b |-> IF k = b THEN Relaxed(m, w[b - 1], legs) ELSE w[k]]
  <2>3. ASSUME NEW k \in 0 .. b PROVE v[k] = IF k = 0 THEN first ELSE Relaxed(m, v[k - 1], legs)
    <3>1. CASE k = b
      BY <1>2, <1>4, <3>1
    <3>2. CASE k # b
      <4>1. k \in 0 .. b - 1 /\ (k # 0 => k - 1 \in 0 .. b /\ k - 1 # b)
        BY <1>2, <3>2
      <4>2. w[k] = IF k = 0 THEN first ELSE Relaxed(m, w[k - 1], legs)
        BY <2>2, <4>1 DEF IsRelaxing
      <4> QED BY <3>2, <4>1, <4>2
    <3> QED BY <3>1, <3>2
  <2>4. v = [k \in 0 .. b |-> v[k]]
    OBVIOUS
  <2> HIDE DEF v
  <2>5. IsRelaxing(m, first, legs, b, v)
    BY <2>3, <2>4 DEF IsRelaxing
  <2> QED BY <1>2, <2>5
<1> QED BY <1>3, <1>4

\* After as many turns as there are portals.
LEMMA CostsReckoned ==
  ASSUME NEW m, GraphSound(m), NEW s \in Pixels, NEW e \in Pixels, NEW a, NEW b,
         NEW g, Searched(m, g, a, b, s, e), NEW n, n = Cardinality(DOMAIN m.portal)
  PROVE  Reckoned(m, g, s, CostsFrom(m, b, e, Legs(m)), n)
<1> DEFINE legs == Legs(m)
           first == [p \in {q \in DOMAIN m.portal : b \in Of(m, q)} |-> Cost(e, Center(m, p))]
           w == CHOOSE v : IsRelaxing(m, first, legs, n, v)
<1>1. n \in Nat
  BY DEF GraphSound
<1>2. CostsFrom(m, b, e, legs) = w[n]
  BY DEF CostsFrom, IsRelaxing
<1>3. IsRelaxing(m, first, legs, n, w)
  <2> HIDE DEF first, legs
  <2> QED BY <1>1, RelaxingExists
<1> HIDE DEF w, legs
<1>4. \A k \in 0 .. n : w[k] = IF k = 0 THEN first ELSE Relaxed(m, w[k - 1], legs)
  BY <1>3 DEF IsRelaxing
<1>5. first = [p \in PortalsOf(m, b) |-> Cost(e, Center(m, p))]
  BY DEF PortalsOf
<1> HIDE DEF first
<1> DEFINE Good(k) == Reckoned(m, g, s, w[k], k)
           Bad == {k \in 0 .. n : ~Good(k)}
<1>6. Good(0)
  <2>1. w[0] = first
    BY <1>1, <1>4
  <2>2. Reckoned(m, g, s, first, 0)
    BY <1>5, ReckonedStarts
  <2> QED BY <2>1, <2>2
<1>7. ASSUME NEW k \in 1 .. n, Good(k - 1) PROVE Good(k)
  <2>1. w[k] = Relaxed(m, w[k - 1], Legs(m))
    BY <1>1, <1>4 DEF legs
  <2>2. Reckoned(m, g, s, w[k - 1], k - 1) /\ k - 1 \in Nat /\ (k - 1) + 1 = k
    BY <1>1, <1>7
  <2>3. Reckoned(m, g, s, Relaxed(m, w[k - 1], Legs(m)), (k - 1) + 1)
    BY ONLY GraphSound(m), s \in Pixels, e \in Pixels, Searched(m, g, a, b, s, e), <2>2, ReckonedGoesOn
  <2> QED BY <2>1, <2>2, <2>3
<1> HIDE DEF Good
<1>8. Bad = {}
  <2> SUFFICES ASSUME Bad # {} PROVE FALSE
    OBVIOUS
  <2>1. PICK k \in Bad : \A j \in Bad : k <= j
    <3>1. Bad \subseteq Nat
      OBVIOUS
    <3> QED BY <3>1, LeastOf
  <2>2. k # 0 /\ k \in 1 .. n /\ k - 1 \in 0 .. n /\ ~(k <= k - 1)
    BY <1>1, <1>6, <2>1
  <2>3. k - 1 \notin Bad
    BY <2>1, <2>2
  <2> QED BY <1>7, <2>1, <2>2, <2>3
<1>9. n \in 0 .. n
  BY <1>1
<1> QED BY <1>2, <1>8, <1>9 DEF Good, legs

\* A portal of the area of the start was not taken out, so the first entry looks as cheap.
LEMMA FoundIsShort ==
  ASSUME NEW m, GraphSound(m), NEW s \in Pixels, NEW e \in Pixels, NEW a, NEW b,
         NEW g, Searched(m, g, a, b, s, e), Ended(m, g, a), g.open # <<>>
  PROVE  LET costs == CostsFrom(m, b, e, Legs(m)) IN
         \A q \in DOMAIN costs : a \in Of(m, q) =>
           g.cost[Found(g)] + Cost(Center(m, Found(g)), s)
             <= costs[q] + Cost(Center(m, q), s) + Cardinality(DOMAIN m.portal)
<1> DEFINE costs == CostsFrom(m, b, e, Legs(m))
<1>1. Reckoned(m, g, s, costs, Cardinality(DOMAIN m.portal))
  BY CostsReckoned
<1> HIDE DEF costs
<1>2. Typed(m, g, s) /\ \A q \in Done(g) : a \notin Of(m, q)
  BY DEF Searched
<1>3. g.open[1].cost = g.cost[Found(g)] + Ahead(m, Found(g), s)
  BY <1>2, FoundIs
<1>4. \A q \in DOMAIN costs : a \in Of(m, q) =>
        g.open[1].cost <= costs[q] + Ahead(m, q, s) + Cardinality(DOMAIN m.portal)
  BY <1>1, <1>2 DEF Reckoned
<1> QED BY <1>3, <1>4 DEF costs, Ahead

-----------------------------------------------------------------------------
(* A way is found *)

\* Two neighbours of different areas share a portal.
LEMMA NeighboursMeet ==
  ASSUME NEW m, Rectangles(m), Covered(m, {}), NEW x \in DOMAIN m.area, NEW y \in DOMAIN m.area,
         y \in Neighbours(x), m.area[x] # m.area[y]
  PROVE  \E q \in DOMAIN m.portal : m.area[x] \in Of(m, q) /\ m.area[y] \in Of(m, q)
<1>1. x = <<x[1], x[2]>> /\ x[1] \in Int /\ x[2] \in Int /\ y = <<y[1], y[2]>> /\ y[1] \in Int /\ y[2] \in Int
  BY SizeAssumption DEF Rectangles, WithinBorder
<1>2. \E dir \in Dirs, c, k \in Int : \/ x = At(dir, c, k) /\ y = At(dir, c + 1, k)
                                      \/ y = At(dir, c, k) /\ x = At(dir, c + 1, k)
  <2>1. CASE y = Up(x)
    <3>1. x[2] - 1 \in Int /\ (x[2] - 1) + 1 = x[2]
      BY <1>1
    <3>2. y = At(HORIZONTAL, x[2] - 1, x[1]) /\ x = At(HORIZONTAL, (x[2] - 1) + 1, x[1])
      BY <1>1, <2>1, <3>1 DEF Up, At, HORIZONTAL, VERTICAL
    <3> QED BY <1>1, <3>1, <3>2 DEF Dirs
  <2>2. CASE y = Right(x)
    <3>1. x = At(VERTICAL, x[1], x[2]) /\ y = At(VERTICAL, x[1] + 1, x[2])
      BY <1>1, <2>2 DEF Right, At
    <3> QED BY <1>1, <3>1 DEF Dirs
  <2>3. CASE y = Down(x)
    <3>1. x = At(HORIZONTAL, x[2], x[1]) /\ y = At(HORIZONTAL, x[2] + 1, x[1])
      BY <1>1, <2>3 DEF Down, At, HORIZONTAL, VERTICAL
    <3> QED BY <1>1, <3>1 DEF Dirs
  <2>4. CASE y = Left(x)
    <3>1. x[1] - 1 \in Int /\ (x[1] - 1) + 1 = x[1]
      BY <1>1
    <3>2. y = At(VERTICAL, x[1] - 1, x[2]) /\ x = At(VERTICAL, (x[1] - 1) + 1, x[2])
      BY <1>1, <2>4, <3>1 DEF Left, At
    <3> QED BY <1>1, <3>1, <3>2 DEF Dirs
  <2> QED BY <2>1, <2>2, <2>3, <2>4 DEF Neighbours
<1>3. PICK dir \in Dirs, c \in Int, k \in Int : \/ x = At(dir, c, k) /\ y = At(dir, c + 1, k)
                                                \/ y = At(dir, c, k) /\ x = At(dir, c + 1, k)
  BY <1>2
<1>4. CASE x = At(dir, c, k) /\ y = At(dir, c + 1, k)
  <2>1. PICK q \in DOMAIN m.portal : Leads(m, q, dir, x, y, k)
    BY <1>4 DEF Covered
  <2> QED BY <2>1 DEF Leads, Of
<1>5. CASE y = At(dir, c, k) /\ x = At(dir, c + 1, k)
  <2>1. PICK q \in DOMAIN m.portal : Leads(m, q, dir, y, x, k)
    BY <1>5 DEF Covered
  <2> QED BY <2>1 DEF Leads, Of
<1> QED BY <1>3, <1>4, <1>5

\* If the open set ran empty, the tiles of all areas that are known would be closed, hence a whole
\* region, and the start one of them.
LEMMA WayIsFound ==
  ASSUME MapInd, NEW t \in walkable, NEW u \in walkable, region[t] = region[u], map.area[t] # map.area[u],
         NEW s, NEW e, NEW g, Searched(map, g, map.area[t], map.area[u], s, e), Ended(map, g, map.area[t])
  PROVE  g.open # <<>>
<1> SUFFICES ASSUME g.open = <<>> PROVE FALSE
  OBVIOUS
<1> DEFINE b == map.area[u]
           Touched(c) == c = b \/ \E p \in DOMAIN g.cost : c \in Of(map, p)
           T == {x \in walkable : Touched(map.area[x])}
<1>1. /\ RegionsAreComponents /\ RegionTypeOK /\ DOMAIN map.area = walkable
      /\ Rectangles(map) /\ Covered(map, {})
  BY DEF MapInd, RegionInd, MapGood, MapInv
<1>2. AroundEnd(map, g, b, e) /\ AroundDone(map, g) /\ \A p \in Done(g) : map.area[t] \notin Of(map, p)
  BY DEF Searched
<1>3. Done(g) = DOMAIN g.cost
  <2>1. Len(<<>>) = 0 /\ 1 .. 0 = {}
    OBVIOUS
  <2>2. Entries(g) = {}
    BY <2>1 DEF Entries
  <2> QED BY <2>2 DEF Done
<1>4. ASSUME NEW c, Touched(c), NEW q \in PortalsOf(map, c) PROVE q \in DOMAIN g.cost
  <2>1. CASE c = b
    BY <1>2, <2>1 DEF AroundEnd
  <2>2. CASE \E p \in DOMAIN g.cost : c \in Of(map, p)
    BY <1>2, <1>3, <2>2 DEF AroundDone, Around
  <2> QED BY <1>4, <2>1, <2>2
<1>5. Closed(T)
  <2> SUFFICES ASSUME NEW x \in T, NEW y \in Neighbours(x) \cap walkable PROVE Touched(map.area[y])
    BY DEF Closed
  <2>1. CASE map.area[x] = map.area[y]
    BY <2>1
  <2>2. CASE map.area[x] # map.area[y]
    <3>1. PICK q \in DOMAIN map.portal : map.area[x] \in Of(map, q) /\ map.area[y] \in Of(map, q)
      BY <1>1, <2>2, NeighboursMeet
    <3>2. q \in PortalsOf(map, map.area[x]) /\ Touched(map.area[x])
      BY <3>1 DEF PortalsOf
    <3> HIDE DEF Touched
    <3>3. q \in DOMAIN g.cost
      BY <1>4, <3>2
    <3> QED BY <3>1, <3>3 DEF Touched
  <2> QED BY <2>1, <2>2
<1>6. T \subseteq walkable /\ u \in T
  OBVIOUS
<1> HIDE DEF T
<1>7. Whole(T)
  BY <1>1, <1>5, <1>6 DEF RegionsAreComponents
<1>8. t \in T
  BY <1>6, <1>7 DEF Whole
<1>9. \E p \in DOMAIN g.cost : map.area[t] \in Of(map, p)
  BY <1>8 DEF T
<1> QED BY <1>2, <1>3, <1>9

-----------------------------------------------------------------------------
(* The nodes of a way *)

\* Nodes.
Points == Int \X Int

\* Pairs of integers.
LEMMA PointIs == /\ \A x, y \in Int : <<x, y>> \in Points
                 /\ \A q \in Points : q[1] \in Int /\ q[2] \in Int /\ q = <<q[1], q[2]>>
BY DEF Points

LEMMA TwoIs == ASSUME NEW x, NEW y PROVE <<x, y>>[1] = x /\ <<x, y>>[2] = y
OBVIOUS

LEMMA AppendedIs ==
  ASSUME NEW set \in Seq(Points), NEW x \in Points
  PROVE  /\ Append(set, x) \in Seq(Points) /\ Append(set, x) # <<>>
         /\ Append(set, x)[Len(Append(set, x))] = x
OBVIOUS

\* A portal is crossed from one point to another.
LEMMA CrossingIs ==
  ASSUME NEW m, NEW p, Center(m, p) \in Points, NEW from
  PROVE  Crossing(m, p, from)[1] \in Points /\ Crossing(m, p, from)[2] \in Points
<1> DEFINE c == Center(m, p)
           there == IF m.portal[p].dir = HORIZONTAL THEN <<c[1], c[2] + 1>> ELSE <<c[1] + 1, c[2]>>
           i == IF m.portal[p].dir = HORIZONTAL THEN 2 ELSE 1
<1>1. Crossing(m, p, from) = IF from[i] > c[i] THEN <<there, c>> ELSE <<c, there>>
  BY DEF Crossing
<1>2. c \in Points
  OBVIOUS
<1>3. there \in Points
  <2>1. c[1] \in Int /\ c[2] \in Int
    BY PointIs
  <2>2. c[1] + 1 \in Int /\ c[2] + 1 \in Int
    BY <2>1
  <2>3. <<c[1], c[2] + 1>> \in Points /\ <<c[1] + 1, c[2]>> \in Points
    BY ONLY <2>1, <2>2, PointIs
  <2> QED BY <2>3
<1> HIDE DEF there, c, i
<1> QED BY ONLY <1>1, <1>2, <1>3, TwoIs

\* A point is on a tile of an area; all tiles of the box around two points are dug.
InArea(m, p, z) == TileAt(p) \in DOMAIN m.area /\ m.area[TileAt(p)] = z

Dug(m, p, q) ==
  LET t == TileAt(p)
      u == TileAt(q)
  IN \A x \in Smaller(t[1], u[1]) .. Larger(t[1], u[1]),
        y \in Smaller(t[2], u[2]) .. Larger(t[2], u[2]) : <<x, y>> \in DOMAIN m.area

LEMMA TileOf ==
  ASSUME NEW p \in Points
  PROVE  TileAt(p) = <<p[1] \div 256, p[2] \div 256>> /\ p[1] \div 256 \in Int /\ p[2] \div 256 \in Int
<1>1. p[1] \in Int /\ p[2] \in Int
  BY PointIs
<1>2. p[1] \div 256 \in Int /\ p[2] \div 256 \in Int
  BY ONLY <1>1
<1> QED BY <1>2 DEF TileAt, TILE_SCALE

\* An area is a rectangle.
LEMMA AreaIsDug ==
  ASSUME NEW m, Rectangles(m), NEW p \in Points, NEW q \in Points, NEW z, InArea(m, p, z), InArea(m, q, z)
  PROVE  Dug(m, p, q)
<1> DEFINE t == TileAt(p)
           u == TileAt(q)
           r == m.rect[z]
<1>1. t = <<t[1], t[2]>> /\ t[1] \in Int /\ t[2] \in Int /\ u = <<u[1], u[2]>> /\ u[1] \in Int /\ u[2] \in Int
  BY TileOf
<1>2. t \in DOMAIN m.area /\ m.area[t] = z /\ u \in DOMAIN m.area /\ m.area[u] = z
  BY DEF InArea
<1> HIDE DEF t, u
<1>3. z \in DOMAIN m.rect /\ r \in Rect
  BY <1>2 DEF Rectangles
<1>4. \A x, y \in Int : r.x1 <= x /\ x <= r.x2 /\ r.y1 <= y /\ y <= r.y2
                        <=> <<x, y>> \in DOMAIN m.area /\ m.area[<<x, y>>] = z
  BY <1>3 DEF Rectangles
<1>5. r.x1 <= t[1] /\ t[1] <= r.x2 /\ r.y1 <= t[2] /\ t[2] <= r.y2
  BY <1>1, <1>2, <1>4
<1>6. r.x1 <= u[1] /\ u[1] <= r.x2 /\ r.y1 <= u[2] /\ u[2] <= r.y2
  BY <1>1, <1>2, <1>4
<1> SUFFICES ASSUME NEW x \in Smaller(t[1], u[1]) .. Larger(t[1], u[1]),
                    NEW y \in Smaller(t[2], u[2]) .. Larger(t[2], u[2])
             PROVE  <<x, y>> \in DOMAIN m.area
  BY DEF Dug, t, u
<1>7. r.x1 \in Int /\ r.x2 \in Int /\ r.y1 \in Int /\ r.y2 \in Int
  BY <1>3 DEF Rect
<1> HIDE DEF r
<1>8. x \in Int /\ y \in Int /\ r.x1 <= x /\ x <= r.x2 /\ r.y1 <= y /\ y <= r.y2
  BY <1>1, <1>5, <1>6, <1>7 DEF Smaller, Larger
<1> QED BY <1>4, <1>8

\* So are two neighbours.
LEMMA NeighboursAreDug ==
  ASSUME NEW m, NEW p \in Points, NEW q \in Points,
         TileAt(p) \in DOMAIN m.area, TileAt(q) \in DOMAIN m.area, TileAt(q) \in Neighbours(TileAt(p))
  PROVE  Dug(m, p, q)
<1> DEFINE t == TileAt(p)
           u == TileAt(q)
<1>1. t = <<t[1], t[2]>> /\ t[1] \in Int /\ t[2] \in Int /\ u = <<u[1], u[2]>> /\ u[1] \in Int /\ u[2] \in Int
  BY TileOf
<1>2. t \in DOMAIN m.area /\ u \in DOMAIN m.area /\ u \in Neighbours(t)
  OBVIOUS
<1> SUFFICES ASSUME NEW x \in Smaller(t[1], u[1]) .. Larger(t[1], u[1]),
                    NEW y \in Smaller(t[2], u[2]) .. Larger(t[2], u[2])
             PROVE  <<x, y>> \in DOMAIN m.area
  BY DEF Dug
<1> HIDE DEF t, u
<1>3. \/ u[1] = t[1] /\ (u[2] = t[2] - 1 \/ u[2] = t[2] + 1)
      \/ u[2] = t[2] /\ (u[1] = t[1] - 1 \/ u[1] = t[1] + 1)
  BY <1>1, <1>2 DEF Neighbours, Up, Right, Down, Left
<1>4. (x = t[1] /\ y = t[2]) \/ (x = u[1] /\ y = u[2])
  BY <1>1, <1>3 DEF Smaller, Larger
<1> QED BY <1>1, <1>2, <1>4

\* A portal is crossed from the area we are in to the other one.
LEMMA CrossingLeads ==
  ASSUME NEW m, Rectangles(m), PortalsSound(m), NEW p \in DOMAIN m.portal, Center(m, p) \in Points,
         NEW from \in Points, NEW z \in Of(m, p), InArea(m, from, z), NEW o \in Of(m, p), o # z
  PROVE  LET c == Crossing(m, p, from)
         IN InArea(m, c[1], z) /\ InArea(m, c[2], o) /\ Dug(m, c[1], c[2])
<1>1. PICK dir, c, k, x : dir \in Dirs /\ CenterOf(m, p, dir, c, k, x)
  BY CenterIs
<1>2. /\ dir = m.portal[p].dir /\ c \in Int /\ k \in Int /\ x \in Int /\ 256 * k <= x /\ x <= 256 * k + 128
      /\ Center(m, p) = IF dir = VERTICAL THEN <<c * 256 + 255, x>> ELSE <<x, c * 256 + 255>>
  BY <1>1 DEF CenterOf
<1> DEFINE a == m.portal[p].area[0]
           b == m.portal[p].area[1]
           here == Center(m, p)
           there == IF dir = HORIZONTAL THEN <<here[1], here[2] + 1>> ELSE <<here[1] + 1, here[2]>>
           i == IF dir = HORIZONTAL THEN 2 ELSE 1
           u == TileAt(from)
           n == IF dir = HORIZONTAL THEN u[2] ELSE u[1]
           l == IF dir = HORIZONTAL THEN u[1] ELSE u[2]
<1>3. /\ At(dir, c, k) \in DOMAIN m.area /\ m.area[At(dir, c, k)] = a
      /\ At(dir, c + 1, k) \in DOMAIN m.area /\ m.area[At(dir, c + 1, k)] = b
  BY <1>1 DEF CenterOf
<1>4. dir = VERTICAL \/ dir = HORIZONTAL
  BY <1>1 DEF Dirs
<1>5. HORIZONTAL # VERTICAL
  BY DEF HORIZONTAL, VERTICAL
<1>6. Crossing(m, p, from) = IF from[i] > here[i] THEN <<there, here>> ELSE <<here, there>>
  BY <1>2 DEF Crossing
<1>7. (z = a /\ o = b) \/ (z = b /\ o = a)
  BY DEF Of
<1>8. a # b /\ a \in DOMAIN m.rect /\ b \in DOMAIN m.rect
  BY PortalIs
<1>9. /\ u = <<from[1] \div 256, from[2] \div 256>> /\ from[1] \in Int /\ from[2] \in Int
      /\ u \in DOMAIN m.area /\ m.area[u] = z
  BY TileOf, PointIs DEF InArea
<1> HIDE DEF a, b, here
<1>10. here[i] = c * 256 + 255 /\ here \in Points /\ there \in Points
       /\ TileAt(here) = At(dir, c, k) /\ TileAt(there) = At(dir, c + 1, k)
  <2>1. /\ c * 256 + 255 \in Int /\ c * 256 + 255 + 1 \in Int /\ (c * 256 + 255) \div 256 = c
        /\ (c * 256 + 255 + 1) \div 256 = c + 1 /\ x \div 256 = k
    BY ONLY <1>2
  <2>2. CASE dir = VERTICAL
    <3>1. here = <<c * 256 + 255, x>> /\ there = <<c * 256 + 255 + 1, x>> /\ i = 1
      BY <1>2, <1>5, <2>2 DEF here
    <3>2. here \in Points /\ there \in Points
      BY ONLY <1>2, <2>1, <3>1, PointIs
    <3> QED BY ONLY <2>1, <2>2, <3>1, <3>2 DEF At, TileAt, TILE_SCALE
  <2>3. CASE dir = HORIZONTAL
    <3>1. here = <<x, c * 256 + 255>> /\ there = <<x, c * 256 + 255 + 1>> /\ i = 2
      BY <1>2, <1>5, <2>3 DEF here
    <3>2. here \in Points /\ there \in Points
      BY ONLY <1>2, <2>1, <3>1, PointIs
    <3> QED BY ONLY <1>5, <2>1, <2>3, <3>1, <3>2 DEF At, TileAt, TILE_SCALE
  <2> QED BY <1>4, <2>2, <2>3
<1>11. InArea(m, here, a) /\ InArea(m, there, b)
  BY <1>3, <1>10 DEF InArea
<1>12. Dug(m, here, there) /\ Dug(m, there, here)
  <2>1. At(dir, c + 1, k) \in Neighbours(At(dir, c, k)) /\ At(dir, c, k) \in Neighbours(At(dir, c + 1, k))
    BY <1>2, <1>4, <1>5 DEF At, Neighbours, Up, Right, Down, Left
  <2> HIDE DEF there
  <2> QED BY <1>3, <1>10, <2>1, NeighboursAreDug
<1>13. /\ n \in Int /\ l \in Int /\ u = At(dir, n, l) /\ (from[i] > c * 256 + 255 => n >= c + 1)
       /\ (~(from[i] > c * 256 + 255) => n <= c)
  <2>1. CASE dir = VERTICAL
    <3>1. i = 1 /\ n = from[1] \div 256 /\ l = from[2] \div 256
      BY <1>5, <1>9, <2>1
    <3> QED BY <1>2, <1>9, <2>1, <3>1 DEF At
  <2>2. CASE dir = HORIZONTAL
    <3>1. i = 2 /\ n = from[2] \div 256 /\ l = from[1] \div 256
      BY <1>5, <1>9, <2>2
    <3> QED BY <1>2, <1>5, <1>9, <2>2, <3>1 DEF At
  <2> QED BY <1>4, <2>1, <2>2
<1> HIDE DEF u, n, l, i, there
<1>14. ASSUME z = a, from[i] > here[i] PROVE FALSE
  <2>1. n >= c + 1
    BY <1>10, <1>13, <1>14
  <2>2. /\ Near(m.rect[a], dir) <= c /\ c <= Far(m.rect[a], dir)
        /\ Low(m.rect[a], dir) <= k /\ k <= High(m.rect[a], dir)
    BY <1>1, <1>2, <1>3, <1>8, TileIn
  <2>3. n <= Far(m.rect[a], dir)
    BY <1>1, <1>8, <1>9, <1>13, <1>14, TileIn
  <2>4. Near(m.rect[a], dir) \in Int /\ Far(m.rect[a], dir) \in Int
    BY <1>1, <1>8, RectIs
  <2>5. Near(m.rect[a], dir) <= c + 1 /\ c + 1 <= Far(m.rect[a], dir) /\ c + 1 \in Int
    BY ONLY <1>2, <1>13, <2>1, <2>2, <2>3, <2>4
  <2>6. m.area[At(dir, c + 1, k)] = a
    BY <1>1, <1>2, <1>8, <2>2, <2>5, TileIn
  <2> QED BY <1>3, <1>8, <2>6
<1>15. ASSUME z = b, ~(from[i] > here[i]) PROVE FALSE
  <2>1. n <= c
    BY <1>10, <1>13, <1>15
  <2>2. /\ Near(m.rect[b], dir) <= c + 1 /\ c + 1 <= Far(m.rect[b], dir)
        /\ Low(m.rect[b], dir) <= k /\ k <= High(m.rect[b], dir)
    <3>1. c + 1 \in Int
      BY <1>2
    <3> QED BY <1>1, <1>2, <1>3, <1>8, <3>1, TileIn
  <2>3. Near(m.rect[b], dir) <= n
    BY <1>1, <1>8, <1>9, <1>13, <1>15, TileIn
  <2>4. Near(m.rect[b], dir) \in Int /\ Far(m.rect[b], dir) \in Int
    BY <1>1, <1>8, RectIs
  <2>5. Near(m.rect[b], dir) <= c /\ c <= Far(m.rect[b], dir)
    BY ONLY <1>2, <1>13, <2>1, <2>2, <2>3, <2>4
  <2>6. m.area[At(dir, c, k)] = b
    BY <1>1, <1>2, <1>8, <2>2, <2>5, TileIn
  <2> QED BY <1>3, <1>8, <2>6
<1>16. CASE z = a /\ o = b
  <2>1. Crossing(m, p, from) = <<here, there>>
    BY <1>6, <1>14, <1>16
  <2> QED BY <1>11, <1>12, <1>16, <2>1, TwoIs
<1>17. CASE z = b /\ o = a
  <2>1. Crossing(m, p, from) = <<there, here>>
    BY <1>6, <1>15, <1>17
  <2> QED BY <1>11, <1>12, <1>17, <2>1, TwoIs
<1> QED BY <1>7, <1>16, <1>17

\* The point a list of nodes leads to from s, over dug tiles only.
LastOf(s, nodes) == IF nodes = <<>> THEN s ELSE nodes[Len(nodes)]

LegsDug(m, s, nodes) ==
  nodes # <<>> => Dug(m, s, nodes[1]) /\ \A i \in 1 .. Len(nodes) - 1 : Dug(m, nodes[i], nodes[i + 1])

LEMMA LegAppended ==
  ASSUME NEW m, NEW s, NEW nodes \in Seq(Points), NEW x \in Points, LegsDug(m, s, nodes), Dug(m, LastOf(s, nodes), x)
  PROVE  /\ Append(nodes, x) \in Seq(Points) /\ Append(nodes, x) # <<>>
         /\ LegsDug(m, s, Append(nodes, x)) /\ LastOf(s, Append(nodes, x)) = x
<1> DEFINE path == Append(nodes, x)
           n == Len(nodes)
<1>1. /\ path \in Seq(Points) /\ path # <<>> /\ path[Len(path)] = x
  BY AppendedIs
<1>2. n \in Nat /\ Len(path) = n + 1 /\ path[n + 1] = x /\ (\A i \in 1 .. n : path[i] = nodes[i]) /\ (nodes = <<>> <=> n = 0)
  OBVIOUS
<1> HIDE DEF path, n
<1>3. LastOf(s, path) = x
  BY <1>1 DEF LastOf
<1>4. CASE n = 0
  <2>1. Dug(m, s, x) /\ path[1] = x
    BY <1>2, <1>4 DEF LastOf
  <2>2. 1 .. Len(path) - 1 = {}
    BY <1>2, <1>4
  <2> QED BY <1>1, <1>3, <2>1, <2>2 DEF LegsDug, path
<1>5. CASE n # 0
  <2>1. Dug(m, s, nodes[1]) /\ \A i \in 1 .. n - 1 : Dug(m, nodes[i], nodes[i + 1])
    BY <1>2, <1>5 DEF LegsDug, n
  <2>2. Dug(m, nodes[n], x)
    BY <1>2, <1>5 DEF LastOf, n
  <2>3. ASSUME NEW i \in 1 .. Len(path) - 1 PROVE Dug(m, path[i], path[i + 1])
    <3>1. i \in 1 .. n
      BY <1>2
    <3>2. CASE i = n
      BY <1>2, <1>5, <2>2, <3>1, <3>2
    <3>3. CASE i # n
      <4>1. i \in 1 .. n - 1 /\ i + 1 \in 1 .. n
        BY <1>2, <3>1, <3>3
      <4> QED BY <1>2, <2>1, <3>1, <4>1
    <3> QED BY <3>2, <3>3
  <2>4. path[1] = nodes[1]
    BY <1>2, <1>5
  <2> QED BY <1>1, <1>3, <2>1, <2>3, <2>4 DEF LegsDug, path
<1> QED BY <1>4, <1>5

\* A path leads over dug tiles to the area before its portal, or to that of the end.
Led(m, side, s, b, path) ==
  /\ path.nodes \in Seq(Points) /\ path.last = LastOf(s, path.nodes) /\ path.last \in Points
  /\ LegsDug(m, s, path.nodes)
  /\ path.portal = NoPortal => InArea(m, path.last, b)
  /\ path.portal # NoPortal => \E z \in Of(m, path.portal) \ {side[path.portal]} : InArea(m, path.last, z)

LEMMA CrossedLeads ==
  ASSUME NEW m, GraphSound(m), Rectangles(m), PortalsSound(m), NEW f, DOMAIN f.cost \subseteq DOMAIN m.portal,
         NEW side, NEW a, NEW b, Sided(m, f, side, a, b),
         NEW s, NEW path, Led(m, side, s, b, path), path.portal \in DOMAIN f.cost
  PROVE  /\ Led(m, side, s, b, Crossed(m, f.prev, path))
         /\ Crossed(m, f.prev, path).portal = f.prev[path.portal]
<1> DEFINE p == path.portal
           o == side[p]
           c == Crossing(m, p, path.last)
           next == Crossed(m, f.prev, path)
           one == Append(path.nodes, c[1])
           both == Append(one, c[2])
<1>1. /\ path.nodes \in Seq(Points) /\ path.last = LastOf(s, path.nodes) /\ path.last \in Points
      /\ LegsDug(m, s, path.nodes)
  BY DEF Led
<1>2. p \in DOMAIN m.portal /\ p # NoPortal
  BY DEF GraphSound
<1>3. Center(m, p) \in Points
  BY <1>2 DEF GraphSound, Pixels, Points, TILE_SCALE
<1>4. PICK z \in Of(m, p) : z # o /\ InArea(m, path.last, z)
  BY <1>2 DEF Led
<1>5. /\ o \in Of(m, p) /\ (f.prev[p] = NoPortal => o = b)
      /\ f.prev[p] # NoPortal => o \in Of(m, f.prev[p]) \ {side[f.prev[p]]}
  BY DEF Sided
<1>6. next = [portal |-> f.prev[p], last |-> c[2], nodes |-> both]
  BY <1>2 DEF Crossed
<1>7. next.portal = f.prev[p] /\ next.last = c[2] /\ next.nodes = both
  BY <1>6
<1> HIDE DEF p, o, next
<1>8. InArea(m, c[1], z) /\ InArea(m, c[2], o) /\ Dug(m, c[1], c[2])
  BY <1>1, <1>2, <1>3, <1>4, <1>5, CrossingLeads
<1>9. c[1] \in Points /\ c[2] \in Points
  BY <1>3, CrossingIs
<1> HIDE DEF c
<1>10. Dug(m, LastOf(s, path.nodes), c[1])
  BY <1>1, <1>4, <1>8, <1>9, AreaIsDug
<1>11. one \in Seq(Points) /\ LegsDug(m, s, one) /\ LastOf(s, one) = c[1]
  BY ONLY <1>1, <1>9, <1>10, LegAppended
<1> HIDE DEF one
<1>12. both \in Seq(Points) /\ LegsDug(m, s, both) /\ LastOf(s, both) = c[2]
  BY ONLY <1>8, <1>9, <1>11, LegAppended
<1> HIDE DEF both
<1>13. Led(m, side, s, b, next)
  BY <1>5, <1>7, <1>8, <1>9, <1>12 DEF Led
<1> QED BY <1>7, <1>13 DEF p, next

\* The function that Nodes defines.
IsCollecting(m, prev, first, n, w) ==
  w = [k \in 0 .. n |-> IF k = 0 THEN first ELSE Crossed(m, prev, w[k - 1])]

LEMMA CollectingExists ==
  ASSUME NEW m, NEW prev, NEW first, NEW n \in Nat
  PROVE  \E w : IsCollecting(m, prev, first, n, w)
<1> DEFINE Bad == {k \in Nat : ~ \E w : IsCollecting(m, prev, first, k, w)}
<1> SUFFICES ASSUME Bad # {} PROVE FALSE
  OBVIOUS
<1>1. PICK b \in Bad : \A k \in Bad : b <= k
  BY LeastOf
<1>2. b \in Nat /\ ~ \E w : IsCollecting(m, prev, first, b, w)
  OBVIOUS
<1>3. CASE b = 0
  <2> DEFINE w == [k \in 0 .. 0 |-> first]
  <2>1. IsCollecting(m, prev, first, 0, w)
    BY DEF IsCollecting
  <2> QED BY <1>2, <1>3, <2>1
<1>4. CASE b # 0
  <2>1. b - 1 \in Nat /\ b - 1 \notin Bad
    BY <1>1, <1>2, <1>4
  <2>2. PICK w : IsCollecting(m, prev, first, b - 1, w)
    BY <2>1
  <2> DEFINE v == [k \in 0 .. b |-> IF k = b THEN Crossed(m, prev, w[b - 1]) ELSE w[k]]
  <2>3. ASSUME NEW k \in 0 .. b PROVE v[k] = IF k = 0 THEN first ELSE Crossed(m, prev, v[k - 1])
    <3>1. CASE k = b
      BY <1>2, <1>4, <3>1
    <3>2. CASE k # b
      <4>1. k \in 0 .. b - 1 /\ (k # 0 => k - 1 \in 0 .. b /\ k - 1 # b)
        BY <1>2, <3>2
      <4>2. w[k] = IF k = 0 THEN first ELSE Crossed(m, prev, w[k - 1])
        BY <2>2, <4>1 DEF IsCollecting
      <4> QED BY <3>2, <4>1, <4>2
    <3> QED BY <3>1, <3>2
  <2>4. v = [k \in 0 .. b |-> v[k]]
    OBVIOUS
  <2> HIDE DEF v
  <2>5. IsCollecting(m, prev, first, b, v)
    BY <2>3, <2>4 DEF IsCollecting
  <2> QED BY <1>2, <2>5
<1> QED BY <1>3, <1>4

\* Costs fall along path_prev, so no portal comes twice, and the loop ends.
LEMMA NodesAre ==
  ASSUME NEW m, GraphSound(m), Rectangles(m), PortalsSound(m),
         NEW f, NEW s \in Points, Typed(m, f, s), Descending(f), Found(f) \in DOMAIN f.cost,
         NEW side, NEW a, NEW b, Sided(m, f, side, a, b),
         NEW z \in Of(m, Found(f)) \ {side[Found(f)]}, InArea(m, s, z)
  PROVE  LET nodes == Nodes(m, f, s)
         IN /\ nodes \in Seq(Points) /\ LegsDug(m, s, nodes)
            /\ LastOf(s, nodes) \in Points /\ InArea(m, LastOf(s, nodes), b)
<1> DEFINE K == DOMAIN f.cost
           n == Cardinality(DOMAIN f.prev)
           first == [portal |-> Found(f), last |-> s, nodes |-> <<>>]
           w == CHOOSE v : IsCollecting(m, f.prev, first, n, v)
           At0 == CHOOSE k \in 0 .. n : w[k].portal = NoPortal
<1>1. /\ K \subseteq DOMAIN m.portal /\ \A p \in K : f.cost[p] \in Nat
      /\ n = Cardinality(K) /\ NoPortal \notin K
  BY DEF Typed, GraphSound
<1>2. IsFiniteSet(K) /\ n \in Nat
  <2>1. IsFiniteSet(DOMAIN m.portal)
    BY DEF GraphSound
  <2>2. IsFiniteSet(K)
    BY <1>1, <2>1, FS_Subset
  <2>3. Cardinality(K) \in Nat
    BY <2>2, FS_CardinalityType
  <2> QED BY <1>1, <2>2, <2>3
<1>3. \A p \in K : f.prev[p] = NoPortal \/ (f.prev[p] \in K /\ f.cost[f.prev[p]] < f.cost[p])
  BY DEF Descending
<1>5. Nodes(m, f, s) = w[At0].nodes
  BY DEF Nodes, IsCollecting
<1>6. IsCollecting(m, f.prev, first, n, w)
  <2> HIDE DEF n, first
  <2> QED BY <1>2, CollectingExists
<1>7. first.portal = Found(f) /\ first.last = s /\ first.nodes = <<>>
  OBVIOUS
<1> HIDE DEF w, first, n, K
<1>8. \A k \in 0 .. n : w[k] = IF k = 0 THEN first ELSE Crossed(m, f.prev, w[k - 1])
  BY <1>6 DEF IsCollecting
<1>9. ASSUME NEW path, path.portal \in K, Led(m, side, s, b, path)
      PROVE  Crossed(m, f.prev, path).portal = f.prev[path.portal] /\ Led(m, side, s, b, Crossed(m, f.prev, path))
  BY <1>1, <1>9, CrossedLeads DEF K
<1> DEFINE Good(k) == /\ Led(m, side, s, b, w[k]) /\ (w[k].portal = NoPortal \/ w[k].portal \in K)
                      /\ w[k].portal \in K => \A i \in 0 .. k : /\ w[i].portal \in K
                                                                /\ i # k => f.cost[w[k].portal] < f.cost[w[i].portal]
           Bad == {k \in 0 .. n : ~Good(k)}
<1>10. Good(0)
  <2>1. w[0] = first
    BY <1>2, <1>8
  <2>2. <<>> \in Seq(Points) /\ LegsDug(m, s, <<>>) /\ LastOf(s, <<>>) = s
    BY DEF LegsDug, LastOf
  <2>3. Found(f) \in K /\ Found(f) # NoPortal
    BY <1>1 DEF K
  <2>4. Led(m, side, s, b, w[0]) /\ w[0].portal \in K
    BY <1>7, <2>1, <2>2, <2>3 DEF Led
  <2>5. \A i \in 0 .. 0 : i = 0
    OBVIOUS
  <2> QED BY <2>4, <2>5
<1>11. ASSUME NEW k \in 1 .. n, Good(k - 1) PROVE Good(k)
  <2>1. w[k] = Crossed(m, f.prev, w[k - 1]) /\ k - 1 \in 0 .. n /\ k - 1 \in 0 .. k - 1
    BY <1>2, <1>8
  <2>2. Led(m, side, s, b, w[k - 1]) /\ (w[k - 1].portal = NoPortal \/ w[k - 1].portal \in K)
    BY <1>11
  <2>3. CASE w[k - 1].portal = NoPortal
    <3>1. w[k] = w[k - 1]
      BY <2>1, <2>3 DEF Crossed
    <3> QED BY <1>1, <2>2, <2>3, <3>1
  <2>4. CASE w[k - 1].portal \in K
    <3>1. w[k].portal = f.prev[w[k - 1].portal] /\ Led(m, side, s, b, w[k])
      BY <1>9, <2>1, <2>2, <2>4
    <3>2. w[k].portal = NoPortal \/ (w[k].portal \in K /\ f.cost[w[k].portal] < f.cost[w[k - 1].portal])
      BY <1>3, <2>4, <3>1
    <3>3. ASSUME w[k].portal \in K, NEW i \in 0 .. k
          PROVE  w[i].portal \in K /\ (i # k => f.cost[w[k].portal] < f.cost[w[i].portal])
      <4>1. CASE i = k
        BY <3>3, <4>1
      <4>2. CASE i # k
        <5>1. i \in 0 .. k - 1
          BY <4>2
        <5>2. w[i].portal \in K /\ (i # k - 1 => f.cost[w[k - 1].portal] < f.cost[w[i].portal])
          BY <1>11, <2>4, <5>1
        <5>3. f.cost[w[k].portal] \in Nat /\ f.cost[w[k - 1].portal] \in Nat /\ f.cost[w[i].portal] \in Nat
          BY <1>1, <2>4, <3>3, <5>2
        <5>4. f.cost[w[k].portal] < f.cost[w[k - 1].portal]
          BY <1>1, <3>2, <3>3
        <5>5. i = k - 1 => f.cost[w[i].portal] = f.cost[w[k - 1].portal]
          OBVIOUS
        <5>6. f.cost[w[k].portal] < f.cost[w[i].portal]
          BY ONLY <5>2, <5>3, <5>4, <5>5
        <5> QED BY <5>2, <5>6
      <4> QED BY <4>1, <4>2
    <3> QED BY <3>1, <3>2, <3>3
  <2> QED BY <2>2, <2>3, <2>4
<1> HIDE DEF Good
<1>12. Bad = {}
  <2> SUFFICES ASSUME Bad # {} PROVE FALSE
    OBVIOUS
  <2>1. PICK k \in Bad : \A j \in Bad : k <= j
    <3>1. Bad \subseteq Nat
      OBVIOUS
    <3> QED BY <3>1, LeastOf
  <2>2. k # 0 /\ k \in 1 .. n /\ k - 1 \in 0 .. n /\ ~(k <= k - 1)
    BY <1>2, <1>10, <2>1
  <2>3. k - 1 \notin Bad
    BY <2>1, <2>2
  <2> QED BY <1>11, <2>1, <2>2, <2>3
<1>13. \E k \in 0 .. n : w[k].portal = NoPortal
  <2> SUFFICES ASSUME \A k \in 0 .. n : w[k].portal # NoPortal PROVE FALSE
    OBVIOUS
  <2>1. \A k \in 0 .. n : w[k].portal \in K
    BY <1>12 DEF Good
  <2>2. \A k \in 0 .. n : \A i \in 0 .. k : i # k => f.cost[w[k].portal] < f.cost[w[i].portal]
    BY <1>12, <2>1 DEF Good
  <2> DEFINE place == [k \in 0 .. n |-> w[k].portal]
  <2>3. ASSUME NEW i \in 0 .. n, NEW k \in 0 .. n, w[i].portal = w[k].portal PROVE i = k
    <3>1. f.cost[w[k].portal] \in Nat /\ f.cost[w[i].portal] = f.cost[w[k].portal]
      BY <1>1, <2>1, <2>3
    <3>2. i \in 0 .. k \/ k \in 0 .. i
      OBVIOUS
    <3>3. ~(f.cost[w[k].portal] < f.cost[w[i].portal]) /\ ~(f.cost[w[i].portal] < f.cost[w[k].portal])
      BY ONLY <3>1
    <3> QED BY <2>2, <3>2, <3>3
  <2>4. place \in Injection(0 .. n, K)
    <3>1. place \in [0 .. n -> K]
      BY <2>1
    <3>2. \A i, k \in 0 .. n : place[i] = place[k] => i = k
      BY <2>3
    <3> HIDE DEF place
    <3> QED BY ONLY <3>1, <3>2 DEF Injection, IsInjective
  <2>5. Cardinality(0 .. n) <= Cardinality(K)
    BY <1>2, <2>4, FS_Injection
  <2>6. Cardinality(0 .. n) = n + 1
    <3>1. n \in Int /\ 0 \in Int /\ ~(0 > n) /\ n - 0 + 1 = n + 1
      BY ONLY <1>2
    <3> QED BY ONLY <3>1, FS_Interval
  <2> QED BY <1>1, <1>2, <2>5, <2>6
<1>14. At0 \in 0 .. n /\ w[At0].portal = NoPortal
  BY <1>13
<1> HIDE DEF At0
<1> QED BY <1>5, <1>12, <1>14 DEF Good, Led

-----------------------------------------------------------------------------
(* The searches of the map *)

\* The squares of all distances fit an int, and all portals the open set.
SearchFits == SquaresFit /\ Cardinality(Portals) <= MaxOpen

\* Any map that was dug is one the search may rely on.
LEMMA MapOf ==
  ASSUME MapInd, SearchFits, NEW t \in walkable
  PROVE  GraphSound(map) /\ Middle(t) \in Pixels /\ TileAt(Middle(t)) = t /\ Middle(t) \in Points
<1>1. GraphSound(map)
  BY MapIsGraph DEF MapInd, MapGood, SearchFits, Portals
<1>2. t \in WithinBorder
  BY DEF MapInd, RegionInd, RegionTypeOK
<1>3. Middle(t) \in Pixels /\ TileAt(Middle(t)) = t
  BY <1>2, MiddleIs
<1>4. Middle(t) \in Points
  BY <1>3 DEF Pixels, Points, TILE_SCALE
<1> QED BY <1>1, <1>3, <1>4

\* What a search knows of it at the end.
LEMMA SearchIs ==
  ASSUME MapInd, SearchFits, NEW t \in walkable, NEW u \in walkable, NEW f,
         f = Search(map, Started(map, map.area[u], Middle(t), Middle(u)), map.area[t], Middle(t)),
         region[t] = region[u], map.area[t] # map.area[u]
  PROVE  /\ Searched(map, f, map.area[t], map.area[u], Middle(t), Middle(u))
         /\ Ended(map, f, map.area[t]) /\ f.open # <<>>
         /\ Typed(map, f, Middle(t)) /\ Descending(f)
         /\ Found(f) \in DOMAIN f.cost /\ Found(f) # NoPortal /\ map.area[t] \in Of(map, Found(f))
<1> DEFINE a == map.area[t]
           b == map.area[u]
           s == Middle(t)
           e == Middle(u)
<1>1. GraphSound(map) /\ s \in Pixels /\ e \in Pixels
  BY MapOf
<1> HIDE DEF a, b, s, e
<1>2. Searched(map, Started(map, b, s, e), a, b, s, e)
  BY ONLY <1>1, StartedSearched
<1>3. Searched(map, f, a, b, s, e) /\ Ended(map, f, a)
  <2>1. f = Search(map, Started(map, b, s, e), a, s)
    BY DEF a, b, s, e
  <2> QED BY ONLY <1>1, <1>2, <2>1, SearchEnds
<1>4. f.open # <<>>
  BY <1>3, WayIsFound DEF a, b
<1>5. Typed(map, f, s) /\ Descending(f)
  BY <1>3 DEF Searched
<1>6. Found(f) \in DOMAIN f.cost /\ a \in Of(map, Found(f))
  BY ONLY <1>3, <1>4, <1>5, FoundIs
<1>7. Found(f) # NoPortal
  BY <1>1, <1>5, <1>6 DEF GraphSound, Typed
<1> QED BY <1>3, <1>4, <1>5, <1>6, <1>7 DEF a, b, s, e

LEMMA OneIs == ASSUME NEW x PROVE /\ <<x>> # <<>> /\ <<x>>[Len(<<x>>)] = x
                                  /\ <<x>>[1] = x /\ 1 .. Len(<<x>>) - 1 = {}
OBVIOUS

\* The cases of finder_find.
LEMMA FinderLeads ==
  ASSUME MapInd, SearchFits, NEW t \in walkable, NEW u \in walkable
  PROVE  /\ LeadsThere(t, u, FinderFind(map, Middle(t), Middle(u)))
         /\ LegsDug(map, Middle(t), FinderFind(map, Middle(t), Middle(u)))
<1> DEFINE s == Middle(t)
           e == Middle(u)
           a == map.area[t]
           b == map.area[u]
           f == Search(map, Started(map, b, s, e), a, s)
           path == FinderFind(map, s, e)
<1>1. TileAt(s) = t /\ TileAt(e) = u /\ GraphSound(map) /\ s \in Points /\ e \in Points
  BY MapOf
<1>8. DOMAIN map.area = walkable /\ Rectangles(map) /\ PortalsSound(map)
  BY DEF MapInd, MapGood, MapInv
<1> HIDE DEF s, e
<1>9. InArea(map, s, a) /\ InArea(map, e, b)
  BY <1>1, <1>8 DEF InArea
<1>2. path = IF s = e THEN <<e>>
             ELSE IF region[t] # region[u] THEN NULL
             ELSE IF u \in Neighbours(t) \/ a = b THEN <<e>>
             ELSE IF Found(f) = NoPortal THEN NULL
             ELSE Append(Nodes(map, f, s), e)
  BY <1>1 DEF FinderFind
<1> HIDE DEF path, f
<1>3. s = e => t = u
  BY <1>1
<1>4. <<e>> # NULL /\ <<e>>[Len(<<e>>)] = e
  BY OneIs DEF NULL
<1>5. CASE s = e \/ (region[t] = region[u] /\ (u \in Neighbours(t) \/ a = b))
  <2>1. path = <<e>> /\ region[t] = region[u] /\ (u \in Neighbours(t) \/ a = b)
    BY <1>2, <1>3, <1>5
  <2>2. Dug(map, s, e)
    <3>1. CASE u \in Neighbours(t)
      BY <1>1, <1>8, <3>1, NeighboursAreDug
    <3>2. CASE a = b
      BY <1>1, <1>8, <1>9, <3>2, AreaIsDug
    <3> QED BY <2>1, <3>1, <3>2
  <2>3. LegsDug(map, s, path)
    BY <2>1, <2>2, OneIs DEF LegsDug
  <2> QED BY <1>4, <2>1, <2>3 DEF LeadsThere, e, path, s
<1>6. CASE s # e /\ region[t] # region[u]
  <2>1. path = NULL
    BY <1>2, <1>6
  <2> QED BY <1>6, <2>1 DEF LeadsThere, LegsDug, NULL, path, s, e
<1>7. CASE s # e /\ region[t] = region[u] /\ u \notin Neighbours(t) /\ a # b
  <2>1. /\ Typed(map, f, s) /\ Descending(f) /\ Found(f) \in DOMAIN f.cost /\ Found(f) # NoPortal
        /\ Searched(map, f, a, b, s, e) /\ a \in Of(map, Found(f))
    BY <1>7, SearchIs DEF f, s, e
  <2>2. PICK side : Sided(map, f, side, a, b)
    BY <1>7, <2>1 DEF Searched
  <2>3. a \in Of(map, Found(f)) \ {side[Found(f)]}
    BY <2>1, <2>2 DEF Sided
  <2> DEFINE nodes == Nodes(map, f, s)
  <2> HIDE DEF a, b
  <2>4. /\ nodes \in Seq(Points) /\ LegsDug(map, s, nodes)
        /\ LastOf(s, nodes) \in Points /\ InArea(map, LastOf(s, nodes), b)
    BY ONLY <1>1, <1>8, <1>9, <2>1, <2>2, <2>3, NodesAre
  <2>5. path = Append(nodes, e)
    BY <1>2, <1>7, <2>1
  <2> HIDE DEF nodes
  <2>6. Dug(map, LastOf(s, nodes), e)
    BY ONLY <1>1, <1>8, <1>9, <2>4, AreaIsDug
  <2>7. path # NULL /\ path[Len(path)] = e
    BY ONLY <1>1, <2>4, <2>5, AppendedIs DEF NULL
  <2>8. LegsDug(map, s, path)
    BY ONLY <1>1, <2>4, <2>5, <2>6, LegAppended
  <2> QED BY <1>7, <2>7, <2>8 DEF LeadsThere, path, s, e
<1> QED BY <1>5, <1>6, <1>7

\* Every search ends, at a portal of the area of the start or when nothing is left to look at,
\* however its portals are reached again at less cost, and the path_prev it leaves lead back to
\* the end and never in a circle (path.c:212, path.c:300): costs fall from one to the next.
SearchesAreFinite ==
  \A t \in walkable, u \in walkable :
    LET f == Search(map, Started(map, map.area[u], Middle(t), Middle(u)), map.area[t], Middle(t))
    IN Ended(map, f, map.area[t]) /\ Descending(f)

THEOREM SearchesEnd == Spec => [](SearchFits => SearchesAreFinite)
<1>1. MapInd => (SearchFits => SearchesAreFinite)
  <2> SUFFICES ASSUME MapInd, SearchFits, NEW t \in walkable, NEW u \in walkable
               PROVE  LET f == Search(map, Started(map, map.area[u], Middle(t), Middle(u)), map.area[t], Middle(t))
                      IN Ended(map, f, map.area[t]) /\ Descending(f)
    BY DEF SearchesAreFinite
  <2> DEFINE a == map.area[t]
             b == map.area[u]
             s == Middle(t)
             e == Middle(u)
  <2>1. GraphSound(map) /\ s \in Pixels /\ e \in Pixels
    BY MapOf
  <2> HIDE DEF a, b, s, e
  <2>2. Searched(map, Started(map, b, s, e), a, b, s, e)
    BY ONLY <2>1, StartedSearched
  <2>3. /\ Searched(map, Search(map, Started(map, b, s, e), a, s), a, b, s, e)
        /\ Ended(map, Search(map, Started(map, b, s, e), a, s), a)
    BY ONLY <2>1, <2>2, SearchEnds
  <2> QED BY <2>3 DEF Searched, a, b, s, e
<1> QED BY <1>1, MapIndAlways, PTL

\* Whatever was dug, in whatever order: a way is found from the middle of a tile to that of any
\* other one of its region, it ends there, and none is found to another region (path.c:148 to 182,
\* path.c:327).
THEOREM WaysAreAlwaysFound == Spec => [](SearchFits => WaysAreFound)
<1>1. MapInd => (SearchFits => WaysAreFound)
  <2> SUFFICES ASSUME MapInd, SearchFits, NEW t \in Starts \cap walkable, NEW u \in walkable
               PROVE  LeadsThere(t, u, FinderFind(map, Middle(t), Middle(u)))
    BY DEF WaysAreFound
  <2> QED BY FinderLeads
<1> QED BY <1>1, MapIndAlways, PTL

\* Whoever walks a way, straight from node to node, only ever stands on dug tiles, though nothing
\* is checked on the way (path.c:300 to 327): each leg is within one area or from one to the next,
\* because path_prev leads from a portal into the area it was reached in, even where a portal was
\* reached again at less from its other side.
THEOREM WaysStayOnDugTiles == Spec => [](SearchFits => PathsAreWalkable)
<1>1. MapInd => (SearchFits => PathsAreWalkable)
  <2> SUFFICES ASSUME MapInd, SearchFits, NEW t \in Starts \cap walkable, NEW u \in walkable,
                      NEW path, path = FinderFind(map, Middle(t), Middle(u))
               PROVE  /\ LeadsThere(t, u, path)
                      /\ path # NULL => /\ Straight(Middle(t), path[1])
                                        /\ \A i \in 1 .. Len(path) - 1 : Straight(path[i], path[i + 1])
    BY DEF PathsAreWalkable
  <2>1. LeadsThere(t, u, path) /\ LegsDug(map, Middle(t), path)
    BY FinderLeads
  <2>2. ASSUME NEW p, NEW q, Dug(map, p, q) PROVE Straight(p, q)
    <3>1. DOMAIN map.area = walkable
      BY DEF MapInd
    <3> QED BY <2>2, <3>1 DEF Straight, Dug
  <2> QED BY <2>1, <2>2 DEF LegsDug, NULL
<1> QED BY <1>1, MapIndAlways, PTL

\* The first portal of the area of the start that comes out of the heap ends a chain as cheap as any
\* other one, but for a pixel a portal (path.c:92, path.c:233, path.c:267 to 290).
THEOREM PathsStayShort == Spec => [](SearchFits => PathsAreShort)
<1>1. MapInd => (SearchFits => PathsAreShort)
  <2> SUFFICES ASSUME MapInd, SearchFits, NEW u \in walkable, NEW t \in Starts \cap walkable,
                      region[t] = region[u], map.area[t] # map.area[u]
               PROVE  LET s == Middle(t)
                          costs == CostsFrom(map, map.area[u], Middle(u), Legs(map))
                          f == Search(map, Started(map, map.area[u], s, Middle(u)), map.area[t], s)
                      IN /\ Found(f) # NoPortal
                         /\ \A q \in DOMAIN costs : map.area[t] \in Of(map, q) =>
                              f.cost[Found(f)] + Cost(Center(map, Found(f)), s)
                                <= costs[q] + Cost(Center(map, q), s) + Cardinality(Portals)
    BY Zenon DEF PathsAreShort
  <2> DEFINE a == map.area[t]
             b == map.area[u]
             s == Middle(t)
             e == Middle(u)
             f == Search(map, Started(map, b, s, e), a, s)
  <2>1. GraphSound(map) /\ s \in Pixels /\ e \in Pixels
    BY MapOf
  <2>2. Searched(map, f, a, b, s, e) /\ Ended(map, f, a) /\ f.open # <<>> /\ Found(f) # NoPortal
    BY SearchIs
  <2> HIDE DEF a, b, s, e, f
  <2>3. LET costs == CostsFrom(map, b, e, Legs(map)) IN
        \A q \in DOMAIN costs : a \in Of(map, q) =>
          f.cost[Found(f)] + Cost(Center(map, Found(f)), s)
            <= costs[q] + Cost(Center(map, q), s) + Cardinality(DOMAIN map.portal)
    BY ONLY <2>1, <2>2, FoundIsShort
  <2> QED BY <2>2, <2>3 DEF a, b, s, e, f, Portals
<1> QED BY <1>1, MapIndAlways, PTL

\* A portal has a tile and a direction of its own.
LEMMA FewPortals ==
  ASSUME NEW m, Rectangles(m), PortalsSound(m), Paired(m)
  PROVE  IsFiniteSet(DOMAIN m.portal) /\ Cardinality(DOMAIN m.portal) <= 2 * ((Width - 2) * (Height - 2))
<1> DEFINE Spots == Dirs \X WithinBorder
           IsSpot(p, w) == \E c, k, x : CenterOf(m, p, w[1], c, k, x) /\ w[2] = At(w[1], c, k)
           spot == [p \in DOMAIN m.portal |-> CHOOSE w \in Spots : IsSpot(p, w)]
<1>1. ASSUME NEW p \in DOMAIN m.portal PROVE \E w \in Spots : IsSpot(p, w)
  <2>1. PICK dir, c, k, x : dir \in Dirs /\ CenterOf(m, p, dir, c, k, x)
    BY CenterIs
  <2>2. At(dir, c, k) \in WithinBorder
    BY <2>1 DEF CenterOf, Rectangles
  <2> DEFINE w == <<dir, At(dir, c, k)>>
  <2>3. w \in Spots /\ w[1] = dir /\ w[2] = At(dir, c, k)
    BY <2>1, <2>2
  <2> HIDE DEF w
  <2> QED BY <2>1, <2>3
<1>2. \A p \in DOMAIN m.portal : spot[p] \in Spots /\ IsSpot(p, spot[p])
  <2> HIDE DEF IsSpot, Spots
  <2> QED BY <1>1
<1>3. ASSUME NEW p \in DOMAIN m.portal, NEW q \in DOMAIN m.portal, spot[p] = spot[q] PROVE p = q
  <2> DEFINE w == spot[p]
  <2>1. IsSpot(p, w) /\ IsSpot(q, w)
    <3> HIDE DEF IsSpot, Spots, spot
    <3>1. IsSpot(p, spot[p]) /\ IsSpot(q, spot[q])
      BY <1>2
    <3> QED BY <1>3, <3>1
  <2> HIDE DEF w
  <2>2. PICK c, k, x : CenterOf(m, p, w[1], c, k, x) /\ w[2] = At(w[1], c, k)
    BY <2>1
  <2>3. PICK c2, k2, x2 : CenterOf(m, q, w[1], c2, k2, x2) /\ w[2] = At(w[1], c2, k2)
    BY <2>1
  <2>4. c = c2 /\ k = k2
    BY <2>2, <2>3 DEF At
  <2>5. SamePair(m, p, q)
    BY <2>2, <2>3, <2>4 DEF CenterOf, SamePair
  <2> QED BY <2>5 DEF Paired
<1>4. spot \in Injection(DOMAIN m.portal, Spots)
  <2>1. spot \in [DOMAIN m.portal -> Spots]
    <3>1. spot = [p \in DOMAIN m.portal |-> spot[p]]
      <4> HIDE DEF IsSpot, Spots
      <4> QED BY SMT
    <3> HIDE DEF spot, Spots, IsSpot
    <3> QED BY <1>2, <3>1
  <2>2. \A p, q \in DOMAIN m.portal : spot[p] = spot[q] => p = q
    BY <1>3
  <2> HIDE DEF spot, Spots
  <2> QED BY ONLY <2>1, <2>2 DEF Injection, IsInjective
<1>5. IsFiniteSet(Dirs) /\ Cardinality(Dirs) <= 2 /\ Cardinality(Dirs) \in Nat
  <2>1. IsFiniteSet({}) /\ Cardinality({}) = 0
    BY FS_EmptySet
  <2>2. IsFiniteSet({HORIZONTAL}) /\ Cardinality({HORIZONTAL}) = 1
    BY FS_Singleton
  <2>3. Dirs = {HORIZONTAL} \cup {VERTICAL}
    BY DEF Dirs
  <2> QED BY <2>2, <2>3, FS_AddElement
<1>6. IsFiniteSet(WithinBorder) /\ Cardinality(WithinBorder) = (Width - 2) * (Height - 2)
  <2>1. Width - 2 \in Nat /\ Height - 2 \in Nat
    BY SizeAssumption
  <2>2. IsFiniteSet(1 .. Width - 2) /\ Cardinality(1 .. Width - 2) = Width - 2
    BY <2>1, FS_Interval
  <2>3. IsFiniteSet(1 .. Height - 2) /\ Cardinality(1 .. Height - 2) = Height - 2
    BY <2>1, FS_Interval
  <2>4. ASSUME NEW S, NEW T, IsFiniteSet(S), IsFiniteSet(T)
        PROVE  IsFiniteSet(S \X T) /\ Cardinality(S \X T) = Cardinality(S) * Cardinality(T)
    BY ONLY <2>4, FS_Product
  <2> QED BY ONLY <2>2, <2>3, <2>4 DEF WithinBorder
<1>7. IsFiniteSet(Spots) /\ Cardinality(Spots) = Cardinality(Dirs) * Cardinality(WithinBorder)
  BY <1>5, <1>6, FS_Product
<1> HIDE DEF Spots, spot
<1>8. IsFiniteSet(DOMAIN m.portal) /\ Cardinality(DOMAIN m.portal) <= Cardinality(Spots)
  BY <1>4, <1>7, FS_Injection
<1>9. Cardinality(DOMAIN m.portal) \in Nat
  BY <1>8, FS_CardinalityType
<1> DEFINE A == (Width - 2) * (Height - 2)
<1>10. A \in Nat
  BY SizeAssumption
<1>11. Cardinality(Spots) = Cardinality(Dirs) * A
  BY <1>6, <1>7
<1> HIDE DEF A
<1>12. Cardinality(Dirs) * A <= 2 * A
  <2>1. Cardinality(Dirs) = 0 \/ Cardinality(Dirs) = 1 \/ Cardinality(Dirs) = 2
    BY <1>5
  <2> QED BY <1>10, <2>1
<1>13. Cardinality(Dirs) * A \in Nat /\ 2 * A \in Nat
  BY <1>5, <1>10
<1>14. Cardinality(DOMAIN m.portal) <= 2 * A
  BY ONLY <1>8, <1>9, <1>11, <1>12, <1>13
<1> QED BY <1>8, <1>14 DEF A

\* The premise of the theorems above, where it is about what was dug, holds on every map with no more
\* tiles within its border than half of what the open set has room for: nothing is left out of it
\* (path.c:64, path.c:66).
THEOREM SmallMapsFit ==
  ASSUME SquaresFit, 2 * ((Width - 2) * (Height - 2)) <= MaxOpen
  PROVE  Spec => []SearchFits
<1>1. MapInd => SearchFits
  <2> SUFFICES ASSUME MapInd PROVE Cardinality(DOMAIN map.portal) <= MaxOpen
    BY DEF SearchFits, Portals
  <2>1. Rectangles(map) /\ PortalsSound(map) /\ Paired(map)
    BY DEF MapInd, MapGood, MapInv
  <2>2. IsFiniteSet(DOMAIN map.portal) /\ Cardinality(DOMAIN map.portal) <= 2 * ((Width - 2) * (Height - 2))
    BY <2>1, FewPortals
  <2>3. Cardinality(DOMAIN map.portal) \in Nat
    BY <2>2, FS_CardinalityType
  <2> DEFINE A == (Width - 2) * (Height - 2)
  <2>4. A \in Nat
    BY SizeAssumption
  <2> HIDE DEF A
  <2>5. Cardinality(DOMAIN map.portal) <= 2 * A /\ 2 * A <= MaxOpen
    BY <2>2 DEF A
  <2> QED BY <2>3, <2>4, <2>5, FinderAssumption
<1> QED BY <1>1, MapIndAlways, PTL
================================================================================
