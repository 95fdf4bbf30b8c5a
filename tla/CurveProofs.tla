----------------------------- MODULE CurveProofs -----------------------------
(* What the arithmetic of curves and calibrations yields: sorting, lines   *)
(* through points, and their inverses.                                     *)
EXTENDS CurveMath, FiniteSetTheorems, WellFoundedInduction, TLAPS

-----------------------------------------------------------------------------
(* Numbers.                                                                *)

(* A set of naturals has a least one.                                      *)
LEMMA LeastIndex ==
  ASSUME NEW S \in SUBSET Nat, S # {}
  PROVE  \E i \in S : \A j \in S : i <= j
<1> DEFINE less == {r \in Nat \X Nat : r[1] < r[2]}
<1>1. OpToRel(<, Nat) = less
  BY SMT DEF OpToRel
<1>2. IsWellFoundedOn(less, Nat)
  BY <1>1, NatLessThanWellFounded, Zenon
<1> HIDE DEF less
<1>3. PICK i \in S : \A j \in S : ~(<<j, i>> \in less)
  BY <1>2, WFMin, Zenon
<1>4. ASSUME NEW j \in S
      PROVE  i <= j
  <2>1. ~(<<j, i>> \in less) /\ i \in Nat /\ j \in Nat
    BY <1>3
  <2> QED
    BY <2>1 DEF less
<1> QED
  BY <1>4

(* A quotient is the whole number just below.                              *)
LEMMA Quotient ==
  ASSUME NEW n \in Int, NEW d \in Nat \ {0}
  PROVE  /\ n \div d \in Int
         /\ d * (n \div d) <= n /\ n < d * (n \div d) + d
  OBVIOUS

(* A quotient between two whole numbers is rounded to one between them.    *)
LEMMA RoundedWithin ==
  ASSUME NEW n \in Int, NEW d \in Nat \ {0}, NEW lo \in Int, NEW hi \in Int,
         lo * d <= n, n <= hi * d
  PROVE  Rounded(n, d) \in lo..hi
<1> DEFINE q == (2 * n + d) \div (2 * d)
<1>1. 2 * d \in Nat \ {0} /\ 2 * n + d \in Int
  OBVIOUS
<1>2. /\ q \in Int
      /\ (2 * d) * q <= 2 * n + d /\ 2 * n + d < (2 * d) * q + 2 * d
  BY <1>1, Quotient
<1> HIDE DEF q
<1>3. lo <= q
  <2>1. SUFFICES ASSUME q + 1 <= lo PROVE FALSE
    BY <1>2
  <2>2. (2 * d) * (q + 1) <= (2 * d) * lo
    BY <1>1, <1>2, <2>1
  <2>3. (2 * d) * (q + 1) = (2 * d) * q + 2 * d /\ (2 * d) * lo = 2 * (lo * d)
    BY <1>2
  <2> QED
    BY <1>2, <2>2, <2>3
<1>4. q <= hi
  <2>1. SUFFICES ASSUME hi + 1 <= q PROVE FALSE
    BY <1>2
  <2>2. (2 * d) * (hi + 1) <= (2 * d) * q
    BY <1>1, <1>2, <2>1
  <2>3. (2 * d) * (hi + 1) = 2 * (hi * d) + 2 * d
    BY <1>2
  <2> QED
    BY <1>2, <2>2, <2>3
<1> QED
  BY <1>2, <1>3, <1>4 DEF Rounded, q

(* A point whose height is between two others.                             *)
LEMMA PointWithin ==
  ASSUME NEW p, p = <<p[1], p[2]>>, p[1] \in Int, p[2] \in Int,
         NEW lo \in Int, NEW hi \in Int, lo <= p[2], p[2] <= hi
  PROVE  p \in Int \X (lo..hi)
<1>1. p[2] \in lo..hi
  OBVIOUS
<1> QED
  BY <1>1

(* A line stays between the heights of its ends.                           *)
LEMMA BetweenWithin ==
  ASSUME NEW lo \in Int, NEW hi \in Int,
         NEW p \in Int \X (lo..hi), NEW q \in Int \X (lo..hi),
         NEW x \in Int, p[1] < x, x <= q[1]
  PROVE  Between(p, q, x) \in lo..hi
<1> DEFINE d == q[1] - p[1]
           t == x - p[1]
           n == p[2] * d + (q[2] - p[2]) * t
<1>1. /\ d \in Nat \ {0} /\ t \in 0..d /\ n \in Int
      /\ p[2] \in lo..hi /\ q[2] \in lo..hi /\ Between(p, q, x) = Rounded(n, d)
  BY DEF Between
<1> DEFINE u == d - t
<1>2. n = p[2] * u + q[2] * t /\ d = u + t /\ u \in Nat /\ t \in Nat
  BY <1>1
<1> HIDE DEF n, d, t, u
<1>3. /\ lo * u <= p[2] * u /\ p[2] * u <= hi * u
      /\ lo * t <= q[2] * t /\ q[2] * t <= hi * t
  BY <1>1, <1>2
<1>4. lo * d = lo * u + lo * t /\ hi * d = hi * u + hi * t
  BY <1>2
<1>5. lo * d <= n /\ n <= hi * d
  BY <1>1, <1>2, <1>3, <1>4
<1> QED
  BY <1>1, <1>5, RoundedWithin

(* Between the ends, it is the line of the first segment to reach x.       *)
LEMMA HeightSegment ==
  ASSUME NEW points \in Seq(Int \X Int), points # <<>>, NEW x \in Int,
         ~(x <= points[1][1]), ~(x >= Last(points)[1])
  PROVE  \E k \in 1..Len(points) - 1 :
           /\ \A j \in 1..k : points[j][1] < x
           /\ x <= points[k + 1][1]
           /\ Height(points, x) = Between(points[k], points[k + 1], x)
<1> DEFINE n == Len(points)
           Spans(i) == points[i][1] <= x /\ x <= points[i + 1][1]
           segments == {i \in 1..n - 1 : Spans(i)}
           first == CHOOSE i \in segments : \A j \in segments : i <= j
           beyond == {i \in 1..n : x <= points[i][1]}
<1>1. /\ n \in Nat \ {0} /\ Last(points) = points[n]
      /\ \A i \in 1..n : points[i] \in Int \X Int /\ points[i][1] \in Int
  BY DEF Last
<1>2. PICK k \in beyond : \A j \in beyond : k <= j
  <2>1. beyond \in SUBSET Nat /\ n \in beyond
    BY <1>1, SMTT(30)
  <2> HIDE DEF beyond
  <2> QED
    BY <2>1, LeastIndex, Zenon
<1>3. \A j \in 1..n : j < k => points[j][1] < x
  <2>1. SUFFICES ASSUME NEW j \in 1..n, j < k, ~(points[j][1] < x)
                 PROVE  FALSE
    OBVIOUS
  <2>2. j \in beyond
    BY <1>1, <2>1, SMTT(30)
  <2>3. k \in Int /\ j \in Int
    BY <1>1
  <2> HIDE DEF beyond
  <2> QED
    BY <1>2, <2>1, <2>2, <2>3
<1>4. k \in 2..n /\ k - 1 \in 1..n - 1
  <2>1. k # 1
    BY <1>1, <1>2
  <2>2. k \in 1..n /\ n \in Nat
    BY <1>1
  <2> HIDE DEF beyond, n
  <2> QED
    BY <2>1, <2>2
<1> HIDE DEF first
<1>5. k - 1 \in segments /\ \A j \in segments : k - 1 <= j
  <2>1. k - 1 \in segments
    <3>1. k - 1 \in 1..n /\ k - 1 < k /\ (k - 1) + 1 = k
      BY <1>1, <1>4
    <3>2. points[k - 1][1] < x /\ points[k - 1][1] \in Int /\ x <= points[k][1]
      BY <1>1, <1>3, <3>1
    <3> QED
      BY <1>4, <3>1, <3>2, SMTT(30)
  <2>2. ASSUME NEW j \in segments
        PROVE  k - 1 <= j
    <3>1. j + 1 \in beyond /\ j \in Int /\ k \in Int
      BY <1>1
    <3>2. k <= j + 1
      BY <1>2, <3>1
    <3> HIDE DEF beyond, segments
    <3> QED
      BY <3>1, <3>2
  <2> QED
    BY <2>1, <2>2
<1>6. first = k - 1
  <2>1. first \in segments /\ \A j \in segments : first <= j
    BY <1>5 DEF first
  <2>2. first \in Int /\ k \in Int
    BY <1>1, <2>1
  <2> HIDE DEF segments, beyond
  <2>3. first <= k - 1 /\ k - 1 <= first
    BY <1>5, <2>1
  <2> QED
    BY <2>2, <2>3
<1>7. Height(points, x) = Between(points[k - 1], points[(k - 1) + 1], x)
  <2>1. Height(points, x) = Between(points[first], points[first + 1], x)
    BY <1>1 DEF Height, first
  <2> QED
    BY <1>6, <2>1
<1>8. x <= points[(k - 1) + 1][1] /\ \A j \in 1..(k - 1) : points[j][1] < x
  <2>1. (k - 1) + 1 = k /\ \A j \in 1..(k - 1) : j \in 1..n /\ j < k
    BY <1>1, <1>4
  <2> QED
    BY <1>3, <2>1
<1> QED
  BY <1>4, <1>7, <1>8

(* A line through points stays where their heights are.                    *)
LEMMA HeightWithin ==
  ASSUME NEW H \in SUBSET Int, \A a, b \in H : a..b \subseteq H,
         NEW points \in Seq(Int \X H), points # <<>>, NEW x \in Int
  PROVE  Height(points, x) \in H
<1> DEFINE n == Len(points)
<1>1. /\ n \in Nat \ {0} /\ Last(points) = points[n]
      /\ \A i \in 1..n : points[i] \in Int \X H
  BY DEF Last
<1>2. points[1][2] \in H /\ points[n][2] \in H
  BY <1>1
<1>3. CASE x <= points[1][1] \/ x >= points[n][1]
  BY <1>1, <1>2, <1>3 DEF Height
<1>4. CASE ~(x <= points[1][1]) /\ ~(x >= points[n][1])
  <2>1. points \in Seq(Int \X Int)
    <3>1. points = [i \in 1..n |-> points[i]]
      BY <1>1
    <3>2. \A i \in 1..n : points[i] \in Int \X Int
      BY <1>1
    <3> HIDE DEF n
    <3>3. [i \in 1..n |-> points[i]] \in Seq(Int \X Int)
      BY <1>1, <3>2
    <3> QED
      BY <3>1, <3>3, Zenon
  <2>2. PICK k \in 1..n - 1 :
          /\ \A j \in 1..k : points[j][1] < x
          /\ x <= points[k + 1][1]
          /\ Height(points, x) = Between(points[k], points[k + 1], x)
    BY <1>1, <1>4, <2>1, HeightSegment
  <2> DEFINE p == points[k]
             q == points[k + 1]
  <2>3. Height(points, x) = Between(p, q, x) /\ p[2] \in H /\ q[2] \in H
        /\ p = <<p[1], p[2]>> /\ q = <<q[1], q[2]>>
        /\ p[1] \in Int /\ q[1] \in Int /\ p[1] < x /\ x <= q[1]
    <3>1. k \in 1..k /\ k \in 1..n /\ k + 1 \in 1..n
      BY <1>1
    <3> QED
      BY <1>1, <2>2, <3>1
  <2> HIDE DEF p, q
  <2>0. p[2] \in Int /\ q[2] \in Int /\ p[2] <= p[2] /\ q[2] <= q[2]
    <3>1. p[2] \in Int /\ q[2] \in Int
      BY <2>3, Zenon
    <3> QED
      BY <3>1
  <2>4. CASE p[2] <= q[2]
    <3>1. p \in Int \X (p[2]..q[2]) /\ q \in Int \X (p[2]..q[2])
      BY <2>0, <2>3, <2>4, PointWithin
    <3>2. Between(p, q, x) \in p[2]..q[2]
      BY <2>3, <3>1, BetweenWithin
    <3> QED
      BY <2>3, <3>2
  <2>5. CASE q[2] <= p[2]
    <3>1. p \in Int \X (q[2]..p[2]) /\ q \in Int \X (q[2]..p[2])
      BY <2>0, <2>3, <2>5, PointWithin
    <3>2. Between(p, q, x) \in q[2]..p[2]
      BY <2>3, <3>1, BetweenWithin
    <3> QED
      BY <2>3, <3>2
  <2> QED
    BY <2>3, <2>4, <2>5
<1> QED
  BY <1>3, <1>4

(* Rounding keeps the order, and so does a line that rises.                *)
LEMMA RoundedRises ==
  ASSUME NEW m \in Int, NEW n \in Int, NEW d \in Nat \ {0}, m <= n
  PROVE  Rounded(m, d) <= Rounded(n, d)
<1> DEFINE q == (2 * m + d) \div (2 * d)
           r == (2 * n + d) \div (2 * d)
           e == 2 * d
<1>1. e \in Nat \ {0} /\ 2 * m + d \in Int /\ 2 * n + d \in Int
  OBVIOUS
<1>2. /\ q \in Int /\ r \in Int
      /\ e * q <= 2 * m + d /\ 2 * n + d < e * r + e
  BY <1>1, Quotient
<1> HIDE DEF q, r, e
<1>3. q <= r
  <2>1. SUFFICES ASSUME r + 1 <= q PROVE FALSE
    BY <1>2
  <2>2. e * (r + 1) <= e * q /\ e * (r + 1) = e * r + e
    BY <1>1, <1>2, <2>1
  <2>3. 2 * m + d <= 2 * n + d
    OBVIOUS
  <2> QED
    BY <1>1, <1>2, <2>2, <2>3
<1> QED
  BY <1>3 DEF Rounded, q, r, e

(* A segment that does not fall does not fall once it is rounded.          *)
LEMMA BetweenRises ==
  ASSUME NEW p \in Int \X Int, NEW q \in Int \X Int, p[1] < q[1], p[2] <= q[2],
         NEW x \in Int, NEW y \in Int, x <= y
  PROVE  Between(p, q, x) <= Between(p, q, y)
<1> DEFINE d == q[1] - p[1]
           rise == q[2] - p[2]
           Over(z) == p[2] * d + rise * (z - p[1])
<1>1. /\ d \in Nat \ {0} /\ rise \in Nat /\ p[2] \in Int /\ p[1] \in Int
      /\ Between(p, q, x) = Rounded(Over(x), d) /\ Between(p, q, y) = Rounded(Over(y), d)
  BY DEF Between
<1> DEFINE s == x - p[1]
           t == y - p[1]
           base == p[2] * d
<1>2. s \in Int /\ t \in Int /\ s <= t /\ base \in Int
  BY <1>1
<1>3. Over(x) = base + rise * s /\ Over(y) = base + rise * t
  OBVIOUS
<1> HIDE DEF Over, d, rise, s, t, base
<1>4. rise * s <= rise * t /\ rise * s \in Int /\ rise * t \in Int
  BY <1>1, <1>2
<1>5. Over(x) \in Int /\ Over(y) \in Int /\ Over(x) <= Over(y)
  BY <1>2, <1>3, <1>4
<1> QED
  BY <1>1, <1>5, RoundedRises

(* Where the heights rise, what lies through the points does, wherever     *)
(* their places double back.                                               *)
LEMMA HeightRises ==
  ASSUME NEW points \in Seq(Int \X Int), points # <<>>,
         \A i, j \in 1..Len(points) : i <= j => points[i][2] <= points[j][2],
         NEW x \in Int, NEW y \in Int, x <= y
  PROVE  Height(points, x) <= Height(points, y)
<1> DEFINE n == Len(points)
           low == points[1][2]
           high == points[n][2]
<1>1. /\ n \in Nat \ {0} /\ Last(points) = points[n] /\ 1 \in 1..n /\ n \in 1..n
      /\ \A i \in 1..n : /\ points[i] \in Int \X Int /\ points[i][1] \in Int
                         /\ points[i][2] \in Int
  BY DEF Last
<1>2. \A z \in Int : Height(points, z) \in low..high
  <2>1. \A i \in 1..n : points[i] \in Int \X (low..high)
    <3>1. SUFFICES ASSUME NEW i \in 1..n PROVE points[i] \in Int \X (low..high)
      OBVIOUS
    <3>2. 1 <= i /\ i <= n
      BY <1>1
    <3>3. low <= points[i][2] /\ points[i][2] <= high
      BY <1>1, <3>2
    <3>4. /\ low \in Int /\ high \in Int /\ points[i][1] \in Int /\ points[i][2] \in Int
          /\ points[i] = <<points[i][1], points[i][2]>>
      BY <1>1
    <3> HIDE DEF low, high, n
    <3> QED
      BY <3>3, <3>4, PointWithin
  <2>2. points = [i \in 1..n |-> points[i]]
    BY <1>1
  <2>3. (low..high) \in SUBSET Int /\ \A a, b \in low..high : a..b \subseteq low..high
    BY <1>1
  <2> HIDE DEF n, low, high
  <2>4. [i \in 1..n |-> points[i]] \in Seq(Int \X (low..high))
    BY <1>1, <2>1
  <2>5. points \in Seq(Int \X (low..high))
    BY <2>2, <2>4, Zenon
  <2> QED
    BY <2>3, <2>5, HeightWithin
<1>3. CASE x <= points[1][1] \/ y >= points[n][1]
  <2>1. low \in Int /\ high \in Int
    BY <1>1
  <2>2. CASE x <= points[1][1]
    <3>1. Height(points, x) = low
      BY <2>2 DEF Height
    <3> HIDE DEF low, high
    <3> QED
      BY <1>2, <2>1, <3>1
  <2>3. CASE ~(x <= points[1][1]) /\ y >= points[n][1]
    <3>1. ~(y <= points[1][1])
      BY <1>1, <2>3
    <3>2. Height(points, y) = high
      BY <1>1, <2>3, <3>1 DEF Height
    <3> HIDE DEF low, high, n
    <3> QED
      BY <1>2, <2>1, <3>2
  <2> QED
    BY <1>3, <2>2, <2>3
<1>4. CASE ~(x <= points[1][1]) /\ ~(y >= points[n][1])
  <2>1. /\ ~(x <= points[1][1]) /\ ~(x >= points[n][1])
        /\ ~(y <= points[1][1]) /\ ~(y >= points[n][1])
    BY <1>1, <1>4
  <2>2. PICK k \in 1..n - 1 :
          /\ \A j \in 1..k : points[j][1] < x
          /\ x <= points[k + 1][1]
          /\ Height(points, x) = Between(points[k], points[k + 1], x)
    BY <1>1, <2>1, HeightSegment
  <2>3. PICK l \in 1..n - 1 :
          /\ \A j \in 1..l : points[j][1] < y
          /\ y <= points[l + 1][1]
          /\ Height(points, y) = Between(points[l], points[l + 1], y)
    BY <1>1, <2>1, HeightSegment
  <2>4. /\ k \in 1..k /\ k \in 1..n /\ k + 1 \in 1..n /\ k \in Nat
        /\ l \in 1..l /\ l \in 1..n /\ l + 1 \in 1..n /\ l \in Nat
    BY <1>1
  <2>5. k <= l
    <3>0. k \in Nat /\ l \in Nat
      BY <2>4
    <3> HIDE DEF n
    <3>1. SUFFICES ASSUME l + 1 \in 1..k PROVE FALSE
      BY <3>0, SMTT(30)
    <3>2. points[l + 1][1] < x /\ points[l + 1][1] \in Int
      BY <1>1, <2>2, <2>4, <3>1
    <3> QED
      BY <2>3, <3>2, SMTT(30)
  <2> DEFINE p == points[k]
             q == points[k + 1]
             u == points[l]
             v == points[l + 1]
  <2>6. /\ p \in Int \X Int /\ q \in Int \X Int /\ u \in Int \X Int /\ v \in Int \X Int
        /\ p[1] < x /\ x <= q[1] /\ u[1] < y /\ y <= v[1]
        /\ p[2] <= q[2] /\ u[2] <= v[2] /\ (k < l => q[2] <= u[2])
    <3>1. /\ p \in Int \X Int /\ q \in Int \X Int
          /\ u \in Int \X Int /\ v \in Int \X Int
          /\ p[1] < x /\ x <= q[1] /\ u[1] < y /\ y <= v[1]
      BY <1>1, <2>2, <2>3, <2>4
    <3>2. k <= k + 1 /\ l <= l + 1 /\ (k < l => k + 1 <= l)
      BY <2>4
    <3> HIDE DEF n
    <3>3. p[2] <= q[2] /\ u[2] <= v[2] /\ (k < l => q[2] <= u[2])
      BY <2>4, <3>2 DEF n
    <3> QED
      BY <3>1, <3>3
  <2>7. /\ Height(points, x) = Between(p, q, x) /\ Height(points, y) = Between(u, v, y)
        /\ (k = l => u = p /\ v = q)
    BY <2>2, <2>3
  <2> HIDE DEF p, q, u, v, n
  <2>10. /\ p = <<p[1], p[2]>> /\ p[1] \in Int /\ p[2] \in Int /\ p[2] <= p[2]
         /\ q = <<q[1], q[2]>> /\ q[1] \in Int /\ q[2] \in Int /\ q[2] <= q[2]
         /\ u = <<u[1], u[2]>> /\ u[1] \in Int /\ u[2] \in Int /\ u[2] <= u[2]
         /\ v = <<v[1], v[2]>> /\ v[1] \in Int /\ v[2] \in Int /\ v[2] <= v[2]
    <3>1. ASSUME NEW r \in Int \X Int
          PROVE  r = <<r[1], r[2]>> /\ r[1] \in Int /\ r[2] \in Int /\ r[2] <= r[2]
      BY SMTT(30)
    <3> QED
      BY <2>6, <3>1, Zenon
  <2>8. CASE k = l
    <3>1. p[1] < q[1]
      BY <2>6
    <3> QED
      BY <2>6, <2>7, <2>8, <3>1, BetweenRises
  <2>9. CASE k < l
    <3>1. Between(p, q, x) \in p[2]..q[2]
      <4>1. p \in Int \X (p[2]..q[2]) /\ q \in Int \X (p[2]..q[2])
            /\ p[2] \in Int /\ q[2] \in Int
        BY <2>6, <2>10, PointWithin
      <4> QED
        BY <2>6, <4>1, BetweenWithin
    <3>2. Between(u, v, y) \in u[2]..v[2]
      <4>1. u \in Int \X (u[2]..v[2]) /\ v \in Int \X (u[2]..v[2])
            /\ u[2] \in Int /\ v[2] \in Int
        BY <2>6, <2>10, PointWithin
      <4> QED
        BY <2>6, <4>1, BetweenWithin
    <3>3. q[2] \in Int /\ u[2] \in Int /\ q[2] <= u[2]
      BY <2>6, <2>9
    <3> QED
      BY <2>7, <3>1, <3>2, <3>3
  <2> QED
    BY <2>4, <2>5, <2>8, <2>9
<1> QED
  BY <1>3, <1>4

(* The scale, and what is clamped to it or put on it.                      *)
LEMMA FullTyped == Full \in Nat /\ 0 \in Int /\ 0 <= Full
  BY DEF Full

(* What is clamped lies between the bounds, ...                            *)
LEMMA ClampTyped ==
  ASSUME NEW x \in Int, NEW lo \in Int, NEW hi \in Int, lo <= hi
  PROVE  Clamp(x, lo, hi) \in lo..hi
  BY DEF Clamp

(* ... a percentage that is clamped is one, ...                            *)
LEMMA ClampedTyped ==
  ASSUME NEW x \in Int
  PROVE  Clamp(x, 0, Full) \in Percents
  BY ClampTyped, FullTyped DEF Percents

(* ... and percentages and duties are turned into each other.              *)
LEMMA DutyTyped ==
  /\ \A p \in Int : PercentToDuty(p) \in Duties
  /\ \A d \in Duties : DutyToPercent(d) \in Percents
<1>1. ASSUME NEW p \in Int
      PROVE  PercentToDuty(p) \in Duties
  <2>1. Clamp(p, 0, Full) \in 0..Full
    BY ClampTyped, FullTyped
  <2> DEFINE clamped == Clamp(p, 0, Full)
  <2>2. clamped \in Int /\ 0 * 200 <= clamped /\ clamped <= 255 * 200
    <3>1. clamped \in Int /\ 0 <= clamped /\ clamped <= Full
      BY <2>1, FullTyped
    <3> HIDE DEF clamped
    <3> QED
      BY <3>1 DEF Full
  <2> HIDE DEF clamped
  <2>3. Rounded(clamped, 200) \in 0..255
    <3>1. ASSUME NEW lo, NEW hi, NEW d, lo = 0, hi = 255, d = 200
          PROVE  Rounded(clamped, d) \in lo..hi
      <4>1. /\ d \in Nat \ {0} /\ lo \in Int /\ hi \in Int /\ clamped \in Int
            /\ lo * d <= clamped /\ clamped <= hi * d
        BY <2>2, <3>1
      <4> QED
        BY <4>1, RoundedWithin
    <3> QED
      BY <3>1, Zenon
  <2> QED
    BY <2>3 DEF PercentToDuty, Duties, clamped
<1>2. ASSUME NEW d \in Duties
      PROVE  DutyToPercent(d) \in Percents
  <2>1. d \in Int /\ 0 <= d /\ d <= 255
    BY DEF Duties
  <2>2. DutyToPercent(d) = 200 * d /\ Percents = 0..Full
    BY DEF DutyToPercent, Percents
  <2>3. 200 * d \in Int /\ 0 <= 200 * d /\ 200 * d <= 200 * 255
    BY <2>1
  <2>4. 200 * 255 = Full
    BY DEF Full
  <2> QED
    BY <2>2, <2>3, <2>4, FullTyped
<1> QED
  BY <1>1, <1>2

-----------------------------------------------------------------------------
(* Sorting.                                                                *)

(* Points whose first components are numbers.                              *)
Listing(points, n) ==
  /\ DOMAIN points = 1..n
  /\ \A i \in 1..n : points[i][1] \in Int

Precedes(points, i, j) ==
  points[i][1] < points[j][1] \/ (points[i][1] = points[j][1] /\ i <= j)
Rank(points, j) == Cardinality({i \in DOMAIN points : Precedes(points, i, j)})
InOrderOf(points) ==
  \A i, j \in DOMAIN points : i <= j => points[i][1] <= points[j][1]

(* Sorting puts each point in the place its rank says.                     *)
LEMMA SortedRanks ==
  ASSUME NEW points
  PROVE  /\ Sorted(points) = [k \in DOMAIN points |-> Sorted(points)[k]]
         /\ \A k \in DOMAIN points : Sorted(points)[k] =
              points[CHOOSE j \in DOMAIN points : Rank(points, j) = k]
  BY DEF Sorted, Rank, Precedes

(* Ranks are different places.                                             *)
LEMMA RankPlaces ==
  ASSUME NEW points, NEW n \in Nat, Listing(points, n)
  PROVE  /\ \A j \in 1..n : Rank(points, j) \in 1..n
         /\ \A i, j \in 1..n : i # j =>
              \/ Precedes(points, i, j) /\ Rank(points, i) < Rank(points, j)
              \/ Precedes(points, j, i) /\ Rank(points, j) < Rank(points, i)
<1> DEFINE Upto(j) == {i \in 1..n : Precedes(points, i, j)}
<1>1. IsFiniteSet(1..n) /\ Cardinality(1..n) = n
  BY FS_Interval
<1>2. ASSUME NEW j \in 1..n
      PROVE  /\ Rank(points, j) = Cardinality(Upto(j)) /\ IsFiniteSet(Upto(j))
             /\ j \in Upto(j) /\ Rank(points, j) \in 1..n
  <2>1. j \in Upto(j) /\ Upto(j) \in SUBSET (1..n)
    BY DEF Listing, Precedes
  <2>2. Rank(points, j) = Cardinality(Upto(j))
    BY DEF Rank, Listing
  <2> HIDE DEF Upto
  <2>3. IsFiniteSet(Upto(j)) /\ Cardinality(Upto(j)) <= n
    BY <1>1, <2>1, FS_Subset
  <2>4. Cardinality(Upto(j)) \in Nat /\ Cardinality(Upto(j)) # 0
    BY <2>1, <2>3, FS_CardinalityType, FS_EmptySet
  <2> QED
    BY <2>1, <2>2, <2>3, <2>4
<1>3. ASSUME NEW i \in 1..n, NEW j \in 1..n, i # j, Precedes(points, i, j)
      PROVE  Rank(points, i) < Rank(points, j)
  <2>1. Upto(i) \subseteq Upto(j) /\ j \notin Upto(i)
    <3>1. /\ points[i][1] \in Int /\ points[j][1] \in Int /\ i \in Int /\ j \in Int
          /\ \A k \in 1..n : points[k][1] \in Int /\ k \in Int
      BY DEF Listing
    <3> QED
      BY <1>3, <3>1 DEF Precedes
  <2>2. Upto(i) # Upto(j) /\ Upto(i) \in SUBSET Upto(j)
    BY <1>2, <2>1
  <2> HIDE DEF Upto
  <2>3. /\ Cardinality(Upto(i)) <= Cardinality(Upto(j))
        /\ Cardinality(Upto(i)) # Cardinality(Upto(j))
    BY <1>2, <2>2, FS_Subset
  <2> QED
    BY <1>2, <2>3
<1>4. ASSUME NEW i \in 1..n, NEW j \in 1..n
      PROVE  Precedes(points, i, j) \/ Precedes(points, j, i)
  BY DEF Listing, Precedes
<1> QED
  BY <1>2, <1>3, <1>4

(* What is sorted are the points, each once, in order.                     *)
LEMMA SortedPlaces ==
  ASSUME NEW points, NEW n \in Nat, Listing(points, n)
  PROVE  \E place \in [1..n -> 1..n] :
           /\ Sorted(points) = [k \in 1..n |-> points[place[k]]]
           /\ \A k, l \in 1..n : k < l => Precedes(points, place[k], place[l])
           /\ \A k \in 1..n : Rank(points, place[k]) = k
           /\ \A j \in 1..n : place[Rank(points, j)] = j
<1> DEFINE rank == [j \in 1..n |-> Rank(points, j)]
           place == [k \in DOMAIN points |->
                       CHOOSE j \in DOMAIN points : Rank(points, j) = k]
<1>1. /\ rank \in [1..n -> 1..n]
      /\ \A i, j \in 1..n : rank[i] = rank[j] => i = j
  <2>1. \A i, j \in 1..n : Rank(points, i) = Rank(points, j) => i = j
    <3>1. SUFFICES ASSUME NEW i \in 1..n, NEW j \in 1..n, i # j
                   PROVE  Rank(points, i) # Rank(points, j)
      OBVIOUS
    <3> QED
      BY <3>1, RankPlaces
  <2> QED
    BY <2>1, RankPlaces
<1>2. \A k \in 1..n : \E j \in 1..n : rank[j] = k
  <2>1. rank \in Injection(1..n, 1..n)
    BY <1>1 DEF Injection, IsInjective
  <2>2. IsFiniteSet(1..n)
    BY FS_Interval
  <2> HIDE DEF rank
  <2>3. rank \in Surjection(1..n, 1..n)
    BY <2>1, <2>2, FS_Injection
  <2> QED
    BY <2>3 DEF Surjection
<1>3. \A k \in 1..n : place[k] \in 1..n /\ Rank(points, place[k]) = k
  <2>1. \A k \in DOMAIN points : \E j \in DOMAIN points : Rank(points, j) = k
    BY <1>2 DEF Listing
  <2>2. \A k \in DOMAIN points :
          place[k] \in DOMAIN points /\ Rank(points, place[k]) = k
    BY <2>1
  <2> HIDE DEF place
  <2> QED
    BY <2>2 DEF Listing
<1>4. place \in [1..n -> 1..n]
  <2>1. place = [k \in 1..n |-> place[k]]
    BY DEF Listing
  <2> HIDE DEF place
  <2> QED
    BY <1>3, <2>1
<1>5. Sorted(points) = [k \in 1..n |-> points[place[k]]]
  <2>1. Sorted(points) = [k \in DOMAIN points |-> points[place[k]]]
    <3>1. \A k \in DOMAIN points : Sorted(points)[k] = points[place[k]]
      BY SortedRanks
    <3> HIDE DEF place
    <3> QED
      BY <3>1, SortedRanks
  <2> HIDE DEF place
  <2> QED
    BY <2>1 DEF Listing
<1>6. \A j \in 1..n : place[Rank(points, j)] = j
  <2>1. \A j \in 1..n : Rank(points, j) \in 1..n
    BY RankPlaces
  <2> HIDE DEF place
  <2> QED
    BY <1>1, <1>3, <2>1
<1> HIDE DEF place, rank
<1>7. ASSUME NEW k \in 1..n, NEW l \in 1..n, k < l
      PROVE  Precedes(points, place[k], place[l])
  <2>1. place[k] \in 1..n /\ place[l] \in 1..n /\ place[k] # place[l]
    BY <1>3, <1>7
  <2>2. ~(Rank(points, place[l]) < Rank(points, place[k]))
    BY <1>3, <1>7
  <2> QED
    BY <2>1, <2>2, RankPlaces
<1> QED
  BY <1>3, <1>4, <1>5, <1>6, <1>7

(* What is sorted holds the same points, in order.                         *)
LEMMA SortedOrder ==
  ASSUME NEW points, NEW n \in Nat, Listing(points, n)
  PROVE  /\ DOMAIN Sorted(points) = 1..n /\ Listing(Sorted(points), n)
         /\ \A k \in 1..n : \E i \in 1..n : Sorted(points)[k] = points[i]
         /\ \A i \in 1..n : \E k \in 1..n : Sorted(points)[k] = points[i]
         /\ InOrderOf(Sorted(points))
<1>1. PICK place \in [1..n -> 1..n] :
        /\ Sorted(points) = [k \in 1..n |-> points[place[k]]]
        /\ \A k, l \in 1..n : k < l => Precedes(points, place[k], place[l])
        /\ \A k \in 1..n : Rank(points, place[k]) = k
        /\ \A j \in 1..n : place[Rank(points, j)] = j
  BY SortedPlaces, Zenon
<1>2. \A j \in 1..n : Rank(points, j) \in 1..n
  BY RankPlaces
<1>3. InOrderOf(Sorted(points))
  <2>1. SUFFICES ASSUME NEW k \in 1..n, NEW l \in 1..n, k <= l
                 PROVE  points[place[k]][1] <= points[place[l]][1]
    BY <1>1, SMTT(30) DEF InOrderOf
  <2>2. points[place[k]][1] \in Int /\ points[place[l]][1] \in Int
    BY DEF Listing
  <2>3. CASE k = l
    BY <2>2, <2>3
  <2>4. CASE k < l
    <3>1. Precedes(points, place[k], place[l])
      BY <1>1, <2>4
    <3> QED
      BY <2>2, <3>1 DEF Precedes
  <2> QED
    BY <2>1, <2>3, <2>4
<1>4. \A i \in 1..n : \E k \in 1..n : Sorted(points)[k] = points[i]
  <2>1. SUFFICES ASSUME NEW i \in 1..n
                 PROVE  Sorted(points)[Rank(points, i)] = points[i]
    BY <1>2
  <2> QED
    BY <1>1, <1>2
<1>5. /\ DOMAIN Sorted(points) = 1..n
      /\ \A k \in 1..n : place[k] \in 1..n /\ Sorted(points)[k] = points[place[k]]
  BY <1>1
<1>6. Listing(Sorted(points), n)
  BY <1>5 DEF Listing
<1> QED
  BY <1>3, <1>4, <1>5, <1>6

(* Points in order are left as they are, and so sorting twice is sorting.  *)
LEMMA SortedStays ==
  ASSUME NEW points, NEW n \in Nat, Listing(points, n), InOrderOf(points),
         points = [k \in 1..n |-> points[k]]
  PROVE  Sorted(points) = points
<1>1. PICK place \in [1..n -> 1..n] :
        /\ Sorted(points) = [k \in 1..n |-> points[place[k]]]
        /\ \A k \in 1..n : Rank(points, place[k]) = k
  BY SortedPlaces, Zenon
<1>2. ASSUME NEW j \in 1..n
      PROVE  Rank(points, j) = j
  <2>1. {i \in 1..n : Precedes(points, i, j)} = 1..j
    <3>1. ASSUME NEW i \in 1..n
          PROVE  Precedes(points, i, j) <=> i <= j
      <4>1. points[i][1] \in Int /\ points[j][1] \in Int
        BY DEF Listing
      <4>2. /\ i <= j => points[i][1] <= points[j][1]
            /\ j <= i => points[j][1] <= points[i][1]
        BY DEF InOrderOf, Listing
      <4> QED
        BY <4>1, <4>2 DEF Precedes
    <3> QED
      BY <3>1
  <2>2. Cardinality(1..j) = j
    <3>1. 1 \in Int /\ j \in Int /\ ~(1 > j)
      OBVIOUS
    <3>2. Cardinality(1..j) = j - 1 + 1
      BY <3>1, FS_Interval
    <3> QED
      BY <3>2
  <2> QED
    BY <2>1, <2>2 DEF Rank, Listing
<1>3. \A k \in 1..n : place[k] = k
  BY <1>1, <1>2
<1> QED
  BY <1>1, <1>3, Zenon

(* The samples of a calibration that are kept stay in order.               *)
LEMMA UsableSorted ==
  ASSUME NEW measured, NEW n \in Nat, Listing(measured.points, n)
  PROVE  \E m \in Nat : \E place \in [1..m -> 1..n] :
           /\ UsablePoints(measured)
                = [k \in 1..m |-> Sorted(measured.points)[place[k]]]
           /\ \A k, l \in 1..m : k < l => place[k] < place[l]
<1> DEFINE points == Sorted(measured.points)
           kept == {i \in DOMAIN points :
                      i < Len(points) => points[i + 1][2] > points[i][2] + FlatRpm}
           Upto(j) == {i \in kept : i <= j}
           m == Cardinality(kept)
           count == [j \in kept |-> Cardinality(Upto(j))]
           place == [k \in 1..m |-> CHOOSE j \in kept : Cardinality(Upto(j)) = k]
<1>1. UsablePoints(measured) = [k \in 1..m |-> points[place[k]]]
  BY DEF UsablePoints
<1>2. DOMAIN points = 1..n
  BY SortedOrder
<1>3. kept \in SUBSET (1..n)
  BY <1>2
<1> HIDE DEF kept, points
<1>4. IsFiniteSet(kept) /\ m \in Nat
  <2>1. IsFiniteSet(1..n)
    BY FS_Interval
  <2> QED
    BY <1>3, <2>1, FS_Subset, FS_CardinalityType
<1>5. ASSUME NEW j \in kept
      PROVE  j \in Upto(j) /\ IsFiniteSet(Upto(j)) /\ Cardinality(Upto(j)) \in 1..m
  <2>1. j \in Upto(j) /\ Upto(j) \in SUBSET kept
    BY <1>3
  <2> HIDE DEF Upto
  <2>2. IsFiniteSet(Upto(j)) /\ Cardinality(Upto(j)) <= m
    BY <1>4, <2>1, FS_Subset
  <2>3. Cardinality(Upto(j)) \in Nat /\ Cardinality(Upto(j)) # 0
    BY <2>1, <2>2, FS_CardinalityType, FS_EmptySet
  <2> HIDE DEF m
  <2> QED
    BY <1>4, <2>1, <2>2, <2>3
<1>6. ASSUME NEW i \in kept, NEW j \in kept, i < j
      PROVE  Cardinality(Upto(i)) < Cardinality(Upto(j))
  <2>1. Upto(i) \in SUBSET Upto(j) /\ j \notin Upto(i)
    <3>1. i \in Int /\ j \in Int /\ \A k \in kept : k \in Int
      BY <1>3
    <3>2. ~(j <= i) /\ \A k \in kept : k <= i => k <= j
      BY <1>6, <3>1
    <3> QED
      BY <3>2
  <2>2. j \in Upto(j) /\ IsFiniteSet(Upto(j)) /\ IsFiniteSet(Upto(i))
    BY <1>5
  <2> HIDE DEF Upto
  <2>3. /\ Cardinality(Upto(i)) <= Cardinality(Upto(j))
        /\ Cardinality(Upto(i)) # Cardinality(Upto(j))
    BY <2>1, <2>2, FS_Subset
  <2>4. Cardinality(Upto(i)) \in Nat /\ Cardinality(Upto(j)) \in Nat
    BY <2>2, FS_CardinalityType
  <2> QED
    BY <2>3, <2>4
<1>7. \A k \in 1..m : \E j \in kept : Cardinality(Upto(j)) = k
  <2>1. count \in Injection(kept, 1..m)
    <3>1. count \in [kept -> 1..m]
      BY <1>5
    <3>2. ASSUME NEW i \in kept, NEW j \in kept, count[i] = count[j]
          PROVE  i = j
      <4>1. i \in Int /\ j \in Int /\ ~(i < j) /\ ~(j < i)
        <5>1. count[i] = Cardinality(Upto(i)) /\ count[j] = Cardinality(Upto(j))
              /\ Cardinality(Upto(i)) \in Int
          BY <1>5
        <5> HIDE DEF count, Upto
        <5>2. ~(i < j) /\ ~(j < i)
          <6>1. /\ i < j => Cardinality(Upto(i)) < Cardinality(Upto(j))
                /\ j < i => Cardinality(Upto(j)) < Cardinality(Upto(i))
            BY <1>6
          <6>2. Cardinality(Upto(i)) = Cardinality(Upto(j))
            BY <3>2, <5>1
          <6> QED
            BY <5>1, <6>1, <6>2
        <5> QED
          BY <1>3, <5>2
      <4> QED
        BY <4>1
    <3> HIDE DEF count
    <3> QED
      BY <3>1, <3>2 DEF Injection, IsInjective
  <2>2. IsFiniteSet(1..m) /\ Cardinality(1..m) = m
    BY <1>4, FS_Interval
  <2> HIDE DEF count, m
  <2>3. count \in Surjection(kept, 1..m)
    BY <1>4, <2>1, <2>2, FS_Injection DEF m
  <2>4. \A k \in 1..m : \E j \in kept : count[j] = k
    BY <2>3 DEF Surjection
  <2> QED
    BY <2>4 DEF count
<1>8. \A k \in 1..m : place[k] \in kept /\ Cardinality(Upto(place[k])) = k
  <2>1. \A k \in 1..m : place[k] = CHOOSE j \in kept : Cardinality(Upto(j)) = k
    OBVIOUS
  <2> HIDE DEF Upto, m, place
  <2> QED
    BY <1>7, <2>1
<1>9. place \in [1..m -> 1..n]
  <2>1. place = [k \in 1..m |-> place[k]]
    OBVIOUS
  <2> HIDE DEF place, m
  <2> QED
    BY <1>3, <1>8, <2>1
<1>10. ASSUME NEW k \in 1..m, NEW l \in 1..m, k < l
       PROVE  place[k] < place[l]
  <2> HIDE DEF place, Upto, m
  <2>1. /\ place[k] \in kept /\ place[l] \in kept
        /\ place[k] \in Int /\ place[l] \in Int
    <3>1. place[k] \in kept /\ place[l] \in kept
      BY <1>8
    <3>2. \A j \in kept : j \in Int
      BY <1>3
    <3> QED
      BY <3>1, <3>2
  <2>2. Cardinality(Upto(place[k])) = k /\ Cardinality(Upto(place[l])) = l
    BY <1>8
  <2>3. k \in Int /\ l \in Int
    BY <1>4
  <2>4. ~(place[l] < place[k]) /\ place[l] # place[k]
    BY <1>6, <1>10, <2>1, <2>2, <2>3
  <2> QED
    BY <2>1, <2>4
<1> HIDE DEF place, m
<1> QED
  BY <1>1, <1>4, <1>9, <1>10 DEF points

-----------------------------------------------------------------------------
(* Curves.                                                                 *)
(* A line through points is a number, wherever it is read.                 *)
LEMMA HeightTyped ==
  ASSUME NEW points \in Seq(Int \X Int), points # <<>>, NEW x \in Int
  PROVE  Height(points, x) \in Int
<1>1. \A a, b \in Int : a..b \subseteq Int
  OBVIOUS
<1> QED
  BY <1>1, HeightWithin

(* A point of a curve ends up among the temperatures and percentages.      *)
LEMMA SanePointTyped ==
  ASSUME NEW p \in Int \X Int
  PROVE  /\ SanePoint(p) \in Temperatures \X Percents
         /\ SanePoint(p)[1] = Clamp(p[1], Coldest, Hottest)
         /\ SanePoint(p)[2] = Clamp(p[2], 0, Full)
<1>1. Coldest \in Int /\ Hottest \in Int /\ Coldest <= Hottest
  BY TemperaturesAssumption
<1>2. p[1] \in Int /\ p[2] \in Int
  OBVIOUS
<1> QED
  BY <1>1, <1>2, ClampTyped, ClampedTyped DEF SanePoint, Temperatures

(* What a graph is read from: as many points, sane and in order.           *)
LEMMA GraphTyped ==
  ASSUME NEW points \in Seq(Int \X Int)
  PROVE  /\ GraphPoints(points) \in Seq(Temperatures \X Percents)
         /\ Len(GraphPoints(points)) = Len(points)
         /\ InOrderOf(GraphPoints(points))
<1> DEFINE n == Len(points)
           sane == [i \in DOMAIN points |-> SanePoint(points[i])]
<1>1. n \in Nat /\ DOMAIN points = 1..n /\ \A i \in 1..n : points[i] \in Int \X Int
  OBVIOUS
<1>2. /\ DOMAIN sane = 1..n
      /\ \A i \in 1..n : sane[i] \in Temperatures \X Percents
  BY <1>1, SanePointTyped
<1>3. GraphPoints(points) = Sorted(sane)
  BY DEF GraphPoints
<1> HIDE DEF sane, n
<1>4. Listing(sane, n)
  BY <1>2, TemperaturesAssumption DEF Listing, Temperatures
<1>5. /\ DOMAIN Sorted(sane) = 1..n /\ InOrderOf(Sorted(sane))
      /\ \A k \in 1..n : Sorted(sane)[k] \in Temperatures \X Percents
  <2>1. /\ DOMAIN Sorted(sane) = 1..n /\ InOrderOf(Sorted(sane))
        /\ \A k \in 1..n : \E i \in 1..n : Sorted(sane)[k] = sane[i]
    BY <1>1, <1>4, SortedOrder
  <2> QED
    BY <1>2, <2>1
<1>6. Sorted(sane) = [k \in 1..n |-> Sorted(sane)[k]]
  BY <1>5, SortedRanks
<1>7. [k \in 1..n |-> Sorted(sane)[k]] \in Seq(Temperatures \X Percents)
  BY <1>1, <1>5
<1>8. Sorted(sane) \in Seq(Temperatures \X Percents)
  BY <1>6, <1>7, Zenon
<1>9. Len(Sorted(sane)) = n
  BY <1>1, <1>5, <1>8
<1> QED
  BY <1>3, <1>5, <1>8, <1>9 DEF n

(* A line is read from two sane ends, apart and in order.                  *)
LEMMA LinearTyped ==
  ASSUME NEW p \in Int \X Int, NEW q \in Int \X Int
  PROVE  /\ LinearPoints(p, q) \in Seq(Temperatures \X Percents)
         /\ Len(LinearPoints(p, q)) = 2
         /\ LinearPoints(p, q)[1][1] + MinSpan <= LinearPoints(p, q)[2][1]
<1>1. ASSUME NEW a \in Temperatures \X Percents, NEW b \in Temperatures \X Percents
      PROVE  /\ Apart(a, b) \in Seq(Temperatures \X Percents)
             /\ Len(Apart(a, b)) = 2
             /\ Apart(a, b)[1][1] + MinSpan <= Apart(a, b)[2][1]
  <2> DEFINE right == IF b[1] - a[1] < MinSpan
                      THEN Clamp(a[1] + MinSpan, Coldest, Hottest) ELSE b[1]
             left  == IF a[1] > right - MinSpan THEN right - MinSpan ELSE a[1]
  <2>1. /\ Coldest \in Int /\ Hottest \in Int /\ MinSpan \in Nat \ {0}
        /\ Coldest + MinSpan <= Hottest
    BY TemperaturesAssumption
  <2>2. /\ a[1] \in Coldest..Hottest /\ b[1] \in Coldest..Hottest
        /\ a[2] \in Percents /\ b[2] \in Percents
    BY DEF Temperatures
  <2>3. /\ right \in Coldest..Hottest /\ right >= Coldest + MinSpan
    BY <2>1, <2>2 DEF Clamp
  <2> HIDE DEF right
  <2>4. left \in Coldest..Hottest /\ left + MinSpan <= right
    BY <2>1, <2>2, <2>3
  <2>5. Apart(a, b) = << <<left, a[2]>>, <<right, b[2]>> >>
    BY DEF Apart, right
  <2> HIDE DEF left
  <2> QED
    BY <2>2, <2>3, <2>4, <2>5 DEF Temperatures
<1>2. LinearPoints(p, q) \in {Apart(SanePoint(p), SanePoint(q)),
                              Apart(SanePoint(q), SanePoint(p))}
  BY DEF LinearPoints, InOrder
<1> QED
  BY <1>1, <1>2, SanePointTyped
=============================================================================
