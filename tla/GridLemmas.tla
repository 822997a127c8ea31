------------------------------ MODULE GridLemmas ------------------------------
(***************************************************************************)
(* Arithmetic of times and grids: n is on the grid of k when n % k = 0.    *)
(* The wheel's ticks are grids, each a refinement of the one above it.     *)
(***************************************************************************)
EXTENDS Integers, TLAPS

\* Division with remainder.
LEMMA DivMod ==
  ASSUME NEW t \in Nat, NEW k \in Nat \ {0}
  PROVE  /\ t \div k \in Nat
         /\ t % k \in 0 .. (k - 1)
         /\ t = (t \div k) * k + (t % k)
  OBVIOUS

\* Products are monotone.
LEMMA MulMono ==
  ASSUME NEW p \in Int, NEW q \in Int, NEW k \in Nat, p <= q
  PROVE  p * k <= q * k
  OBVIOUS

\* Different multiples of k are at least k apart.
LEMMA MultipleGap ==
  ASSUME NEW p \in Int, NEW q \in Int, NEW k \in Nat \ {0}, p * k < q * k
  PROVE  p * k + k <= q * k
<1>1. p < q
  <2>1. CASE q <= p
    <3>1. q * k <= p * k  BY <2>1, MulMono
    <3>2. QED  BY <3>1
  <2>2. QED  BY <2>1
<1>2. (p + 1) * k <= q * k  BY <1>1, MulMono
<1>3. (p + 1) * k = p * k + k  OBVIOUS
<1>4. QED  BY <1>2, <1>3

\* A number on a grid is a multiple, and every multiple is on the grid.
LEMMA OnGrid ==
  ASSUME NEW n \in Nat, NEW k \in Nat \ {0}, n % k = 0
  PROVE  n \div k \in Nat /\ n = (n \div k) * k
  BY DivMod

\* The quotient and the remainder of a multiple.
LEMMA MultipleOnGrid ==
  ASSUME NEW m \in Nat, NEW k \in Nat \ {0}
  PROVE  m * k \in Nat /\ (m * k) % k = 0 /\ (m * k) \div k = m
<1> DEFINE n == m * k
           q == n \div k
           r == n % k
<1>1. n \in Nat  OBVIOUS
<1>2. q \in Nat /\ r \in 0 .. (k - 1) /\ n = q * k + r  BY <1>1, DivMod
<1> HIDE DEF q, r
<1>3. ~ q * k < m * k  \/ q * k + k <= m * k  BY <1>2, MultipleGap
<1>4. ~ m * k < q * k  BY <1>2
<1>5. r = 0 /\ q * k = m * k  BY <1>2, <1>3, <1>4
<1>6. q = m
  <2>1. CASE q < m
    <3>1. (q + 1) * k <= m * k  BY <2>1, <1>2, MulMono
    <3>2. (q + 1) * k = q * k + k  BY <1>2
    <3>3. QED  BY <1>5, <3>1, <3>2, <1>2
  <2>2. CASE m < q
    <3>1. (m + 1) * k <= q * k  BY <2>2, <1>2, MulMono
    <3>2. (m + 1) * k = m * k + k  OBVIOUS
    <3>3. QED  BY <1>5, <3>1, <3>2, <1>2
  <2>3. QED  BY <2>1, <2>2, <1>2
<1>7. QED  BY <1>1, <1>5, <1>6 DEF q, r

\* Different points of a grid are at least k apart.
LEMMA GridGap ==
  ASSUME NEW a \in Nat, NEW b \in Nat, NEW k \in Nat \ {0},
         a % k = 0, b % k = 0, a < b
  PROVE  a + k <= b
<1>1. PICK p \in Nat : a = p * k  BY OnGrid
<1>2. PICK q \in Nat : b = q * k  BY OnGrid
<1>3. QED  BY <1>1, <1>2, MultipleGap

\* Only one point of a grid is at or below t and within k of it.
LEMMA GridUnique ==
  ASSUME NEW a \in Nat, NEW b \in Nat, NEW t \in Nat, NEW k \in Nat \ {0},
         a % k = 0, b % k = 0, a <= t, t < a + k, b <= t, t < b + k
  PROVE  a = b
<1>1. CASE a < b
  <2>1. a + k <= b  BY <1>1, GridGap
  <2>2. QED  BY <2>1
<1>2. CASE b < a
  <2>1. b + k <= a  BY <1>2, GridGap
  <2>2. QED  BY <2>1
<1>3. QED  BY <1>1, <1>2

\* The sum of two points of a grid is on it.
LEMMA GridSum ==
  ASSUME NEW a \in Nat, NEW b \in Nat, NEW k \in Nat \ {0},
         a % k = 0, b % k = 0
  PROVE  (a + b) % k = 0
<1>1. PICK p \in Nat : a = p * k  BY OnGrid
<1>2. PICK q \in Nat : b = q * k  BY OnGrid
<1>3. a + b = (p + q) * k  BY <1>1, <1>2
<1>4. PICK m \in Nat : m = p + q  OBVIOUS
<1>5. (m * k) % k = 0  BY MultipleOnGrid
<1>6. QED  BY <1>3, <1>4, <1>5

\* A coarser grid is part of a finer one that divides it.
LEMMA GridTrans ==
  ASSUME NEW n \in Nat, NEW l \in Nat \ {0}, NEW k \in Nat \ {0},
         n % l = 0, l % k = 0
  PROVE  n % k = 0
<1>1. PICK p \in Nat : n = p * l  BY OnGrid
<1>2. PICK q \in Nat : l = q * k  BY OnGrid
<1>3. n = (p * q) * k /\ p * q \in Nat  BY <1>1, <1>2
<1>4. QED  BY <1>3, MultipleOnGrid

\* Slots of a ring of size B are distinct over fewer than B steps.
LEMMA RingUnique ==
  ASSUME NEW v \in Nat, NEW w \in Nat, NEW B \in Nat \ {0},
         v % B = w % B, v < w + B, w < v + B
  PROVE  v = w
<1>1. PICK p \in Nat, q \in Nat, r \in 0 .. (B - 1) : v = p * B + r /\ w = q * B + r
  <2>1. v \div B \in Nat /\ v % B \in 0 .. (B - 1) /\ v = (v \div B) * B + (v % B)
    BY DivMod
  <2>2. w \div B \in Nat /\ w = (w \div B) * B + (v % B)
    BY DivMod
  <2>3. QED  BY <2>1, <2>2
<1>2. p * B < q * B + B /\ q * B < p * B + B  BY <1>1
<1>3. CASE p * B < q * B
  <2>1. p * B + B <= q * B  BY <1>3, MultipleGap
  <2>2. QED  BY <1>2, <2>1
<1>4. CASE q * B < p * B
  <2>1. q * B + B <= p * B  BY <1>4, MultipleGap
  <2>2. QED  BY <1>2, <2>1
<1>5. QED  BY <1>1, <1>3, <1>4

\* Rounding down to a grid.
LEMMA RoundedDown ==
  ASSUME NEW t \in Nat, NEW k \in Nat \ {0}
  PROVE  LET r == t - (t % k)
         IN r \in Nat /\ r % k = 0 /\ r <= t /\ t < r + k
<1>1. PICK q \in Nat : q = t \div k  BY DivMod
<1>2. t % k \in 0 .. (k - 1) /\ t = q * k + (t % k)  BY <1>1, DivMod
<1>3. t - (t % k) = q * k  BY <1>2
<1>4. q * k \in Nat /\ (q * k) % k = 0  BY MultipleOnGrid
<1>5. QED  BY <1>2, <1>3, <1>4

\* The slot of the grid that t is in, counted from 0.
LEMMA SlotOf ==
  ASSUME NEW t \in Nat, NEW k \in Nat \ {0}
  PROVE  LET v == t \div k
             x == v * k
         IN /\ v \in Nat
            /\ x \in Nat
            /\ x % k = 0
            /\ x \div k = v
            /\ x <= t
            /\ t < x + k
<1>1. PICK v \in Nat : v = t \div k  BY DivMod
<1>2. t % k \in 0 .. (k - 1) /\ t = v * k + (t % k)  BY <1>1, DivMod
<1>3. v * k \in Nat /\ (v * k) % k = 0 /\ (v * k) \div k = v  BY MultipleOnGrid
<1>4. QED  BY <1>1, <1>2, <1>3

\* The slot of a time that is at least k past a grid point starts past it too.
LEMMA SlotAfter ==
  ASSUME NEW c \in Nat, NEW x \in Nat, NEW t \in Nat, NEW k \in Nat \ {0},
         c % k = 0, x % k = 0, c + k <= t, t < x + k
  PROVE  c + k <= x
<1>1. CASE x < c
  <2>1. x + k <= c  BY <1>1, GridGap
  <2>2. QED  BY <2>1
<1>2. CASE x = c  BY <1>2
<1>3. CASE c < x  BY <1>3, GridGap
<1>4. QED  BY <1>1, <1>2, <1>3

\* Grid points of one ring slot and one turn of the ring are the same point.
LEMMA SlotUnique ==
  ASSUME NEW c \in Nat, NEW x \in Nat, NEW y \in Nat,
         NEW k \in Nat \ {0}, NEW B \in Nat \ {0},
         x % k = 0, y % k = 0, (x \div k) % B = (y \div k) % B,
         c <= x, x < c + k * B, c <= y, y < c + k * B
  PROVE  x = y
<1>1. PICK v \in Nat : v = x \div k /\ x = v * k  BY OnGrid
<1>2. PICK w \in Nat : w = y \div k /\ y = w * k  BY OnGrid
<1>3. v < w + B
  <2>1. CASE w + B <= v
    <3>1. (w + B) * k <= v * k  BY <2>1, MulMono
    <3>2. (w + B) * k = w * k + k * B  OBVIOUS
    <3>3. k * B \in Nat  OBVIOUS
    <3>4. QED  BY <1>1, <1>2, <3>1, <3>2, <3>3
  <2>2. QED  BY <2>1
<1>4. w < v + B
  <2>1. CASE v + B <= w
    <3>1. (v + B) * k <= w * k  BY <2>1, MulMono
    <3>2. (v + B) * k = v * k + k * B  OBVIOUS
    <3>3. k * B \in Nat  OBVIOUS
    <3>4. QED  BY <1>1, <1>2, <3>1, <3>2, <3>3
  <2>2. QED  BY <2>1
<1>5. v = w  BY <1>1, <1>2, <1>3, <1>4, RingUnique
<1>6. QED  BY <1>1, <1>2, <1>5
=============================================================================
