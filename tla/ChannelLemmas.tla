--------------------------- MODULE ChannelLemmas ---------------------------
(***************************************************************************)
(* Facts about natural numbers, about counters that follow a finite set,   *)
(* and about the buffer of a channel, for the proofs about the other       *)
(* modules.                                                                *)
(***************************************************************************)
EXTENDS Integers, Sequences, FiniteSets, FiniteSetTheorems, WellFoundedInduction, TLAPS

\* A set of naturals has a least member,
LEMMA LeastElement ==
  ASSUME NEW T \in SUBSET Nat, T # {}
  PROVE  \E x \in T : \A y \in T : x <= y
<1>1. PICK x \in T : \A y \in T : ~ (<<y, x>> \in OpToRel(<, Nat))
  BY WFMin, NatLessThanWellFounded
<1>2. \A y \in T : <<y, x>> \in Nat \X Nat  OBVIOUS
<1>3. \A y \in T : ~(y < x)  BY <1>1, <1>2 DEF OpToRel
<1>4. QED  BY <1>3

\* a bounded one a greatest, ...
LEMMA GreatestElement ==
  ASSUME NEW n \in Nat, NEW T \in SUBSET Nat, T # {}, \A x \in T : x <= n
  PROVE  \E x \in T : \A y \in T : y <= x
<1> DEFINE U == {m \in Nat : \A x \in T : x <= m}
<1>1. U \in SUBSET Nat /\ U # {}  OBVIOUS
<1>2. PICK m \in U : \A k \in U : m <= k
  <2> HIDE DEF U
  <2>1. QED  BY <1>1, LeastElement
<1>3. m \in T
  <2> SUFFICES ASSUME m \notin T PROVE FALSE  OBVIOUS
  <2>1. \A x \in T : x <= m /\ x # m  BY <1>2
  <2>2. m - 1 \in Nat /\ \A x \in T : x <= m - 1
    <3>1. m \in Nat /\ \A x \in T : x \in Nat /\ x < m  BY <2>1
    <3>2. PICK x \in T : x \in Nat /\ x < m  BY <3>1
    <3>3. QED  BY <3>1, <3>2
  <2>3. m <= m - 1  BY <1>2, <2>2
  <2>4. QED  BY <1>2, <2>3
<1>4. QED  BY <1>2, <1>3

\* ... from which induction follows, up to any bound.
LEMMA Induct ==
  ASSUME NEW n \in Nat, NEW T \in SUBSET (0 .. n), 0 \in T,
         \A i \in 0 .. n : i < n /\ i \in T => i + 1 \in T
  PROVE  T = 0 .. n
<1> SUFFICES ASSUME NEW m \in 0 .. n, m \notin T PROVE FALSE  OBVIOUS
<1> DEFINE U == (0 .. n) \ T
<1>1. U \in SUBSET Nat /\ U # {}  OBVIOUS
<1>2. PICK x \in U : \A y \in U : x <= y
  <2> HIDE DEF U
  <2>1. QED  BY <1>1, LeastElement
<1>3. x # 0 /\ x - 1 \in 0 .. n /\ x - 1 \notin U  BY <1>2
<1>4. x - 1 \in T /\ x - 1 < n  BY <1>3
<1>5. (x - 1) + 1 \in T  BY <1>4
<1>6. QED  BY <1>5, <1>2

\* A finite set gains a member, or loses one.
LEMMA Gains ==
  ASSUME NEW S, IsFiniteSet(S), NEW x, x \notin S
  PROVE  /\ IsFiniteSet(S \cup {x}) /\ Cardinality(S \cup {x}) = Cardinality(S) + 1
         /\ Cardinality(S) \in Nat
BY FS_AddElement, FS_CardinalityType

LEMMA Loses ==
  ASSUME NEW S, IsFiniteSet(S), NEW x \in S
  PROVE  /\ IsFiniteSet(S \ {x}) /\ Cardinality(S \ {x}) = Cardinality(S) - 1
         /\ Cardinality(S) \in Nat \ {0}
<1>1. Cardinality(S) \in Nat /\ Cardinality(S) # 0
  BY FS_CardinalityType, FS_EmptySet
<1>2. QED  BY <1>1, FS_RemoveElement

\* A send to the buffer, and a receive from it.
LEMMA AppendFacts ==
  ASSUME NEW S, NEW q \in Seq(S), NEW x \in S
  PROVE  /\ Append(q, x) \in Seq(S) /\ Len(Append(q, x)) = Len(q) + 1
         /\ \A i \in 1 .. Len(q) : Append(q, x)[i] = q[i]
         /\ Append(q, x)[Len(q) + 1] = x
         /\ Len(q) \in Nat
OBVIOUS

LEMMA TailFacts ==
  ASSUME NEW S, NEW q \in Seq(S), q # <<>>
  PROVE  /\ Len(q) \in Nat \ {0} /\ Head(q) = q[1] /\ Head(q) \in S
         /\ Tail(q) \in Seq(S) /\ Len(Tail(q)) = Len(q) - 1
         /\ \A i \in 1 .. Len(q) - 1 : Tail(q)[i] = q[i + 1]
OBVIOUS

\* What a buffer holds, and that it holds nothing twice.
Content(q)  == {q[i] : i \in 1 .. Len(q)}
Distinct(q) == \A i, j \in 1 .. Len(q) : q[i] = q[j] => i = j

LEMMA EmptyContent ==
  ASSUME NEW S, NEW q \in Seq(S)
  PROVE  /\ q = <<>> <=> Content(q) = {}
         /\ q = <<>> => Distinct(q)
<1>1. Len(q) \in Nat  OBVIOUS
<1>2. CASE q = <<>>  BY <1>2 DEF Content, Distinct
<1>3. CASE q # <<>>
  <2>1. 1 \in 1 .. Len(q)  BY <1>3, TailFacts
  <2>2. q[1] \in Content(q)  BY <2>1 DEF Content
  <2>3. QED  BY <1>3, <2>2
<1>4. QED  BY <1>2, <1>3

LEMMA AppendContent ==
  ASSUME NEW S, NEW q \in Seq(S), NEW x \in S
  PROVE  /\ Content(Append(q, x)) = Content(q) \cup {x}
         /\ Distinct(q) /\ x \notin Content(q) => Distinct(Append(q, x))
<1> DEFINE p == Append(q, x)
<1>1. /\ Len(q) \in Nat /\ Len(p) = Len(q) + 1 /\ p[Len(q) + 1] = x
      /\ \A i \in 1 .. Len(q) : p[i] = q[i]
  BY AppendFacts
<1> HIDE DEF p
<1>2. Content(p) = Content(q) \cup {x}  BY <1>1 DEF Content
<1>3. ASSUME Distinct(q), x \notin Content(q) PROVE Distinct(p)
  <2>1. \A i \in 1 .. Len(q) : q[i] # x  BY <1>3 DEF Content
  <2>2. QED  BY <1>1, <1>3, <2>1 DEF Distinct
<1>4. QED  BY <1>2, <1>3 DEF p

LEMMA TailContent ==
  ASSUME NEW S, NEW q \in Seq(S), q # <<>>, Distinct(q)
  PROVE  /\ Content(Tail(q)) = Content(q) \ {Head(q)}
         /\ Head(q) \in Content(q)
         /\ Distinct(Tail(q))
<1> DEFINE p == Tail(q)
           x == Head(q)
<1>1. /\ Len(q) \in Nat \ {0} /\ Len(p) = Len(q) - 1 /\ x = q[1]
      /\ \A i \in 1 .. Len(p) : p[i] = q[i + 1]
  BY TailFacts
<1> HIDE DEF p, x
<1>2. Distinct(p)
  <2>1. ASSUME NEW i \in 1 .. Len(p), NEW j \in 1 .. Len(p), p[i] = p[j] PROVE i = j
    <3>1. i + 1 \in 1 .. Len(q) /\ j + 1 \in 1 .. Len(q) /\ q[i + 1] = q[j + 1]  BY <1>1, <2>1
    <3>2. i + 1 = j + 1  BY <3>1 DEF Distinct
    <3>3. QED  BY <3>2
  <2>2. QED  BY <2>1 DEF Distinct
<1>3. ASSUME NEW i \in 1 .. Len(p) PROVE p[i] \in Content(q) /\ p[i] # x
  <2>1. i + 1 \in 1 .. Len(q) /\ 1 \in 1 .. Len(q) /\ i + 1 # 1 /\ q[i + 1] = p[i]
    BY <1>1, <1>3
  <2>2. q[i + 1] # q[1]  BY <2>1 DEF Distinct
  <2>3. QED  BY <1>1, <2>1, <2>2 DEF Content
<1>4. ASSUME NEW i \in 1 .. Len(q), q[i] # x PROVE q[i] \in Content(p)
  <2>1. i - 1 \in 1 .. Len(p) /\ p[i - 1] = q[i]  BY <1>1, <1>4
  <2>2. QED  BY <2>1 DEF Content
<1>5. x \in Content(q)
  <2>1. 1 \in 1 .. Len(q)  BY <1>1
  <2>2. QED  BY <1>1, <2>1 DEF Content
<1>6. Content(p) = Content(q) \ {x}
  <2>1. ASSUME NEW y \in Content(p) PROVE y \in Content(q) \ {x}
    <3>1. PICK i \in 1 .. Len(p) : y = p[i]  BY <2>1 DEF Content
    <3>2. QED  BY <1>3, <3>1
  <2>2. ASSUME NEW y \in Content(q), y # x PROVE y \in Content(p)
    <3>1. PICK i \in 1 .. Len(q) : y = q[i]  BY <2>2 DEF Content
    <3>2. QED  BY <1>4, <2>2, <3>1
  <2>3. QED  BY <2>1, <2>2
<1>7. QED  BY <1>2, <1>5, <1>6 DEF p, x
=============================================================================
