------------------------- MODULE PostProcessProofs -------------------------
(***************************************************************************)
(* The detection of postprocess.cpp for any heads, scores, overlaps and    *)
(* label files: what the threshold becomes in the 8-bit numbers the cells  *)
(* are compared with, the sort of scores and boxes, the suppression, the   *)
(* report and its labels.                                                  *)
(***************************************************************************)
EXTENDS PostProcess, FiniteSetTheorems, SequenceTheorems, WellFoundedInduction, TLAPS

-----------------------------------------------------------------------------
(* The 8-bit threshold. *)

LEMMA Grows ==
  ASSUME NEW a \in Int, NEW b \in Int, NEW d \in Nat \ {0}
  PROVE  a <= b <=> a * d <= b * d
  BY SMT

(* A fraction and its integer part are less than one apart, and the part   *)
(* is on the side of zero.                                                 *)
LEMMA Parts ==
  ASSUME NEW num \in Int, NEW den \in Nat \ {0}
  PROVE  LET k == Truncated(num, den)
         IN  /\ k \in Int
             /\ num >= 0 => k * den <= num /\ num < (k + 1) * den
             /\ num < 0  => num <= k * den /\ (k - 1) * den < num
  <1>1. CASE num >= 0
    BY <1>1, SMT DEF Truncated
  <1>2. CASE num < 0
    BY <1>2, SMT DEF Truncated
  <1> QED BY <1>1, <1>2, SMT

(* generate_proposals compares with t in place of the threshold f.  No     *)
(* number that stands for f or more is below t, and one that is not below  *)
(* t stands for more than one step less than f - or f is beyond the        *)
(* largest number there is, which then passes all the same.  The class     *)
(* score, which has to be above t, is above f.                             *)
THEOREM ThresholdWithinStep ==
  ASSUME NEW f \in Int, NEW zp \in Int, NEW scale \in Nat \ {0}
  PROVE  LET t    == qnt_f32_to_affine(f, zp, scale)
             v(q) == deqnt_affine_to_f32(q, zp, scale)
         IN  /\ t \in Int8
             /\ \A q \in Int8 : v(q) >= f => q >= t
             /\ \A q \in Int8 : q >= t => v(q) > f - scale \/ f > v(127)
             /\ \A q \in Int8 : q > t => v(q) > f
  <1> DEFINE t    == qnt_f32_to_affine(f, zp, scale)
             v(q) == deqnt_affine_to_f32(q, zp, scale)
             num  == f + zp * scale
             c    == __clip(num, scale, -128, 127)
  <1>1. num \in Int /\ \A q \in Int : v(q) = q * scale - zp * scale /\ q * scale \in Int /\ zp * scale \in Int
    BY SMT DEF deqnt_affine_to_f32
  <1>2. /\ c \in Int /\ c <= 127 * scale /\ -128 * scale <= c
        /\ num <= -128 * scale => c = -128 * scale
        /\ num >= 127 * scale => c = 127 * scale
        /\ -128 * scale < num /\ num < 127 * scale => c = num
    BY SMT DEF __clip
  <1>3. t = Truncated(c, scale)
    BY DEF qnt_f32_to_affine
  <1> HIDE DEF t, c
  <1>4. /\ t \in Int
        /\ c >= 0 => t * scale <= c /\ c < (t + 1) * scale
        /\ c < 0 => c <= t * scale /\ (t - 1) * scale < c
    BY <1>2, <1>3, Parts
  <1>5. t <= 127
    <2>1. c >= 0 => t * scale <= 127 * scale
      BY <1>2, <1>4, SMT
    <2>2. c < 0 => ~ (0 <= t - 1)
      BY <1>2, <1>4, Grows, SMT
    <2> QED BY <1>2, <1>4, <2>1, <2>2, Grows, SMT
  <1>6. -128 <= t
    <2>1. c < 0 => -128 * scale <= t * scale
      BY <1>2, <1>4, SMT
    <2>2. c >= 0 => ~ (t + 1 <= 0)
      BY <1>2, <1>4, Grows, SMT
    <2> QED BY <1>2, <1>4, <2>1, <2>2, Grows, SMT
  <1>7. ASSUME NEW q \in Int8, v(q) >= f PROVE q >= t
    <2>1. q \in Int /\ -128 <= q /\ q <= 127 /\ num <= q * scale
      BY <1>1, <1>7, SMT DEF Int8
    <2>2. CASE num <= -128 * scale
      <3>1. ~ (0 <= t - 1) /\ ~ (-127 <= t)
        BY <2>2, <1>2, <1>4, Grows, SMT
      <3> QED BY <3>1, <2>1, <1>4, SMT
    <2>3. CASE num >= 127 * scale
      <3>1. 127 <= q
        BY <2>3, <2>1, Grows, SMT
      <3> QED BY <3>1, <1>5, <1>4, <2>1, SMT
    <2>4. CASE -128 * scale < num /\ num < 127 * scale
      <3>1. c = num
        BY <2>4, <1>2
      <3>2. CASE c >= 0
        BY <3>1, <3>2, <2>1, <1>4, Grows, SMT
      <3>3. CASE c < 0
        <4>1. ~ (q <= t - 1)
          BY <3>1, <3>3, <2>1, <1>4, Grows, SMT
        <4> QED BY <4>1, <2>1, <1>4, SMT
      <3> QED BY <3>2, <3>3, <1>2, SMT
    <2> QED BY <2>2, <2>3, <2>4, <1>1, SMT
  <1>8. ASSUME NEW q \in Int8, q >= t PROVE v(q) > f - scale \/ f > v(127)
    <2>1. q \in Int /\ -128 <= q /\ t * scale <= q * scale /\ q * scale >= -128 * scale
      BY <1>8, <1>4, Grows, SMT DEF Int8
    <2>2. CASE num <= -128 * scale
      BY <2>1, <2>2, <1>1, SMT
    <2>3. CASE num > 127 * scale
      BY <2>3, <1>1, SMT
    <2>4. CASE -128 * scale < num /\ num <= 127 * scale
      <3>1. c = num
        BY <2>4, <1>2, SMT
      <3>2. (t + 1) * scale = t * scale + scale
        BY <1>4, SMT
      <3>3. num < t * scale + scale
        BY <3>1, <3>2, <1>4, <1>1, SMT
      <3> QED BY <3>3, <2>1, <1>1, <1>4, SMT
    <2> QED BY <2>2, <2>3, <2>4, <1>1, SMT
  <1>9. ASSUME NEW q \in Int8, q > t PROVE v(q) > f
    <2>1. /\ q \in Int /\ q <= 127 /\ t + 1 <= q /\ (t + 1) * scale <= q * scale
          /\ (t + 1) * scale = t * scale + scale
      BY <1>9, <1>4, Grows, SMT DEF Int8
    <2>2. CASE num <= -128 * scale
      <3>1. -127 * scale <= q * scale
        BY <2>1, <1>6, <1>4, Grows, SMT
      <3> QED BY <3>1, <2>2, <1>1, <2>1, SMT
    <2>3. CASE num >= 127 * scale
      <3>1. ~ (t + 1 <= 127)
        BY <2>3, <1>2, <1>4, Grows, SMT
      <3> QED BY <3>1, <2>1, <1>4, SMT
    <2>4. CASE -128 * scale < num /\ num < 127 * scale
      <3>1. c = num
        BY <2>4, <1>2
      <3>2. num < t * scale + scale
        BY <3>1, <2>1, <1>4, <1>1, SMT
      <3> QED BY <3>2, <2>1, <1>1, <1>4, SMT
    <2> QED BY <2>2, <2>3, <2>4, <1>1, SMT
  <1> QED BY <1>4, <1>5, <1>6, <1>7, <1>8, <1>9 DEF Int8, t

-----------------------------------------------------------------------------
(* Least and greatest numbers, and sets of places in their order. *)

LEMMA Least ==
    ASSUME NEW T \in SUBSET Nat, T # {}
    PROVE  \E x \in T : \A y \in T : x <= y
  <1> DEFINE R == OpToRel(<, Nat)
  <1>1. IsWellFoundedOn(R, Nat)
    BY NatLessThanWellFounded
  <1>2. \A x, y \in Nat : y < x => <<y, x>> \in R
    BY DEF OpToRel
  <1> HIDE DEF R
  <1>3. PICK x \in T : \A y \in T : ~(<<y, x>> \in R)
    BY <1>1, WFMin
  <1>4. \A y \in T : ~(y < x) /\ y \in Nat /\ x \in Nat
    BY <1>2, <1>3
  <1> QED BY <1>3, <1>4

LEMMA MinIs ==
    ASSUME NEW T \in SUBSET Nat, T # {}
    PROVE  Min(T) \in T /\ \A y \in T : Min(T) <= y
  <1>1. PICK x \in T : \A y \in T : x <= y
    BY Least
  <1> QED BY <1>1 DEF Min

LEMMA MaxIs ==
    ASSUME NEW n \in Nat, NEW T \in SUBSET (0..n), T # {}
    PROVE  Max(T) \in T /\ \A y \in T : y <= Max(T)
  <1> DEFINE S == {n - x : x \in T}
  <1>1. S \in SUBSET Nat /\ S # {}
    <2>1. \A x \in T : x \in 0..n /\ n - x \in Nat
      OBVIOUS
    <2> QED BY <2>1
  <1>2. PICK y \in S : \A z \in S : y <= z
    BY <1>1, Least
  <1>3. PICK x \in T : y = n - x
    BY <1>2
  <1>4. ASSUME NEW z \in T PROVE z <= x
    <2>1. n - x <= n - z
      BY <1>2, <1>3, <1>4
    <2>2. x \in Nat /\ z \in Nat
      BY <1>3, <1>4
    <2> QED BY <2>1, <2>2
  <1>5. \A z \in T : x >= z
    BY <1>3, <1>4
  <1>6. Max(T) \in T /\ \A z \in T : Max(T) >= z
    BY <1>3, <1>5 DEF Max
  <1> QED BY <1>6

(* s lists the numbers of S from the smallest on. *)
Lists(s, S) ==
    /\ s \in [1..Cardinality(S) -> S]
    /\ \A p, q \in 1..Cardinality(S) : p < q => s[p] < s[q]

LEMMA ListExists ==
    ASSUME NEW n \in Nat
    PROVE  \A S \in SUBSET (1..n) : IsFiniteSet(S) /\ Cardinality(S) \in Nat /\ \E s : Lists(s, S)
  <1>1. \A S \in SUBSET (1..n) : IsFiniteSet(S) /\ Cardinality(S) \in Nat
    <2>1. IsFiniteSet(1..n)
      BY FS_Interval
    <2> QED BY <2>1, FS_Subset, FS_CardinalityType
  <1> DEFINE Unlisted == {k \in Nat : \E S \in SUBSET (1..n) : Cardinality(S) = k /\ ~ \E s : Lists(s, S)}
  <1>2. SUFFICES ASSUME Unlisted # {} PROVE FALSE
    BY <1>1
  <1>3. PICK k \in Unlisted : \A l \in Unlisted : k <= l
    BY <1>2, Least
  <1>4. PICK S \in SUBSET (1..n) : Cardinality(S) = k /\ ~ \E s : Lists(s, S)
    BY <1>3
  <1>5. CASE k = 0
    <2>1. Lists(<<>>, S)
      BY <1>4, <1>5 DEF Lists
    <2> QED BY <1>4, <2>1
  <1>6. CASE k # 0
    <2>1. S # {}
      BY <1>4, <1>6, FS_EmptySet
    <2>2. S \in SUBSET (0..n)
      BY <1>4
    <2>3. PICK m \in S : \A y \in S : y <= m
      BY <2>1, <2>2, MaxIs
    <2>4. Cardinality(S \ {m}) = k - 1 /\ S \ {m} \in SUBSET (1..n)
      BY <1>1, <1>4, <2>3, FS_RemoveElement
    <2>5. k - 1 \in Nat /\ k - 1 \notin Unlisted
      BY <1>3, <1>6
    <2>6. PICK s : Lists(s, S \ {m})
      BY <2>4, <2>5
    <2>7. /\ s \in [1..(k - 1) -> S \ {m}]
          /\ \A p, q \in 1..(k - 1) : p < q => s[p] < s[q]
      BY <2>4, <2>6 DEF Lists
    <2> DEFINE t == [p \in 1..k |-> IF p = k THEN m ELSE s[p]]
    <2>8. t \in [1..k -> S]
      BY <2>3, <2>5, <2>7
    <2>9. ASSUME NEW p \in 1..k, NEW q \in 1..k, p < q PROVE t[p] < t[q]
      <3>1. p \in 1..(k - 1) /\ t[p] = s[p] /\ s[p] \in S \ {m}
        BY <2>5, <2>7, <2>9
      <3>2. s[p] < m
        <4>1. s[p] <= m /\ s[p] # m
          BY <2>3, <3>1
        <4>2. s[p] \in S
          BY <3>1
        <4>3. \A x \in S : x \in Nat
          BY <1>4
        <4>4. m \in Nat /\ s[p] \in Nat
          BY <2>3, <4>2, <4>3
        <4> QED BY <4>1, <4>4
      <3>3. CASE q = k
        BY <3>1, <3>2, <3>3
      <3>4. CASE q # k
        <4>1. q \in 1..(k - 1) /\ t[q] = s[q]
          BY <2>5, <3>4
        <4> QED BY <2>7, <2>9, <3>1, <4>1
      <3> QED BY <3>3, <3>4
    <2>10. Lists(t, S)
      BY <1>4, <2>8, <2>9 DEF Lists
    <2> QED BY <1>4, <2>10
  <1> QED BY <1>5, <1>6

(* A list of places in their order has each of them.                       *)
LEMMA AscendingIs ==
    ASSUME NEW n \in Nat, NEW S \in SUBSET (1..n)
    PROVE  /\ Lists(Ascending(S), S) /\ IsFiniteSet(S) /\ Cardinality(S) \in Nat
           /\ \A x \in S : \E p \in 1..Cardinality(S) : Ascending(S)[p] = x
  <1>1. IsFiniteSet(S) /\ Cardinality(S) \in Nat /\ \E s : Lists(s, S)
    BY ListExists
  <1> DEFINE k == Cardinality(S)
             s == Ascending(S)
  <1>2. \E t \in [1..k -> S] : \A p, q \in DOMAIN t : p < q => t[p] < t[q]
    BY <1>1 DEF Lists
  <1>3. s \in [1..k -> S] /\ \A p, q \in DOMAIN s : p < q => s[p] < s[q]
    BY <1>2 DEF Ascending
  <1>4. k \in Nat
    BY <1>1
  <1> HIDE DEF s, k
  <1>5. s \in Injection(1..k, S)
    <2> SUFFICES ASSUME NEW p \in 1..k, NEW q \in 1..k, p # q PROVE s[p] # s[q]
      BY <1>3 DEF Injection, IsInjective
    <2>1. s[p] \in Nat /\ s[q] \in Nat
      <3>1. s[p] \in S /\ s[q] \in S
        BY <1>3
      <3>2. \A x \in S : x \in Nat
        OBVIOUS
      <3> QED BY <3>1, <3>2
    <2>2. p < q \/ q < p
      BY <1>4
    <2>3. DOMAIN s = 1..k
      BY <1>3
    <2>4. p < q => s[p] < s[q]
      BY <1>3, <2>3
    <2>5. q < p => s[q] < s[p]
      BY <1>3, <2>3
    <2> QED BY <2>1, <2>2, <2>4, <2>5
  <1>6. Cardinality(1..k) = k
    BY <1>4, FS_Interval
  <1>7. s \in Surjection(1..k, S)
    BY <1>1, <1>5, <1>6, FS_Injection DEF k
  <1>8. \A x \in S : \E p \in 1..k : s[p] = x
    BY <1>7 DEF Surjection
  <1> QED BY <1>1, <1>3, <1>8 DEF Lists, k, s

-----------------------------------------------------------------------------
(* The boxes before the sort. *)

LEMMA PassesKept == ASSUME input' = input, NEW h PROVE Passing(h)' = Passing(h)
BY DEF Passing, Passes, MaxClass

LEMMA FoundKept == ASSUME input' = input, NEW h PROVE Found(h)' = Found(h)
  <1>1. Passing(h)' = Passing(h)
    BY PassesKept
  <1>2. Ascending(Passing(h))' = Ascending(Passing(h))
    BY <1>1
  <1>3. \A n : BoxOf(n, h)' = BoxOf(n, h)
    BY DEF BoxOf, MaxClass, Joint
  <1> QED BY <1>2, <1>3 DEF Found

LEMMA ProposedKept == ASSUME input' = input PROVE Proposed' = Proposed
  <1>1. \A h : Found(h)' = Found(h)
    BY FoundKept
  <1> QED BY <1>1 DEF Proposed

(* g[k] is the first k sequences of s behind each other.                  *)
Chain(g, s, n) == g = [k \in 1..n |-> IF k = 1 THEN s[k] ELSE g[k - 1] \o s[k]]

LEMMA ChainExists ==
    ASSUME NEW s
    PROVE  \A n \in Nat : \E g : Chain(g, s, n)
  <1> DEFINE None == {n \in Nat : ~ \E g : Chain(g, s, n)}
  <1>1. SUFFICES ASSUME None # {} PROVE FALSE
    OBVIOUS
  <1>2. PICK n \in None : \A m \in None : n <= m
    BY <1>1, Least
  <1>3. CASE n = 0
    <2>1. Chain(<<>>, s, n)
      BY <1>3 DEF Chain
    <2> QED BY <2>1
  <1>4. CASE n # 0
    <2>1. n - 1 \in Nat /\ n - 1 \notin None
      BY <1>2, <1>4
    <2>2. PICK g : Chain(g, s, n - 1)
      BY <2>1
    <2> DEFINE f == [k \in 1..n |-> IF k = n THEN (IF n = 1 THEN s[n] ELSE g[n - 1] \o s[n]) ELSE g[k]]
    <2>3. ASSUME NEW k \in 1..n PROVE f[k] = IF k = 1 THEN s[k] ELSE f[k - 1] \o s[k]
      <3>1. CASE k = n
        <4>1. n # 1 => f[n - 1] = g[n - 1]
          BY <2>1
        <4> QED BY <3>1, <4>1
      <3>2. CASE k # n
        <4>1. k \in 1..(n - 1) /\ f[k] = g[k]
          BY <2>1, <3>2
        <4>2. g[k] = IF k = 1 THEN s[k] ELSE g[k - 1] \o s[k]
          BY <2>2, <4>1 DEF Chain
        <4>3. k # 1 => k - 1 \in 1..n /\ k - 1 # n
          BY <2>1, <3>2
        <4>4. k # 1 => f[k - 1] = g[k - 1]
          BY <4>3
        <4> QED BY <4>1, <4>2, <4>4
      <3> QED BY <3>1, <3>2
    <2>4. Chain(f, s, n)
      BY <2>3 DEF Chain
    <2> QED BY <2>4
  <1> QED BY <1>3, <1>4

(* The boxes of the first heads.                                           *)
Flat == CHOOSE f : Chain(f, [h \in DOMAIN Heads |-> Found(h)], Len(Heads))
Upto(h) == IF h = 0 THEN <<>> ELSE Flat[h]

LEMMA FlatIs ==
    /\ \A h \in 1..Len(Heads) : Upto(h) = IF h = 1 THEN Found(h) ELSE Upto(h - 1) \o Found(h)
    /\ Proposed = Upto(Len(Heads))
  <1> DEFINE s == [h \in DOMAIN Heads |-> Found(h)]
  <1>1. Len(Heads) \in Nat \ {0} /\ DOMAIN Heads = 1..Len(Heads)
    BY PostProcessAssumption
  <1>2. Len(s) = Len(Heads)
    BY <1>1
  <1>3. \E f : Chain(f, s, Len(Heads))
    BY <1>1, ChainExists
  <1>4. Chain(Flat, s, Len(Heads))
    BY <1>3 DEF Flat
  <1>5. FlattenSeq(s) = Flat[Len(Heads)]
    BY <1>1, <1>2 DEF FlattenSeq, Flat, Chain
  <1>6. Proposed = Flat[Len(Heads)]
    BY <1>5 DEF Proposed
  <1>7. ASSUME NEW h \in 1..Len(Heads)
        PROVE  Upto(h) = IF h = 1 THEN Found(h) ELSE Upto(h - 1) \o Found(h)
    <2>1. Flat[h] = IF h = 1 THEN s[h] ELSE Flat[h - 1] \o s[h]
      BY <1>4 DEF Chain
    <2>2. s[h] = Found(h)
      BY <1>1
    <2>3. h # 0 /\ (h # 1 => h - 1 # 0)
      BY <1>1
    <2> QED BY <2>1, <2>2, <2>3 DEF Upto
  <1> QED BY <1>1, <1>6, <1>7 DEF Upto

LEMMA UptoKept == ASSUME input' = input, NEW h PROVE Upto(h)' = Upto(h) /\ Flat' = Flat
  <1>1. \A k : Found(k)' = Found(k)
    BY FoundKept
  <1>2. Flat' = Flat
    BY <1>1 DEF Flat
  <1> QED BY <1>2 DEF Upto

(* The cells of each head, and the boxes they become.                      *)
InputOK == \A h \in DOMAIN Heads : /\ DOMAIN input[h] = 1..Heads[h]
                                   /\ \A n \in 1..Heads[h] : input[h][n] \in Cell
Boxed == [id : Class, prop : Int]

LEMMA InputInit == Init => InputOK
  <1> SUFFICES ASSUME Init, NEW h \in DOMAIN Heads
               PROVE  /\ DOMAIN input[h] = 1..Heads[h]
                      /\ \A n \in 1..Heads[h] : input[h][n] \in Cell
    BY DEF InputOK
  <1>1. Heads[h] \in Nat
    BY PostProcessAssumption
  <1>2. CASE input \in Inputs
    <2>1. input[h] \in UNION {[1..n -> Cell] : n \in ToSet(Heads)} /\ Len(input[h]) = Heads[h]
      BY <1>2 DEF Inputs
    <2>2. \A n \in ToSet(Heads) : n \in Nat
      BY PostProcessAssumption DEF ToSet
    <2>3. PICK n \in Nat : input[h] \in [1..n -> Cell]
      BY <2>1, <2>2
    <2>4. n = Heads[h]
      BY <2>1, <2>3
    <2> QED BY <2>3, <2>4
  <1>3. CASE input \in Alike
    <2>1. PICK cell \in Cell : input = [g \in DOMAIN Heads |-> [n \in 1..Heads[g] |-> cell]]
      BY <1>3 DEF Alike
    <2>2. input[h] = [n \in 1..Heads[h] |-> cell]
      BY <2>1
    <2> QED BY <2>2
  <1> QED BY <1>2, <1>3 DEF Init

LEMMA MaxClassIs ==
    ASSUME NEW cell \in Cell
    PROVE  MaxClass(cell) \in Class
  <1>1. \A k \in Class : cell.prob[k] \in Score /\ cell.prob[k] \in Int8
    BY PostProcessAssumption DEF Cell
  <1>2. OBJ_CLASS_NUM \in Nat \ {0}
    BY PostProcessAssumption
  <1> DEFINE T == {cell.prob[k] + 128 : k \in Class}
  <1>3. \A k \in Class : cell.prob[k] + 128 \in 0..255
    BY <1>1 DEF Int8
  <1>4. T \in SUBSET (0..255) /\ T # {}
    BY <1>2, <1>3 DEF Class
  <1>5. PICK m \in T : \A y \in T : y <= m
    <2> HIDE DEF T
    <2>1. 255 \in Nat
      OBVIOUS
    <2> QED BY <1>4, <2>1, MaxIs
  <1> DEFINE K == {k \in Class : cell.prob[k] + 128 = m}
  <1>6. K \in SUBSET Nat /\ K # {}
    BY <1>5 DEF Class
  <1>7. PICK k \in K : \A l \in K : k <= l
    BY <1>6, Least
  <1>8. \A l \in Class : cell.prob[l] <= cell.prob[k]
    <2> SUFFICES ASSUME NEW l \in Class PROVE cell.prob[l] <= cell.prob[k]
      OBVIOUS
    <2>1. cell.prob[l] + 128 <= m /\ cell.prob[k] + 128 = m
      BY <1>5, <1>7
    <2>2. cell.prob[l] \in Int /\ cell.prob[k] \in Int
      BY <1>1, <1>7 DEF Int8
    <2> QED BY <2>1, <2>2
  <1>9. \A l \in 1..(k - 1) : cell.prob[l] < cell.prob[k]
    <2> SUFFICES ASSUME NEW l \in 1..(k - 1) PROVE cell.prob[l] < cell.prob[k]
      OBVIOUS
    <2>1. k \in Class /\ l \in Class /\ ~(k <= l)
      BY <1>2, <1>7 DEF Class
    <2>2. cell.prob[l] + 128 # m /\ cell.prob[k] + 128 = m
      BY <1>7, <2>1
    <2>3. cell.prob[l] \in Int /\ cell.prob[k] \in Int
      <3>1. Int8 \subseteq Int
        BY DEF Int8
      <3> QED BY <1>1, <2>1, <3>1
    <2>4. cell.prob[l] <= cell.prob[k]
      BY <1>8, <2>1
    <2> QED BY <2>2, <2>3, <2>4
  <1>10. \E j \in Class : /\ \A l \in Class : cell.prob[l] <= cell.prob[j]
                          /\ \A l \in 1..(j - 1) : cell.prob[l] < cell.prob[j]
    BY <1>7, <1>8, <1>9
  <1> QED BY <1>10 DEF MaxClass

LEMMA BoxType ==
    ASSUME InputOK, NEW h \in DOMAIN Heads, NEW n \in 1..Heads[h]
    PROVE  BoxOf(n, h) \in Boxed
  <1>1. input[h][n] \in Cell
    BY DEF InputOK
  <1> DEFINE cell == input[h][n]
  <1>2. cell.conf \in Score /\ cell.prob[MaxClass(cell)] \in Score /\ MaxClass(cell) \in Class
    BY <1>1, MaxClassIs DEF Cell
  <1>3. sigmoid(Logit(cell.conf, h)) \in Int /\ sigmoid(Logit(cell.prob[MaxClass(cell)], h)) \in Int
    BY <1>2, PostProcessAssumption DEF Logit
  <1> QED BY <1>2, <1>3 DEF BoxOf, Joint, Boxed

LEMMA FoundType ==
    ASSUME InputOK, NEW h \in DOMAIN Heads
    PROVE  /\ Found(h) \in Seq(Boxed) /\ Len(Found(h)) = Cardinality(Passing(h))
           /\ Passing(h) \in SUBSET (1..Heads[h]) /\ IsFiniteSet(Passing(h))
  <1>1. Heads[h] \in Nat /\ DOMAIN input[h] = 1..Heads[h]
    BY PostProcessAssumption DEF InputOK
  <1>2. Passing(h) \in SUBSET (1..Heads[h])
    BY <1>1 DEF Passing
  <1> DEFINE cells == Ascending(Passing(h))
             k == Cardinality(Passing(h))
  <1>3. Lists(cells, Passing(h)) /\ IsFiniteSet(Passing(h)) /\ k \in Nat
    BY <1>1, <1>2, AscendingIs
  <1>4. cells \in [1..k -> Passing(h)]
    BY <1>3 DEF Lists
  <1>5. \A b \in 1..k : BoxOf(cells[b], h) \in Boxed
    BY <1>2, <1>4, BoxType
  <1>6. Found(h) = [b \in 1..k |-> BoxOf(cells[b], h)]
    BY <1>4 DEF Found
  <1> HIDE DEF cells, k
  <1>7. Found(h) \in [1..k -> Boxed]
    BY <1>5, <1>6
  <1>8. k \in Nat
    BY <1>3
  <1>9. Found(h) \in Seq(Boxed) /\ Len(Found(h)) = k
    BY <1>7, <1>8
  <1> QED BY <1>2, <1>3, <1>9 DEF k

LEMMA UptoType ==
    ASSUME InputOK
    PROVE  \A h \in 0..Len(Heads) : Upto(h) \in Seq(Boxed)
  <1>1. Len(Heads) \in Nat \ {0} /\ DOMAIN Heads = 1..Len(Heads)
    BY PostProcessAssumption
  <1> DEFINE T == {h \in 0..Len(Heads) : Upto(h) \notin Seq(Boxed)}
  <1>2. SUFFICES ASSUME T # {} PROVE FALSE
    OBVIOUS
  <1>3. T \in SUBSET Nat
    BY <1>1
  <1>4. PICK h \in T : \A k \in T : h <= k
    BY <1>2, <1>3, Least
  <1>5. h # 0
    BY <1>4 DEF Upto
  <1>6. h \in 1..Len(Heads) /\ h - 1 \in 0..Len(Heads) /\ ~(h <= h - 1)
    BY <1>1, <1>4, <1>5
  <1>7. Upto(h - 1) \in Seq(Boxed)
    BY <1>4, <1>6
  <1>8. Found(h) \in Seq(Boxed)
    BY <1>1, <1>6, FoundType
  <1>9. Upto(h) = IF h = 1 THEN Found(h) ELSE Upto(h - 1) \o Found(h)
    BY <1>6, FlatIs
  <1>10. Upto(h - 1) \o Found(h) \in Seq(Boxed)
    BY <1>7, <1>8
  <1>11. Upto(h) \in Seq(Boxed)
    BY <1>8, <1>9, <1>10
  <1> QED BY <1>4, <1>11

(* The boxes found so far are in the two arrays, head after head.          *)
Early    == {"init", "labels", "propose"}
Ids(s)   == [b \in DOMAIN s |-> s[b].id]
Props(s) == [b \in DOMAIN s |-> s[b].prop]

ProposeInv ==
    /\ InputOK /\ head \in 1..Len(Heads)
    /\ pc \in {"init", "labels"} => head = 1
    /\ pc \in Early => /\ classId = Ids(Upto(head - 1)) /\ objProbs = Props(Upto(head - 1))
                       /\ stack = <<>> /\ low = 0 /\ high = 0
                       /\ overlap = {} /\ filterId = 0 /\ i = 0 /\ group = <<>>
    /\ pc \notin Early => classId = Ids(Proposed)

LEMMA IdsType ==
    ASSUME NEW s \in Seq(Boxed)
    PROVE  /\ Ids(s) \in Seq(Class) /\ Len(Ids(s)) = Len(s)
           /\ Props(s) \in Seq(Int) /\ Len(Props(s)) = Len(s)
           /\ Props(s) \in [1..Len(s) -> Int] /\ Ids(s) \in [1..Len(s) -> Class]
  <1>1. PICK n \in Nat : n = Len(s)
    OBVIOUS
  <1>2. DOMAIN s = 1..n /\ \A b \in 1..n : s[b] \in Boxed
    BY <1>1
  <1>3. \A b \in 1..n : s[b].id \in Class /\ s[b].prop \in Int
    BY <1>2 DEF Boxed
  <1>4. Ids(s) \in [1..n -> Class] /\ Props(s) \in [1..n -> Int]
    BY <1>2, <1>3 DEF Ids, Props
  <1>5. Ids(s) \in Seq(Class) /\ Len(Ids(s)) = n
    BY <1>4
  <1>6. Props(s) \in Seq(Int) /\ Len(Props(s)) = n
    BY <1>4
  <1> QED BY <1>1, <1>4, <1>5, <1>6

LEMMA IdsConcat ==
    ASSUME NEW s \in Seq(Boxed), NEW t \in Seq(Boxed)
    PROVE  Ids(s \o t) = Ids(s) \o Ids(t) /\ Props(s \o t) = Props(s) \o Props(t)
  <1>1. Ids(s) \in Seq(Class) /\ Ids(t) \in Seq(Class) /\ Len(Ids(s)) = Len(s) /\ Len(Ids(t)) = Len(t)
    BY IdsType
  <1>2. Props(s) \in Seq(Int) /\ Props(t) \in Seq(Int) /\ Len(Props(s)) = Len(s) /\ Len(Props(t)) = Len(t)
    BY IdsType
  <1>3. s \o t \in Seq(Boxed) /\ Len(s \o t) = Len(s) + Len(t) /\ DOMAIN (s \o t) = 1..(Len(s) + Len(t))
    OBVIOUS
  <1>4. DOMAIN s = 1..Len(s) /\ DOMAIN t = 1..Len(t) /\ Len(s) \in Nat /\ Len(t) \in Nat
    OBVIOUS
  <1>5. Ids(s) \o Ids(t) \in Seq(Class) /\ DOMAIN (Ids(s) \o Ids(t)) = 1..(Len(s) + Len(t))
    <2>1. PICK x \in Seq(Class), y \in Seq(Class) : x = Ids(s) /\ y = Ids(t)
      BY <1>1
    <2>2. x \o y \in Seq(Class) /\ Len(x \o y) = Len(x) + Len(y)
      OBVIOUS
    <2>3. DOMAIN (x \o y) = 1..Len(x \o y)
      BY <2>2
    <2> QED BY <1>1, <2>1, <2>2, <2>3
  <1>6. Props(s) \o Props(t) \in Seq(Int) /\ DOMAIN (Props(s) \o Props(t)) = 1..(Len(s) + Len(t))
    <2>1. PICK x \in Seq(Int), y \in Seq(Int) : x = Props(s) /\ y = Props(t)
      BY <1>2
    <2>2. x \o y \in Seq(Int) /\ Len(x \o y) = Len(x) + Len(y)
      OBVIOUS
    <2>3. DOMAIN (x \o y) = 1..Len(x \o y)
      BY <2>2
    <2> QED BY <1>2, <2>1, <2>2, <2>3
  <1>7. ASSUME NEW b \in 1..(Len(s) + Len(t))
        PROVE  /\ (Ids(s) \o Ids(t))[b] = (s \o t)[b].id
               /\ (Props(s) \o Props(t))[b] = (s \o t)[b].prop
    <2>1. CASE b <= Len(s)
      <3>1. b \in DOMAIN s /\ (s \o t)[b] = s[b]
        BY <1>4, <2>1
      <3>2. (Ids(s) \o Ids(t))[b] = Ids(s)[b] /\ (Props(s) \o Props(t))[b] = Props(s)[b]
        BY <1>1, <1>2, <1>4, <2>1
      <3> QED BY <3>1, <3>2 DEF Ids, Props
    <2>2. CASE ~(b <= Len(s))
      <3>1. b - Len(s) \in DOMAIN t /\ (s \o t)[b] = t[b - Len(s)]
        BY <1>4, <2>2
      <3>2. (Ids(s) \o Ids(t))[b] = Ids(t)[b - Len(s)] /\ (Props(s) \o Props(t))[b] = Props(t)[b - Len(s)]
        BY <1>1, <1>2, <1>4, <2>2
      <3> QED BY <3>1, <3>2 DEF Ids, Props
    <2> QED BY <2>1, <2>2
  <1>8. Ids(s \o t) = [b \in 1..(Len(s) + Len(t)) |-> (s \o t)[b].id]
    BY <1>3 DEF Ids
  <1>9. Props(s \o t) = [b \in 1..(Len(s) + Len(t)) |-> (s \o t)[b].prop]
    BY <1>3 DEF Props
  <1>10. Ids(s) \o Ids(t) = [b \in 1..(Len(s) + Len(t)) |-> (Ids(s) \o Ids(t))[b]]
    <2>1. PICK x \in Seq(Class) : x = Ids(s) \o Ids(t) /\ DOMAIN x = 1..(Len(s) + Len(t))
      BY <1>5
    <2>2. x = [b \in DOMAIN x |-> x[b]]
      OBVIOUS
    <2> QED BY <2>1, <2>2
  <1>11. Props(s) \o Props(t) = [b \in 1..(Len(s) + Len(t)) |-> (Props(s) \o Props(t))[b]]
    <2>1. PICK x \in Seq(Int) : x = Props(s) \o Props(t) /\ DOMAIN x = 1..(Len(s) + Len(t))
      BY <1>6
    <2>2. x = [b \in DOMAIN x |-> x[b]]
      OBVIOUS
    <2> QED BY <2>1, <2>2
  <1> QED BY <1>7, <1>8, <1>9, <1>10, <1>11

LEMMA ProposeInit == Init => ProposeInv
  <1> SUFFICES ASSUME Init PROVE ProposeInv
    OBVIOUS
  <1>1. InputOK
    BY InputInit
  <1>2. 1 \in 1..Len(Heads)
    BY PostProcessAssumption
  <1>3. Ids(Upto(0)) = <<>> /\ Props(Upto(0)) = <<>>
    BY DEF Upto, Ids, Props
  <1> QED BY <1>1, <1>2, <1>3 DEF Init, ProposeInv, Early

(* A head's boxes go behind those of the heads before it.                  *)
LEMMA ProposeStep ==
    ASSUME ProposeInv, pc = "propose", generate_proposals
    PROVE  classId' = Ids(Upto(head)) /\ objProbs' = Props(Upto(head)) /\ Upto(head) \in Seq(Boxed)
  <1>1. head \in 1..Len(Heads) /\ head \in DOMAIN Heads /\ head \in 0..Len(Heads) /\ head - 1 \in 0..Len(Heads)
    BY PostProcessAssumption DEF ProposeInv
  <1>2. Found(head) \in Seq(Boxed) /\ Upto(head) \in Seq(Boxed) /\ Upto(head - 1) \in Seq(Boxed)
    BY <1>1, FoundType, UptoType DEF ProposeInv
  <1>3. Upto(head) = Upto(head - 1) \o Found(head)
    <2>1. CASE head = 1
      <3>1. Upto(head - 1) = <<>> /\ Upto(head) = Found(head)
        BY <1>1, <2>1, FlatIs DEF Upto
      <3> QED BY <1>2, <3>1
    <2>2. CASE head # 1
      BY <1>1, <2>2, FlatIs
    <2> QED BY <2>1, <2>2
  <1>4. classId' = classId \o Ids(Found(head)) /\ objProbs' = objProbs \o Props(Found(head))
    BY DEF generate_proposals, Ids, Props
  <1>5. classId = Ids(Upto(head - 1)) /\ objProbs = Props(Upto(head - 1))
    BY DEF ProposeInv, Early
  <1> QED BY <1>2, <1>3, <1>4, <1>5, IdsConcat

InputSteps == post_process \/ load \/ other_calls \/ other_loads \/ deinitPostProcess

LEMMA ProposeNext ==
    ASSUME ProposeInv, [Next]_vars
    PROVE  ProposeInv'
  <1>1. input' = input
    BY DEF Next, vars, callVars, boxVars, post_process, load, other_calls, other_loads, deinitPostProcess, Detect,
       generate_proposals, qsort_descent_inplace, down, up, place, nms_sorted_bboxes, collect, Report
  <1>2. InputOK' /\ Proposed' = Proposed /\ \A h : Upto(h)' = Upto(h)
    BY <1>1, ProposedKept, UptoKept DEF ProposeInv, InputOK
  <1>3. CASE UNCHANGED vars
    BY <1>2, <1>3 DEF ProposeInv, vars, callVars, boxVars, sortVars
  <1>4. CASE InputSteps
    <2>1. UNCHANGED <<head, classId, objProbs, stack, low, high, overlap, filterId, i, group>>
      BY <1>4 DEF InputSteps, post_process, load, other_calls, other_loads, deinitPostProcess, callVars, boxVars, sortVars
    <2>2. \/ pc' = pc
          \/ pc \in {"init", "labels"} /\ pc' \in Early
      BY <1>4 DEF InputSteps, post_process, load, other_calls, other_loads, deinitPostProcess, callVars, Early
    <2> QED BY <1>2, <2>1, <2>2 DEF ProposeInv, Early
  <1>5. CASE generate_proposals
    <2>1. pc = "propose" /\ head \in 1..Len(Heads) /\ Len(Heads) \in Nat
      BY <1>5, PostProcessAssumption DEF generate_proposals, ProposeInv
    <2>2. classId' = Ids(Upto(head)) /\ objProbs' = Props(Upto(head))
      BY <1>5, <2>1, ProposeStep
    <2>3. CASE head < Len(Heads)
      <3>1. head' = head + 1 /\ pc' = pc /\ UNCHANGED <<stack, low, high, overlap, filterId, i, group>>
        BY <1>5, <2>3 DEF generate_proposals
      <3>2. head + 1 - 1 = head /\ head + 1 \in 1..Len(Heads)
        BY <2>1, <2>3
      <3>3. Upto(head - 1)' = Upto(head)
        <4>1. Flat' = Flat
          BY <1>1, UptoKept
        <4>2. head' - 1 = head
          BY <2>1, <3>1, <3>2
        <4> QED BY <4>1, <4>2 DEF Upto
      <3>4. classId' = Ids(Upto(head - 1))' /\ objProbs' = Props(Upto(head - 1))'
        BY <2>2, <3>3 DEF Ids, Props
      <3> QED BY <1>2, <2>1, <3>1, <3>2, <3>4 DEF ProposeInv, Early
    <2>4. CASE ~(head < Len(Heads))
      <3>1. head' = head /\ pc' \in {"done", "sort"}
        BY <1>5, <2>4 DEF generate_proposals
      <3>2. Upto(head) = Proposed
        BY <2>1, <2>4, FlatIs
      <3> QED BY <1>2, <2>1, <2>2, <3>1, <3>2 DEF ProposeInv, Early, Ids
    <2> QED BY <2>3, <2>4
  <1>6. CASE qsort_descent_inplace \/ down \/ up \/ place \/ nms_sorted_bboxes \/ collect
    <2>1. pc \notin Early /\ pc' \notin Early /\ head' = head /\ classId' = classId
      BY <1>6 DEF qsort_descent_inplace, down, up, place, nms_sorted_bboxes, NextTurn, collect, Report, Early, boxVars
    <2> QED BY <1>2, <2>1 DEF ProposeInv, Early, Ids
  <1> QED BY <1>3, <1>4, <1>5, <1>6 DEF Next, Detect, InputSteps

-----------------------------------------------------------------------------
(* The sort.  While the key is out of the array it belongs into the hole,  *)
(* so that the boxes always are in some order.                             *)
Sorting == pc \in {"down", "up", "place"}
Hole    == IF pc = "up" THEN high ELSE low
Order   == IF Sorting THEN [indexArray EXCEPT ![Hole] = key_index] ELSE indexArray

(* The calls to come have sides that lie behind each other; two places     *)
(* that are not in one of them are in order.                               *)
Apart(n, st) ==
    /\ st \in Seq(Nat \X Nat)
    /\ \A s \in 1..Len(st) : 1 <= st[s][1] /\ st[s][2] <= n
    /\ \A s, t \in 1..Len(st) : s < t => st[s][2] < st[t][1]
Inside(p, q, st) == \E s \in 1..Len(st) : st[s][1] <= p /\ q <= st[s][2]
Settled(n, w, O, st) ==
    \A p, q \in 1..n : p < q => w[O[p]] >= w[O[q]] \/ Inside(p, q, st)
Onto(n, O) == \A c \in 1..n : \E p \in 1..n : O[p] = c

(* The side in hand is l to r, with k more to come.                        *)
InHand(st, k, l, r) == Len(st) = k + 1 /\ l = st[1][1] /\ r = st[1][2]
Swapped(n, O, N, x, y) == N[x] = O[y] /\ N[y] = O[x] /\ \A p \in 1..n : p # x /\ p # y => N[p] = O[p]
Parted(w, O, l, m, r) == /\ \A p \in l..(m - 1) : w[O[p]] >= w[O[m]]
                         /\ \A p \in (m + 1)..r : w[O[p]] <= w[O[m]]
Split(st, new, l, m, r) == new = <<<<l, m - 1>>, <<m + 1, r>>>> \o Tail(st)

LEMMA Sides ==
    ASSUME NEW n \in Nat, NEW st, Apart(n, st), NEW s \in 1..Len(st)
    PROVE  st[s][1] \in Nat /\ st[s][2] \in Nat /\ 1 <= st[s][1] /\ st[s][2] <= n
  <1>1. st \in Seq(Nat \X Nat) /\ 1 <= st[s][1] /\ st[s][2] <= n
    BY DEF Apart
  <1>2. st[s] \in Nat \X Nat
    BY <1>1
  <1> QED BY <1>1, <1>2

(* Two places of the side in hand may change their boxes.                  *)
LEMMA SwapKeeps ==
    ASSUME NEW n \in Nat, NEW w \in [1..n -> Int], NEW st, Apart(n, st),
           NEW k \in Nat, NEW l \in Nat, NEW r \in Nat, InHand(st, k, l, r),
           NEW O \in [1..n -> 1..n], NEW N \in [1..n -> 1..n], Settled(n, w, O, st), Onto(n, O),
           NEW x \in l..r, NEW y \in l..r,
           Swapped(n, O, N, x, y)
    PROVE  Settled(n, w, N, st) /\ Onto(n, N)
  <1>1. 1 <= l /\ r <= n /\ 1 \in 1..Len(st)
    <2>1. 1 \in 1..Len(st)
      BY DEF InHand
    <2> QED BY <2>1, Sides DEF InHand
  <1>2. x \in l..r /\ y \in l..r /\ x \in 1..n /\ y \in 1..n
    BY <1>1
  <1>3. \A p, q \in 1..n : (p < l /\ q \in l..r) \/ (p \in l..r /\ r < q) => ~Inside(p, q, st)
    <2> SUFFICES ASSUME NEW p \in 1..n, NEW q \in 1..n, (p < l /\ q \in l..r) \/ (p \in l..r /\ r < q),
                        NEW s \in 1..Len(st), st[s][1] <= p /\ q <= st[s][2]
                 PROVE  FALSE
      BY DEF Inside
    <2>1. PICK a \in Nat, b \in Nat : a = st[s][1] /\ b = st[s][2]
      BY Sides
    <2>2. s # 1 => 1 < s
      BY DEF InHand
    <2>3. s # 1 => r < a
      BY <1>1, <2>1, <2>2 DEF Apart, InHand
    <2>4. s = 1 => a = l /\ b = r
      BY <2>1 DEF InHand
    <2>5. a <= p /\ q <= b
      BY <2>1
    <2>6. CASE s = 1
      BY <2>4, <2>5, <2>6
    <2>7. CASE s # 1
      <3>1. r < p
        BY <2>3, <2>5, <2>7
      <3> QED BY <3>1
    <2> QED BY <2>6, <2>7
  <1>4. \A p \in 1..n : /\ p \notin l..r => N[p] = O[p]
                        /\ p \in l..r => \E m \in 1..n : m \in l..r /\ N[p] = O[m]
    BY <1>2 DEF Swapped
  <1>5. ASSUME NEW p \in 1..n, NEW q \in 1..n, p < q
        PROVE  w[N[p]] >= w[N[q]] \/ Inside(p, q, st)
    <2>1. CASE p \in l..r /\ q \in l..r
      <3>1. st[1][1] <= p /\ q <= st[1][2]
        BY <2>1 DEF InHand
      <3> QED BY <1>1, <3>1 DEF Inside
    <2>2. CASE p \notin l..r /\ q \notin l..r
      BY <1>4, <1>5, <2>2 DEF Settled
    <2>3. CASE p \notin l..r /\ q \in l..r
      <3>1. p < l
        BY <1>5, <2>3
      <3>2. PICK m \in 1..n : m \in l..r /\ N[q] = O[m]
        BY <1>4, <2>3
      <3>3. p < m /\ ~Inside(p, m, st)
        BY <1>3, <3>1, <3>2
      <3> QED BY <1>4, <2>3, <3>2, <3>3 DEF Settled
    <2>4. CASE p \in l..r /\ q \notin l..r
      <3>1. r < q
        BY <1>5, <2>4
      <3>2. PICK m \in 1..n : m \in l..r /\ N[p] = O[m]
        BY <1>4, <2>4
      <3>3. m < q /\ ~Inside(m, q, st)
        BY <1>3, <3>1, <3>2
      <3> QED BY <1>4, <2>4, <3>2, <3>3 DEF Settled
    <2> QED BY <2>1, <2>2, <2>3, <2>4
  <1>6. Onto(n, N)
    <2> SUFFICES ASSUME NEW c \in 1..n PROVE \E p \in 1..n : N[p] = c
      BY DEF Onto
    <2>1. PICK p \in 1..n : O[p] = c
      BY DEF Onto
    <2> QED BY <1>2, <2>1 DEF Swapped
  <1> QED BY <1>5, <1>6 DEF Settled

(* When the key is in its place, the side falls in two.                    *)
LEMMA SplitSides ==
    ASSUME NEW n \in Nat, NEW st, Apart(n, st),
           NEW k \in Nat, NEW l \in Nat, NEW r \in Nat, InHand(st, k, l, r),
           NEW m \in l..r, NEW new, Split(st, new, l, m, r)
    PROVE  /\ Apart(n, new) /\ Len(new) = k + 2
           /\ new[1] = <<l, m - 1>> /\ new[2] = <<m + 1, r>>
           /\ \A s \in 3..(k + 2) : new[s] = st[s - 1]
  <1>1. 1 <= l /\ r <= n /\ 1 \in 1..Len(st)
    <2>1. 1 \in 1..Len(st)
      BY DEF InHand
    <2> QED BY <2>1, Sides DEF InHand
  <1>2. m \in Nat /\ m \in l..r /\ m \in 1..n /\ m - 1 \in Nat
    BY <1>1
  <1>3. st \in Seq(Nat \X Nat)
    BY DEF Apart
  <1>4. Tail(st) \in Seq(Nat \X Nat) /\ Len(Tail(st)) = k /\ \A s \in 1..k : Tail(st)[s] = st[s + 1]
    BY <1>3 DEF InHand
  <1>5. <<l, m - 1>> \in Nat \X Nat /\ <<m + 1, r>> \in Nat \X Nat
    BY <1>2
  <1>6. PICK a \in Nat \X Nat, b \in Nat \X Nat, tail \in Seq(Nat \X Nat) :
            a = <<l, m - 1>> /\ b = <<m + 1, r>> /\ tail = Tail(st)
    BY <1>4, <1>5
  <1>7. PICK two \in Seq(Nat \X Nat) : two = <<a, b>>
    <2>1. <<a, b>> \in Seq(Nat \X Nat)
      OBVIOUS
    <2> QED BY <2>1
  <1>8. Len(two) = 2 /\ two[1] = a /\ two[2] = b /\ new = two \o tail /\ Len(tail) = k
    BY <1>4, <1>6, <1>7 DEF Split
  <1>9. two \o tail \in Seq(Nat \X Nat) /\ Len(two \o tail) = Len(two) + Len(tail)
    OBVIOUS
  <1>10. (two \o tail)[1] = a /\ (two \o tail)[2] = b
    <2>1. 1 \in 1..Len(two) /\ 2 \in 1..Len(two)
      BY <1>8
    <2>2. \A s \in 1..Len(two) : (two \o tail)[s] = two[s]
      OBVIOUS
    <2> QED BY <1>8, <2>1, <2>2
  <1>11. ASSUME NEW s \in 3..(k + 2) PROVE (two \o tail)[s] = st[s - 1]
    <2>1. s - 2 \in 1..k /\ (s - 2) + 1 = s - 1
      OBVIOUS
    <2>2. s \in 1..(Len(two) + Len(tail)) /\ ~(s <= Len(two))
      BY <1>8
    <2>3. (two \o tail)[s] = tail[s - Len(two)]
      BY <2>2
    <2> QED BY <1>4, <1>6, <1>8, <2>1, <2>3
  <1>12. /\ new \in Seq(Nat \X Nat) /\ Len(new) = k + 2
         /\ new[1] = <<l, m - 1>> /\ new[2] = <<m + 1, r>>
         /\ \A s \in 3..(k + 2) : new[s] = st[s - 1]
    <2>1. PICK cat : cat = two \o tail
      OBVIOUS
    <2>2. cat \in Seq(Nat \X Nat) /\ Len(cat) = k + 2 /\ cat[1] = a /\ cat[2] = b
      BY <1>8, <1>9, <1>10, <2>1
    <2>3. \A s \in 3..(k + 2) : cat[s] = st[s - 1]
      BY <1>11, <2>1
    <2> QED BY <1>6, <1>8, <2>1, <2>2, <2>3
  <1>13. \A s \in 1..(k + 2) : s = 1 \/ s = 2 \/ (s \in 3..(k + 2) /\ s - 1 \in 2..(k + 1))
    OBVIOUS
  <1>14. \A s \in 2..(k + 1) : /\ st[s][1] \in Nat /\ st[s][2] \in Nat /\ 1 <= st[s][1] /\ st[s][2] <= n
                                /\ r < st[s][1]
    <2> SUFFICES ASSUME NEW s \in 2..(k + 1)
                 PROVE  /\ st[s][1] \in Nat /\ st[s][2] \in Nat /\ 1 <= st[s][1] /\ st[s][2] <= n
                        /\ r < st[s][1]
      OBVIOUS
    <2>1. s \in 1..Len(st) /\ 1 < s
      BY DEF InHand
    <2> QED BY <1>1, <2>1, Sides DEF Apart, InHand
  <1>15. /\ new[1][1] = l /\ new[1][2] = m - 1 /\ new[2][1] = m + 1 /\ new[2][2] = r
    BY <1>12
  <1>16. \A s \in 1..(k + 2) : 1 <= new[s][1] /\ new[s][2] <= n
    <2> SUFFICES ASSUME NEW s \in 1..(k + 2) PROVE 1 <= new[s][1] /\ new[s][2] <= n
      OBVIOUS
    <2>1. CASE s = 1
      BY <1>1, <1>2, <1>15, <2>1
    <2>2. CASE s = 2
      BY <1>1, <1>2, <1>15, <2>2
    <2>3. CASE s \in 3..(k + 2) /\ s - 1 \in 2..(k + 1)
      BY <1>12, <1>14, <2>3
    <2> QED BY <1>13, <2>1, <2>2, <2>3
  <1>17. ASSUME NEW s \in 1..(k + 2), NEW t \in 1..(k + 2), s < t
         PROVE  new[s][2] < new[t][1]
    <2>1. CASE t = 2
      <3>1. s = 1
        BY <1>17, <2>1
      <3> QED BY <1>2, <1>15, <2>1, <3>1
    <2>2. CASE t # 2
      <3>1. t \in 3..(k + 2) /\ t - 1 \in 2..(k + 1)
        BY <1>17, <2>2
      <3>2. r < new[t][1] /\ new[t][1] \in Nat
        BY <1>12, <1>14, <3>1
      <3>3. CASE s \in {1, 2}
        <4>1. new[s][2] = m - 1 \/ new[s][2] = r
          BY <1>15, <3>3
        <4>2. m - 1 < new[t][1]
          <5>1. PICK z \in Nat : z = new[t][1] /\ r < z
            BY <3>2
          <5>2. m \in Nat /\ m <= r
            BY <1>2
          <5> QED BY <5>1, <5>2
        <4> QED BY <3>2, <4>1, <4>2
      <3>4. CASE s \notin {1, 2}
        <4>3. s \in 3..(k + 2) /\ s - 1 \in 1..(k + 1) /\ t - 1 \in 1..(k + 1)
          BY <3>1, <3>4
        <4>4. s - 1 < t - 1
          BY <1>17
        <4>1. s \in 3..(k + 2) /\ s - 1 \in 1..Len(st) /\ t - 1 \in 1..Len(st) /\ s - 1 < t - 1
          BY <4>3, <4>4 DEF InHand
        <4>2. st[s - 1][2] < st[t - 1][1]
          BY <4>1 DEF Apart
        <4> QED BY <1>12, <3>1, <4>1, <4>2
      <3> QED BY <3>3, <3>4
    <2> QED BY <2>1, <2>2
  <1> QED BY <1>12, <1>16, <1>17 DEF Apart

LEMMA SplitKeeps ==
    ASSUME NEW n \in Nat, NEW w \in [1..n -> Int], NEW st, Apart(n, st),
           NEW k \in Nat, NEW l \in Nat, NEW r \in Nat, InHand(st, k, l, r),
           NEW O \in [1..n -> 1..n], Settled(n, w, O, st), NEW m \in l..r,
           Parted(w, O, l, m, r), NEW new, Split(st, new, l, m, r)
    PROVE  Apart(n, new) /\ Settled(n, w, O, new)
  <1>1. 1 <= l /\ r <= n /\ 1 \in 1..Len(st)
    <2>1. 1 \in 1..Len(st)
      BY DEF InHand
    <2> QED BY <2>1, Sides DEF InHand
  <1>2. m \in l..r /\ m \in 1..n
    BY <1>1
  <1>3. /\ Apart(n, new) /\ Len(new) = k + 2
        /\ new[1] = <<l, m - 1>> /\ new[2] = <<m + 1, r>>
        /\ \A s \in 3..(k + 2) : new[s] = st[s - 1]
    BY SplitSides
  <1>4. new[1][1] = l /\ new[1][2] = m - 1 /\ new[2][1] = m + 1 /\ new[2][2] = r
    BY <1>3
  <1>5. 1 \in 1..Len(new) /\ 2 \in 1..Len(new)
    BY <1>3
  <1>6. ASSUME NEW p \in 1..n, NEW q \in 1..n, p < q
        PROVE  w[O[p]] >= w[O[q]] \/ Inside(p, q, new)
    <2>1. CASE Inside(p, q, st)
      <3>1. PICK s \in 1..Len(st) : st[s][1] <= p /\ q <= st[s][2]
        BY <2>1 DEF Inside
      <3>2. CASE s # 1
        <4>1. s \in 1..(k + 1)
          BY DEF InHand
        <4>2. s + 1 \in 3..(k + 2) /\ (s + 1) - 1 = s
          BY <3>2, <4>1
        <4>3. new[s + 1] = st[s] /\ s + 1 \in 1..Len(new)
          BY <1>3, <4>2
        <4> QED BY <3>1, <4>3 DEF Inside
      <3>3. CASE s = 1
        <4>1. l <= p /\ q <= r
          BY <3>1, <3>3 DEF InHand
        <4>2. CASE q < m
          <5>1. new[1][1] <= p /\ q <= new[1][2]
            BY <1>2, <1>4, <4>1, <4>2
          <5> QED BY <1>5, <5>1 DEF Inside
        <4>3. CASE m < p
          <5>1. new[2][1] <= p /\ q <= new[2][2]
            BY <1>2, <1>4, <4>1, <4>3
          <5> QED BY <1>5, <5>1 DEF Inside
        <4>4. CASE p <= m /\ m <= q
          <5>1. p = m \/ p \in l..(m - 1)
            BY <1>2, <4>1, <4>4
          <5>2. q = m \/ q \in (m + 1)..r
            BY <1>2, <4>1, <4>4
          <5>3. w[O[p]] \in Int /\ w[O[q]] \in Int /\ w[O[m]] \in Int
            BY <1>2
          <5>4. w[O[p]] >= w[O[m]]
            <6>1. w[O[m]] >= w[O[m]]
              BY <5>3
            <6>2. p \in l..(m - 1) => w[O[p]] >= w[O[m]]
              BY DEF Parted
            <6> QED BY <5>1, <6>1, <6>2
          <5>5. w[O[q]] <= w[O[m]]
            <6>1. w[O[m]] <= w[O[m]]
              BY <5>3
            <6>2. q \in (m + 1)..r => w[O[q]] <= w[O[m]]
              BY DEF Parted
            <6> QED BY <5>2, <6>1, <6>2
          <5>6. \A x, y, z \in Int : x >= y /\ z <= y => x >= z
            OBVIOUS
          <5> QED BY <5>3, <5>4, <5>5, <5>6
        <4> QED BY <1>2, <4>2, <4>3, <4>4
      <3> QED BY <3>2, <3>3
    <2>2. CASE ~Inside(p, q, st)
      BY <1>6, <2>2 DEF Settled
    <2> QED BY <2>1, <2>2
  <1> QED BY <1>3, <1>6 DEF Settled

(* The scan has left what is worth the key or more below low and what is   *)
(* worth no more above high.                                               *)
Scanned(w, O, l, r) == /\ \A p \in l..(low - 1) : w[O[p]] >= key
                       /\ \A p \in (high + 1)..r : w[O[p]] <= key
Partition(n, w, l, r) ==
    /\ key_index \in 1..n /\ key = w[key_index]
    /\ low \in l..r /\ high \in l..r /\ low <= high /\ (pc = "place" => low = high)
    /\ Scanned(w, Order, l, r)

SortPcs == {"sort", "down", "up", "place"}
SortOK(n, w) ==
    /\ indexArray \in [1..n -> 1..n] /\ objProbs = [p \in 1..n |-> w[indexArray[p]]]
    /\ Onto(n, Order) /\ Apart(n, stack) /\ Settled(n, w, Order, stack)
    /\ Sorting => \E k, l, r \in Nat : InHand(stack, k, l, r) /\ Partition(n, w, l, r)
Sorted(n, w) == n = validCount /\ n # 0 /\ w = Props(Proposed)
SortInv == pc \in SortPcs => \E n \in Nat : \E w \in [1..n -> Int] : Sorted(n, w) /\ SortOK(n, w)

LEMMA SortOKNext ==
    ASSUME NEW n, NEW w, NEW N, Order' = N,
           indexArray' \in [1..n -> 1..n], objProbs' = [p \in 1..n |-> w[indexArray'[p]]],
           Onto(n, N), Apart(n, stack'), Settled(n, w, N, stack'),
           \/ pc' = "sort"
           \/ /\ pc' \in {"down", "up", "place"}
              /\ \E k, l, r \in Nat : /\ InHand(stack', k, l, r)
                                      /\ key_index' \in 1..n /\ key' = w[key_index']
                                      /\ low' \in l..r /\ high' \in l..r /\ low' <= high'
                                      /\ pc' = "place" => low' = high'
                                      /\ \A p \in l..(low' - 1) : w[N[p]] >= key'
                                      /\ \A p \in (high' + 1)..r : w[N[p]] <= key'
    PROVE  SortOK(n, w)'
  <1>1. Onto(n, Order)'
    BY DEF Onto
  <1>2. Apart(n, stack)'
    BY DEF Apart
  <1>3. Settled(n, w, Order, stack)'
    BY DEF Settled, Inside
  <1>4. CASE pc' = "sort"
    <2>1. ~Sorting'
      BY <1>4 DEF Sorting
    <2> QED BY <1>1, <1>2, <1>3, <2>1 DEF SortOK
  <1>5. CASE pc' # "sort"
    <2>1. PICK k \in Nat, l \in Nat, r \in Nat :
              /\ InHand(stack', k, l, r)
              /\ key_index' \in 1..n /\ key' = w[key_index']
              /\ low' \in l..r /\ high' \in l..r /\ low' <= high'
              /\ pc' = "place" => low' = high'
              /\ \A p \in l..(low' - 1) : w[N[p]] >= key'
              /\ \A p \in (high' + 1)..r : w[N[p]] <= key'
      BY <1>5
    <2>2. InHand(stack, k, l, r)'
      BY <2>1 DEF InHand
    <2>3. Scanned(w, Order, l, r)'
      BY <2>1 DEF Scanned
    <2>4. Partition(n, w, l, r)'
      BY <2>1, <2>3 DEF Partition
    <2> QED BY <1>1, <1>2, <1>3, <2>2, <2>4 DEF SortOK
  <1> QED BY <1>4, <1>5

(* Past generate_proposals the arrays have a place for each box.           *)
LEMMA ProposedFacts ==
    ASSUME InputOK
    PROVE  /\ Proposed \in Seq(Boxed) /\ Len(Proposed) \in Nat
           /\ Ids(Proposed) \in Seq(Class) /\ Len(Ids(Proposed)) = Len(Proposed)
           /\ Props(Proposed) \in [1..Len(Proposed) -> Int]
           /\ Ids(Proposed) \in [1..Len(Proposed) -> Class]
           /\ \A b \in 1..Len(Proposed) : Props(Proposed)[b] = Proposed[b].prop
  <1>1. Proposed \in Seq(Boxed)
    <2>1. Len(Heads) \in 0..Len(Heads)
      BY PostProcessAssumption
    <2> QED BY <2>1, FlatIs, UptoType
  <1>2. Len(Proposed) \in Nat /\ DOMAIN Proposed = 1..Len(Proposed)
    BY <1>1
  <1> QED BY <1>1, <1>2, IdsType DEF Props

LEMMA SortEnter ==
    ASSUME ProposeInv, generate_proposals, pc' = "sort"
    PROVE  SortInv'
  <1>1. head \in 1..Len(Heads) /\ Len(Heads) \in Nat /\ pc = "propose"
    BY PostProcessAssumption DEF ProposeInv, generate_proposals
  <1>2. ~(head < Len(Heads))
    BY <1>1 DEF generate_proposals
  <1>3. Upto(head) = Proposed
    BY <1>1, <1>2, FlatIs
  <1>4. classId' = Ids(Proposed) /\ objProbs' = Props(Proposed)
    BY <1>1, <1>3, ProposeStep
  <1>5. Proposed' = Proposed
    BY ProposedKept DEF generate_proposals
  <1>6. InputOK
    BY DEF ProposeInv
  <1>7. PICK n \in Nat : \E w \in [1..n -> Int] : n = Len(Proposed) /\ w = Props(Proposed)
    BY <1>6, ProposedFacts
  <1>22. PICK w \in [1..n -> Int] : n = Len(Proposed) /\ w = Props(Proposed)
    BY <1>7
  <1>8. Len(classId') = n /\ DOMAIN classId' = 1..n
    <2>1. classId' \in Seq(Class) /\ Len(classId') = n
      BY <1>4, <1>6, <1>22, ProposedFacts
    <2> QED BY <2>1
  <1>9. classId' # <<>> => n # 0
    BY <1>4, <1>6, <1>22, <1>8, ProposedFacts
  <1>10. indexArray' = [b \in 1..n |-> b] /\ stack' = <<<<1, n>>>> /\ n # 0
    BY <1>2, <1>8, <1>9 DEF generate_proposals
  <1>11. indexArray' \in [1..n -> 1..n] /\ objProbs' = [p \in 1..n |-> w[indexArray'[p]]]
    BY <1>4, <1>22, <1>10
  <1>12. PICK N \in [1..n -> 1..n] : N = [b \in 1..n |-> b]
    OBVIOUS
  <1>13. Order' = N
    BY <1>10, <1>12 DEF Order, Sorting
  <1>14. Onto(n, N)
    BY <1>12 DEF Onto
  <1>15. PICK side \in Nat \X Nat : side = <<1, n>>
    OBVIOUS
  <1>16. PICK st \in Seq(Nat \X Nat) : st = <<side>>
    <2>1. <<side>> \in Seq(Nat \X Nat)
      OBVIOUS
    <2> QED BY <2>1
  <1>17. Len(st) = 1 /\ st[1] = side /\ side[1] = 1 /\ side[2] = n /\ stack' = st
    BY <1>10, <1>15, <1>16
  <1>18. Apart(n, st)
    BY <1>17 DEF Apart
  <1>19. Settled(n, w, N, st)
    <2> SUFFICES ASSUME NEW p \in 1..n, NEW q \in 1..n PROVE Inside(p, q, st)
      BY DEF Settled
    <2>1. 1 \in 1..Len(st) /\ st[1][1] <= p /\ q <= st[1][2]
      BY <1>17
    <2> QED BY <2>1 DEF Inside
  <1>20. SortOK(n, w)'
    <2>1. Apart(n, stack') /\ Settled(n, w, N, stack')
      BY <1>17, <1>18, <1>19
    <2> QED BY <1>11, <1>13, <1>14, <2>1, SortOKNext
  <1>21. Sorted(n, w)'
    BY <1>5, <1>22, <1>8, <1>10 DEF Sorted, Props, validCount
  <1> QED BY <1>20, <1>21 DEF SortInv

(* A side of one place or none needs no call.                              *)
LEMMA TailKeeps ==
    ASSUME NEW n \in Nat, NEW w, NEW O, NEW st, Apart(n, st), Settled(n, w, O, st),
           NEW k \in Nat, NEW l \in Nat, NEW r \in Nat, InHand(st, k, l, r), ~(l < r)
    PROVE  Apart(n, Tail(st)) /\ Settled(n, w, O, Tail(st))
  <1>1. st \in Seq(Nat \X Nat) /\ Len(st) = k + 1
    BY DEF Apart, InHand
  <1>2. Tail(st) \in Seq(Nat \X Nat) /\ Len(Tail(st)) = k /\ \A s \in 1..k : Tail(st)[s] = st[s + 1]
    BY <1>1
  <1>3. PICK tail \in Seq(Nat \X Nat) : tail = Tail(st)
    BY <1>2
  <1>4. Len(tail) = k /\ \A s \in 1..k : tail[s] = st[s + 1]
    BY <1>2, <1>3
  <1>5. Apart(n, tail)
    <2>1. ASSUME NEW s \in 1..k PROVE s + 1 \in 1..(k + 1)
      OBVIOUS
    <2>2. \A s \in 1..k : 1 <= tail[s][1] /\ tail[s][2] <= n
      BY <1>1, <1>4, <2>1 DEF Apart
    <2>3. ASSUME NEW s \in 1..k, NEW t \in 1..k, s < t PROVE tail[s][2] < tail[t][1]
      <3>1. s + 1 < t + 1 /\ s + 1 \in 1..Len(st) /\ t + 1 \in 1..Len(st)
        BY <1>1, <2>1, <2>3
      <3>2. st[s + 1][2] < st[t + 1][1]
        BY <3>1 DEF Apart
      <3> QED BY <1>4, <3>2
    <2> QED BY <1>4, <2>2, <2>3 DEF Apart
  <1>6. Settled(n, w, O, tail)
    <2> SUFFICES ASSUME NEW p \in 1..n, NEW q \in 1..n, p < q, Inside(p, q, st)
                 PROVE  Inside(p, q, tail)
      BY DEF Settled
    <2>1. PICK s \in 1..Len(st) : st[s][1] <= p /\ q <= st[s][2]
      BY DEF Inside
    <2>2. s # 1
      <3>1. ~(l <= p /\ q <= r)
        OBVIOUS
      <3> QED BY <2>1, <3>1 DEF InHand
    <2>3. s - 1 \in 1..k /\ (s - 1) + 1 = s
      BY <1>1, <2>2
    <2>4. tail[s - 1] = st[s]
      BY <1>4, <2>3
    <2>5. tail[s - 1][1] <= p /\ q <= tail[s - 1][2] /\ s - 1 \in 1..Len(tail)
      BY <1>4, <2>1, <2>3, <2>4
    <2> QED BY <2>5 DEF Inside
  <1> QED BY <1>3, <1>5, <1>6

LEMMA CallKeeps ==
    ASSUME NEW n \in Nat, NEW w \in [1..n -> Int], SortOK(n, w), qsort_descent_inplace, pc' # "nms"
    PROVE  SortOK(n, w)'
  <1>1. pc = "sort" /\ stack # <<>> /\ UNCHANGED <<objProbs, indexArray>>
    BY DEF qsort_descent_inplace
  <1>2. /\ indexArray \in [1..n -> 1..n] /\ objProbs = [p \in 1..n |-> w[indexArray[p]]]
        /\ Order = indexArray /\ Onto(n, indexArray) /\ Apart(n, stack) /\ Settled(n, w, indexArray, stack)
    BY <1>1 DEF SortOK, Order, Sorting
  <1>3. stack \in Seq(Nat \X Nat)
    BY <1>2 DEF Apart
  <1>4. PICK k \in Nat, l \in Nat, r \in Nat : InHand(stack, k, l, r) /\ l = Left /\ r = Right
    <2>1. Len(stack) - 1 \in Nat /\ 1 \in 1..Len(stack) /\ Head(stack) = stack[1]
      BY <1>1, <1>3
    <2>2. stack[1][1] \in Nat /\ stack[1][2] \in Nat
      BY <1>2, <2>1, Sides
    <2>3. Len(stack) = (Len(stack) - 1) + 1
      BY <1>3
    <2> QED BY <2>1, <2>2, <2>3 DEF InHand, Left, Right
  <1>5. 1 <= l /\ r <= n
    <2>1. 1 \in 1..Len(stack)
      BY <1>4 DEF InHand
    <2> QED BY <1>2, <1>4, <2>1, Sides DEF InHand
  <1>6. CASE l < r
    <2>1. /\ pc' = "down" /\ low' = l /\ high' = r /\ stack' = stack
          /\ key' = objProbs[l] /\ key_index' = indexArray[l]
      BY <1>1, <1>4, <1>6 DEF qsort_descent_inplace
    <2>2. l \in 1..n
      BY <1>5, <1>6
    <2>3. key_index' \in 1..n /\ key' = w[key_index']
      BY <1>2, <2>1, <2>2
    <2>4. Order' = indexArray
      <3>1. Order' = [indexArray EXCEPT ![l] = indexArray[l]]
        BY <1>1, <2>1 DEF Order, Sorting, Hole
      <3> QED BY <1>2, <2>2, <3>1
    <2>5. /\ low' \in l..r /\ high' \in l..r /\ low' <= high'
          /\ \A p \in l..(low' - 1) : w[indexArray[p]] >= key'
          /\ \A p \in (high' + 1)..r : w[indexArray[p]] <= key'
      BY <1>6, <2>1
    <2>6. InHand(stack', k, l, r) /\ Apart(n, stack') /\ Settled(n, w, indexArray, stack')
      BY <1>2, <1>4, <2>1
    <2>7. indexArray' \in [1..n -> 1..n] /\ objProbs' = [p \in 1..n |-> w[indexArray'[p]]]
      BY <1>1, <1>2
    <2>8. \E kk, ll, rr \in Nat : /\ InHand(stack', kk, ll, rr)
                                  /\ key_index' \in 1..n /\ key' = w[key_index']
                                  /\ low' \in ll..rr /\ high' \in ll..rr /\ low' <= high'
                                  /\ pc' = "place" => low' = high'
                                  /\ \A p \in ll..(low' - 1) : w[indexArray[p]] >= key'
                                  /\ \A p \in (high' + 1)..rr : w[indexArray[p]] <= key'
      BY <2>1, <2>3, <2>5, <2>6
    <2> QED BY <1>2, <2>1, <2>4, <2>6, <2>7, <2>8, SortOKNext
  <1>7. CASE ~(l < r)
    <2>1. pc' = "sort" /\ stack' = Tail(stack)
      BY <1>1, <1>4, <1>7 DEF qsort_descent_inplace
    <2>2. Order' = indexArray
      BY <1>1, <2>1 DEF Order, Sorting
    <2>3. Apart(n, stack') /\ Settled(n, w, indexArray, stack')
      BY <1>2, <1>4, <1>7, <2>1, TailKeeps
    <2>4. indexArray' \in [1..n -> 1..n] /\ objProbs' = [p \in 1..n |-> w[indexArray'[p]]]
      BY <1>1, <1>2
    <2> QED BY <1>2, <2>1, <2>2, <2>3, <2>4, SortOKNext
  <1> QED BY <1>6, <1>7

(* A box moves into the hole, which is then where it was.                  *)
LEMMA MoveIs ==
    ASSUME NEW n \in Nat, NEW ix \in [1..n -> 1..n], NEW x \in 1..n, NEW y \in 1..n, NEW kx \in 1..n
    PROVE  LET moved == [ix EXCEPT ![x] = ix[y]]
               O == [ix EXCEPT ![x] = kx]
               N == [moved EXCEPT ![y] = kx]
           IN  /\ moved \in [1..n -> 1..n] /\ O \in [1..n -> 1..n] /\ N \in [1..n -> 1..n]
               /\ Swapped(n, O, N, x, y)
  <1> DEFINE moved == [ix EXCEPT ![x] = ix[y]]
             O == [ix EXCEPT ![x] = kx]
             N == [moved EXCEPT ![y] = kx]
  <1>1. moved \in [1..n -> 1..n] /\ O \in [1..n -> 1..n] /\ N \in [1..n -> 1..n]
    OBVIOUS
  <1>2. Swapped(n, O, N, x, y)
    BY DEF Swapped
  <1> QED BY <1>1, <1>2

(* The scores move along.                                                  *)
LEMMA ScoresMove ==
    ASSUME NEW n \in Nat, NEW w \in [1..n -> Int], NEW ix \in [1..n -> 1..n], NEW x \in 1..n, NEW b \in 1..n,
           NEW scores, scores = [p \in 1..n |-> w[ix[p]]], NEW moved, moved = [ix EXCEPT ![x] = b],
           NEW new, new = [scores EXCEPT ![x] = w[b]]
    PROVE  moved \in [1..n -> 1..n] /\ new = [p \in 1..n |-> w[moved[p]]]
  <1>1. new = [p \in 1..n |-> IF p = x THEN w[b] ELSE w[ix[p]]]
    OBVIOUS
  <1>2. \A p \in 1..n : moved[p] = IF p = x THEN b ELSE ix[p]
    OBVIOUS
  <1> QED BY <1>1, <1>2

(* What a step of the partition finds.                                     *)
LEMMA PartitionFacts ==
    ASSUME NEW n \in Nat, NEW w \in [1..n -> Int], SortOK(n, w), Sorting
    PROVE  /\ indexArray \in [1..n -> 1..n] /\ objProbs = [p \in 1..n |-> w[indexArray[p]]]
           /\ key_index \in 1..n /\ key \in Int /\ key = w[key_index]
           /\ Apart(n, stack) /\ Onto(n, Order) /\ Settled(n, w, Order, stack)
           /\ \E k, l, r \in Nat : /\ InHand(stack, k, l, r) /\ 1 <= l /\ r <= n
                                   /\ low \in l..r /\ high \in l..r /\ low <= high
                                   /\ low \in 1..n /\ high \in 1..n
                                   /\ pc = "place" => low = high
                                   /\ Scanned(w, Order, l, r)
  <1>1. PICK k \in Nat, l \in Nat, r \in Nat : InHand(stack, k, l, r) /\ Partition(n, w, l, r)
    BY DEF SortOK
  <1>2. Apart(n, stack)
    BY DEF SortOK
  <1>3. 1 <= l /\ r <= n
    <2>1. 1 \in 1..Len(stack)
      BY <1>1 DEF InHand
    <2> QED BY <1>1, <1>2, <2>1, Sides DEF InHand
  <1>4. low \in l..r /\ high \in l..r /\ low <= high /\ (pc = "place" => low = high) /\ Scanned(w, Order, l, r)
    BY <1>1 DEF Partition
  <1>5. low \in 1..n /\ high \in 1..n
    BY <1>3, <1>4
  <1>6. key_index \in 1..n /\ key = w[key_index] /\ key \in Int
    BY <1>1 DEF Partition
  <1> QED BY <1>1, <1>3, <1>4, <1>5, <1>6 DEF SortOK

(* high stops at a place worth more than the key, or at low.               *)
LEMMA DownKeeps ==
    ASSUME NEW n \in Nat, NEW w \in [1..n -> Int], SortOK(n, w), down
    PROVE  SortOK(n, w)' /\ pc' = "up"
  <1>1. pc = "down" /\ Sorting /\ pc' = "up" /\ Sorting'
    BY DEF down, Sorting
  <1>2. /\ indexArray \in [1..n -> 1..n] /\ objProbs = [p \in 1..n |-> w[indexArray[p]]]
        /\ key_index \in 1..n /\ key \in Int /\ key = w[key_index]
        /\ Apart(n, stack) /\ Onto(n, Order) /\ Settled(n, w, Order, stack)
    BY <1>1, PartitionFacts
  <1>3. PICK k \in Nat, l \in Nat, r \in Nat :
            /\ InHand(stack, k, l, r) /\ 1 <= l /\ r <= n
            /\ low \in l..r /\ high \in l..r /\ low <= high
            /\ low \in 1..n /\ high \in 1..n
            /\ Scanned(w, Order, l, r)
    BY <1>1, PartitionFacts
  <1> DEFINE T == {low} \cup {h \in low..high : objProbs[h] > key}
  <1>4. T \in SUBSET (0..n) /\ low \in T /\ \A x \in T : x \in low..high
    BY <1>3
  <1>5. PICK h \in Nat : h = Max(T) /\ h \in T /\ \A y \in T : y <= h
    <2> HIDE DEF T
    <2>1. Max(T) \in T /\ \A y \in T : y <= Max(T)
      BY <1>4, MaxIs
    <2>2. Max(T) \in 0..n
      BY <1>4, <2>1
    <2>3. Max(T) \in Nat
      BY <2>2
    <2> QED BY <2>1, <2>3
  <1>6. h \in low..high /\ h \in l..r /\ h \in 1..n
    BY <1>3, <1>4, <1>5
  <1>7. /\ high' = h /\ low' = low /\ key' = key /\ key_index' = key_index /\ stack' = stack
        /\ indexArray' = [indexArray EXCEPT ![low] = indexArray[h]]
        /\ objProbs' = [objProbs EXCEPT ![low] = objProbs[h]]
    BY <1>5 DEF down, Move
  <1>8. PICK O \in [1..n -> 1..n], N \in [1..n -> 1..n] :
            /\ O = [indexArray EXCEPT ![low] = key_index]
            /\ N = [[indexArray EXCEPT ![low] = indexArray[h]] EXCEPT ![h] = key_index]
            /\ Swapped(n, O, N, low, h)
    BY <1>2, <1>3, <1>6, MoveIs
  <1>9. Order = O /\ Order' = N
    BY <1>1, <1>7, <1>8 DEF Order, Hole
  <1>10. indexArray' \in [1..n -> 1..n] /\ objProbs' = [p \in 1..n |-> w[indexArray'[p]]]
    <2>1. objProbs[h] = w[indexArray[h]]
      BY <1>2, <1>6
    <2>2. indexArray[h] \in 1..n /\ objProbs' = [objProbs EXCEPT ![low] = w[indexArray[h]]]
      BY <1>2, <1>6, <1>7, <2>1
    <2> QED BY <1>2, <1>3, <1>7, <2>2, ScoresMove
  <1>11. Onto(n, N) /\ Settled(n, w, N, stack)
    BY <1>2, <1>3, <1>6, <1>8, <1>9, SwapKeeps
  <1>12. ASSUME NEW p \in l..(low - 1) PROVE w[N[p]] >= key
    <2>1. p \in 1..n /\ p # low /\ p # h
      BY <1>3, <1>6
    <2> QED BY <1>3, <1>8, <1>9, <2>1 DEF Swapped, Scanned
  <1>13. ASSUME NEW p \in (h + 1)..r PROVE w[N[p]] <= key
    <2>5. low \in Nat /\ low <= h
      BY <1>3, <1>6
    <2>1. p \in 1..n /\ p # low /\ p # h /\ p \in Nat /\ h < p /\ low < p
      BY <1>3, <2>5
    <2>2. N[p] = O[p] /\ O[p] = indexArray[p]
      BY <1>2, <1>8, <2>1 DEF Swapped
    <2>3. CASE high < p
      <3>1. p \in (high + 1)..r
        BY <1>3, <2>3
      <3> QED BY <1>3, <1>9, <2>2, <3>1 DEF Scanned
    <2>4. CASE ~(high < p)
      <3>1. p \in low..high
        BY <1>3, <2>1, <2>4
      <3>2. p \notin T
        <4> HIDE DEF T
        <4>1. ~(p <= h)
          BY <2>1
        <4> QED BY <1>5, <4>1
      <3>3. ~(objProbs[p] > key)
        BY <3>1, <3>2
      <3>4. PICK x \in Int : objProbs[p] = x /\ w[N[p]] = x
        <4>1. objProbs[p] = w[indexArray[p]]
          BY <1>2, <2>1
        <4>2. w[N[p]] = w[indexArray[p]] /\ w[indexArray[p]] \in Int
          BY <1>2, <2>1, <2>2
        <4> QED BY <4>1, <4>2
      <3>5. key \in Int
        BY <1>2
      <3> QED BY <3>3, <3>4, <3>5
    <2> QED BY <2>3, <2>4
  <1>14. \E kk, ll, rr \in Nat : /\ InHand(stack', kk, ll, rr)
                                 /\ key_index' \in 1..n /\ key' = w[key_index']
                                 /\ low' \in ll..rr /\ high' \in ll..rr /\ low' <= high'
                                 /\ pc' = "place" => low' = high'
                                 /\ \A p \in ll..(low' - 1) : w[N[p]] >= key'
                                 /\ \A p \in (high' + 1)..rr : w[N[p]] <= key'
    <2>1. low \in l..r /\ h \in l..r /\ low <= h /\ pc' # "place"
      BY <1>1, <1>3, <1>6
    <2>2. key_index' \in 1..n /\ key' = w[key_index'] /\ InHand(stack', k, l, r)
      BY <1>2, <1>3, <1>7
    <2>3. /\ low' \in l..r /\ high' \in l..r /\ low' <= high'
          /\ \A p \in l..(low' - 1) : w[N[p]] >= key'
          /\ \A p \in (high' + 1)..r : w[N[p]] <= key'
      BY <1>7, <1>12, <1>13, <2>1
    <2> QED BY <2>1, <2>2, <2>3
  <1>15. pc' \in {"down", "up", "place"} /\ Apart(n, stack') /\ Settled(n, w, N, stack')
    BY <1>1, <1>2, <1>7, <1>11
  <1>16. SortOK(n, w)'
    BY <1>9, <1>10, <1>11, <1>14, <1>15, SortOKNext
  <1> QED BY <1>1, <1>16

(* low stops at a place worth less than the key, or at high.               *)
LEMMA UpKeeps ==
    ASSUME NEW n \in Nat, NEW w \in [1..n -> Int], SortOK(n, w), up
    PROVE  SortOK(n, w)' /\ pc' \in {"down", "place"}
  <1>1. pc = "up" /\ Sorting /\ pc' \in {"down", "place"} /\ Sorting'
    BY DEF up, Sorting
  <1>2. /\ indexArray \in [1..n -> 1..n] /\ objProbs = [p \in 1..n |-> w[indexArray[p]]]
        /\ key_index \in 1..n /\ key \in Int /\ key = w[key_index]
        /\ Apart(n, stack) /\ Onto(n, Order) /\ Settled(n, w, Order, stack)
    BY <1>1, PartitionFacts
  <1>3. PICK k \in Nat, l \in Nat, r \in Nat :
            /\ InHand(stack, k, l, r) /\ 1 <= l /\ r <= n
            /\ low \in l..r /\ high \in l..r /\ low <= high
            /\ low \in 1..n /\ high \in 1..n
            /\ Scanned(w, Order, l, r)
    BY <1>1, PartitionFacts
  <1> DEFINE T == {high} \cup {x \in low..high : objProbs[x] < key}
  <1>4. T \in SUBSET Nat /\ T # {} /\ \A x \in T : x \in low..high
    BY <1>3
  <1>5. PICK m \in Nat : m = Min(T) /\ m \in T /\ \A y \in T : m <= y
    <2> HIDE DEF T
    <2>1. Min(T) \in T /\ \A y \in T : Min(T) <= y
      BY <1>4, MinIs
    <2> QED BY <1>4, <2>1
  <1>6. m \in low..high /\ m \in l..r /\ m \in 1..n /\ m <= high
    BY <1>3, <1>4, <1>5
  <1>7. /\ low' = m /\ high' = high /\ key' = key /\ key_index' = key_index /\ stack' = stack
        /\ indexArray' = [indexArray EXCEPT ![high] = indexArray[m]]
        /\ objProbs' = [objProbs EXCEPT ![high] = objProbs[m]]
        /\ pc' = IF m < high THEN "down" ELSE "place"
    BY <1>5 DEF up, Move
  <1>8. PICK O \in [1..n -> 1..n], N \in [1..n -> 1..n] :
            /\ O = [indexArray EXCEPT ![high] = key_index]
            /\ N = [[indexArray EXCEPT ![high] = indexArray[m]] EXCEPT ![m] = key_index]
            /\ Swapped(n, O, N, high, m)
    BY <1>2, <1>3, <1>6, MoveIs
  <1>9. Order = O /\ Order' = N
    BY <1>1, <1>7, <1>8 DEF Order, Hole
  <1>10. indexArray' \in [1..n -> 1..n] /\ objProbs' = [p \in 1..n |-> w[indexArray'[p]]]
    <2>1. objProbs[m] = w[indexArray[m]]
      BY <1>2, <1>6
    <2>2. indexArray[m] \in 1..n /\ objProbs' = [objProbs EXCEPT ![high] = w[indexArray[m]]]
      BY <1>2, <1>6, <1>7, <2>1
    <2> QED BY <1>2, <1>3, <1>7, <2>2, ScoresMove
  <1>11. Onto(n, N) /\ Settled(n, w, N, stack)
    BY <1>2, <1>3, <1>6, <1>8, <1>9, SwapKeeps
  <1>12. ASSUME NEW p \in (high + 1)..r PROVE w[N[p]] <= key
    <2>1. p \in 1..n /\ p # high /\ p # m
      BY <1>3, <1>6
    <2> QED BY <1>3, <1>8, <1>9, <2>1 DEF Swapped, Scanned
  <1>13. ASSUME NEW p \in l..(m - 1) PROVE w[N[p]] >= key
    <2>5. high \in Nat /\ m <= high
      BY <1>3, <1>6
    <2>1. p \in 1..n /\ p # high /\ p # m /\ p \in Nat /\ p < m /\ p < high
      BY <1>3, <1>6, <2>5
    <2>2. N[p] = O[p] /\ O[p] = indexArray[p]
      BY <1>2, <1>8, <2>1 DEF Swapped
    <2>3. CASE p < low
      <3>1. p \in l..(low - 1)
        BY <1>3, <2>3
      <3> QED BY <1>3, <1>9, <2>2, <3>1 DEF Scanned
    <2>4. CASE ~(p < low)
      <3>1. p \in low..high
        BY <1>3, <2>1, <2>4
      <3>2. p \notin T
        <4> HIDE DEF T
        <4>1. ~(m <= p)
          BY <2>1
        <4> QED BY <1>5, <4>1
      <3>3. ~(objProbs[p] < key)
        BY <3>1, <3>2
      <3>4. PICK x \in Int : objProbs[p] = x /\ w[N[p]] = x
        <4>1. objProbs[p] = w[indexArray[p]]
          BY <1>2, <2>1
        <4>2. w[N[p]] = w[indexArray[p]] /\ w[indexArray[p]] \in Int
          BY <1>2, <2>1, <2>2
        <4> QED BY <4>1, <4>2
      <3>5. key \in Int
        BY <1>2
      <3> QED BY <3>3, <3>4, <3>5
    <2> QED BY <2>3, <2>4
  <1>14. \E kk, ll, rr \in Nat : /\ InHand(stack', kk, ll, rr)
                                 /\ key_index' \in 1..n /\ key' = w[key_index']
                                 /\ low' \in ll..rr /\ high' \in ll..rr /\ low' <= high'
                                 /\ pc' = "place" => low' = high'
                                 /\ \A p \in ll..(low' - 1) : w[N[p]] >= key'
                                 /\ \A p \in (high' + 1)..rr : w[N[p]] <= key'
    <2>1. m \in l..r /\ high \in l..r /\ m <= high /\ (pc' = "place" => m = high)
      BY <1>1, <1>3, <1>6, <1>7
    <2>2. key_index' \in 1..n /\ key' = w[key_index'] /\ InHand(stack', k, l, r)
      BY <1>2, <1>3, <1>7
    <2>3. /\ low' \in l..r /\ high' \in l..r /\ low' <= high'
          /\ pc' = "place" => low' = high'
          /\ \A p \in l..(low' - 1) : w[N[p]] >= key'
          /\ \A p \in (high' + 1)..r : w[N[p]] <= key'
      BY <1>7, <1>12, <1>13, <2>1
    <2> QED BY <2>2, <2>3
  <1>15. pc' \in {"down", "up", "place"} /\ Apart(n, stack') /\ Settled(n, w, N, stack')
    BY <1>1, <1>2, <1>7, <1>11
  <1>16. SortOK(n, w)'
    BY <1>9, <1>10, <1>11, <1>14, <1>15, SortOKNext
  <1> QED BY <1>1, <1>16

(* The key is where it belongs: what is before it is worth as much or      *)
(* more, what is behind it no more.                                        *)
LEMMA PlaceKeeps ==
    ASSUME NEW n \in Nat, NEW w \in [1..n -> Int], SortOK(n, w), place
    PROVE  SortOK(n, w)' /\ pc' = "sort"
  <1>1. pc = "place" /\ Sorting /\ pc' = "sort" /\ ~Sorting'
    BY DEF place, Sorting
  <1>2. /\ indexArray \in [1..n -> 1..n] /\ objProbs = [p \in 1..n |-> w[indexArray[p]]]
        /\ key_index \in 1..n /\ key \in Int /\ key = w[key_index]
        /\ Apart(n, stack) /\ Onto(n, Order) /\ Settled(n, w, Order, stack)
    BY <1>1, PartitionFacts
  <1>3. PICK k \in Nat, l \in Nat, r \in Nat :
            /\ InHand(stack, k, l, r) /\ 1 <= l /\ r <= n
            /\ low \in l..r /\ low \in 1..n /\ low = high
            /\ Scanned(w, Order, l, r)
    BY <1>1, PartitionFacts
  <1>4. PICK O \in [1..n -> 1..n] : O = [indexArray EXCEPT ![low] = key_index]
    BY <1>2
  <1>5. Order = O /\ indexArray' = O /\ Order' = O
    BY <1>1, <1>4 DEF Order, Hole, Sorting, place
  <1>6. indexArray' \in [1..n -> 1..n] /\ objProbs' = [p \in 1..n |-> w[indexArray'[p]]]
    <2>1. objProbs' = [objProbs EXCEPT ![low] = w[key_index]]
      BY <1>2 DEF place
    <2> QED BY <1>2, <1>3, <1>4, <1>5, <2>1, ScoresMove
  <1>7. Parted(w, O, l, low, r)
    <2>1. O[low] = key_index /\ w[O[low]] = key
      BY <1>2, <1>3, <1>4
    <2> QED BY <1>3, <1>5, <2>1 DEF Parted, Scanned
  <1>8. Split(stack, stack', l, low, r)
    <2>1. Head(stack) = stack[1]
      BY <1>3 DEF InHand
    <2> QED BY <1>3, <2>1 DEF Split, InHand, place, Left, Right
  <1>9. Apart(n, stack') /\ Settled(n, w, O, stack')
    BY <1>2, <1>3, <1>5, <1>7, <1>8, SplitKeeps
  <1>10. SortOK(n, w)'
    BY <1>1, <1>2, <1>5, <1>6, <1>9, SortOKNext
  <1> QED BY <1>1, <1>10

LEMMA SortedKept ==
    ASSUME NEW n, NEW w, Sorted(n, w), UNCHANGED <<input, classId>>
    PROVE  Sorted(n, w)'
  <1>1. Proposed' = Proposed
    BY ProposedKept
  <1> QED BY <1>1 DEF Sorted, Props, validCount

LEMMA SortNext ==
    ASSUME ProposeInv, SortInv, [Next]_vars
    PROVE  SortInv'
  <1>1. CASE UNCHANGED <<callVars>>
    <2>1. SUFFICES ASSUME pc \in SortPcs PROVE SortInv'
      BY <1>1 DEF SortInv, callVars
    <2>2. PICK n \in Nat : \E w \in [1..n -> Int] : Sorted(n, w) /\ SortOK(n, w)
      BY <2>1 DEF SortInv
    <2>3. PICK w \in [1..n -> Int] : Sorted(n, w) /\ SortOK(n, w)
      BY <2>2
    <2>4. Sorted(n, w)'
      BY <1>1, <2>3, SortedKept DEF callVars, boxVars
    <2>5. UNCHANGED <<pc, indexArray, objProbs, stack, low, high, key, key_index>>
      BY <1>1 DEF callVars, sortVars
    <2>6. Order' = Order /\ (Sorting' <=> Sorting)
      BY <2>5 DEF Order, Sorting, Hole
    <2>7. SortOK(n, w)'
      BY <2>3, <2>5, <2>6 DEF SortOK, Partition, Scanned
    <2> QED BY <2>4, <2>7 DEF SortInv
  <1>2. CASE post_process \/ load
    <2>1. pc' = pc \/ pc' \in {"propose", "labels"}
      BY <1>2 DEF post_process, load
    <2>2. pc' \notin SortPcs
      BY <1>2, <2>1 DEF post_process, load, SortPcs
    <2> QED BY <2>2 DEF SortInv
  <1>3. CASE generate_proposals
    <2>1. pc' \in SortPcs => pc' = "sort"
      BY <1>3 DEF generate_proposals, SortPcs
    <2>2. pc' = "sort" => SortInv'
      BY <1>3, SortEnter
    <2> QED BY <2>1, <2>2 DEF SortInv
  <1>4. CASE qsort_descent_inplace \/ down \/ up \/ place
    <2>1. pc \in SortPcs /\ UNCHANGED <<input, classId>>
      BY <1>4 DEF SortPcs, qsort_descent_inplace, down, up, place, boxVars
    <2>2. PICK n \in Nat : \E w \in [1..n -> Int] : Sorted(n, w) /\ SortOK(n, w)
      BY <2>1 DEF SortInv
    <2>3. PICK w \in [1..n -> Int] : Sorted(n, w) /\ SortOK(n, w)
      BY <2>2
    <2>4. Sorted(n, w)'
      BY <2>1, <2>3, SortedKept
    <2>5. pc' # "nms" => SortOK(n, w)'
      BY <1>4, <2>3, CallKeeps, DownKeeps, UpKeeps, PlaceKeeps
    <2>6. CASE pc' = "nms"
      BY <2>6 DEF SortInv, SortPcs
    <2>7. CASE pc' # "nms"
      BY <2>4, <2>5, <2>7 DEF SortInv
    <2> QED BY <2>6, <2>7
  <1>5. CASE nms_sorted_bboxes \/ collect
    <2>1. pc' \notin SortPcs
      BY <1>5 DEF nms_sorted_bboxes, NextTurn, collect, Report, SortPcs
    <2> QED BY <2>1 DEF SortInv
  <1> QED
    BY <1>1, <1>2, <1>3, <1>4, <1>5 DEF Next, Detect, vars, other_calls, other_loads, deinitPostProcess

LEMMA SortInvIs ==
    ASSUME ProposeInv, SortInv
    PROVE  SortedTogether
  <1> SUFFICES ASSUME pc = "sort", stack = <<>>
               PROVE  /\ \A p, q \in Box : p < q => objProbs[p] >= objProbs[q]
                      /\ \A p \in Box : objProbs[p] = Proposed[indexArray[p]].prop
                      /\ ToSet(indexArray) = Box
    BY DEF SortedTogether
  <1>1. PICK n \in Nat : \E w \in [1..n -> Int] : Sorted(n, w) /\ SortOK(n, w)
    BY DEF SortInv, SortPcs
  <1>2. PICK w \in [1..n -> Int] : Sorted(n, w) /\ SortOK(n, w)
    BY <1>1
  <1>3. Order = indexArray
    BY DEF Order, Sorting
  <1>4. /\ indexArray \in [1..n -> 1..n] /\ objProbs = [p \in 1..n |-> w[indexArray[p]]]
        /\ Onto(n, indexArray) /\ Settled(n, w, indexArray, stack)
    BY <1>2, <1>3 DEF SortOK
  <1>5. n = validCount /\ w = Props(Proposed) /\ Box = 1..n
    BY <1>2 DEF Sorted, Box
  <1>6. \A p, q \in 1..n : p < q => objProbs[p] >= objProbs[q]
    BY <1>4 DEF Settled, Inside
  <1>7. InputOK /\ Len(Proposed) = n
    <2>1. InputOK /\ classId = Ids(Proposed)
      BY DEF ProposeInv, Early
    <2> QED BY <1>5, <2>1, ProposedFacts DEF validCount
  <1>8. \A b \in 1..n : w[b] = Proposed[b].prop
    BY <1>5, <1>7, ProposedFacts
  <1>9. \A p \in 1..n : objProbs[p] = Proposed[indexArray[p]].prop
    BY <1>4, <1>8
  <1>10. ToSet(indexArray) = 1..n
    BY <1>4 DEF Onto, ToSet
  <1> QED BY <1>5, <1>6, <1>9, <1>10

(* SortedTogether: for any heads, inputs and scores, equal ones among      *)
(* them, the in-place partition of qsort_descent_inplace leaves the scores *)
(* from the best to the worst and each box beside its own score.           *)
THEOREM SortIsRight == Spec => []SortedTogether
  <1>1. Init => ProposeInv /\ SortInv
    BY ProposeInit DEF Init, SortInv, SortPcs
  <1>2. ProposeInv /\ SortInv /\ [Next]_vars => ProposeInv' /\ SortInv'
    BY ProposeNext, SortNext
  <1>3. ProposeInv /\ SortInv => SortedTogether
    BY SortInvIs
  <1> QED BY <1>1, <1>2, <1>3, PTL DEF Spec

-----------------------------------------------------------------------------
(* The suppression. *)

(* The boxes left, each once and beside its score, from the best down.     *)
Ranked(n, w, ix, s) ==
    /\ ix \in [1..n -> 0..n] /\ s \in [1..n -> Int]
    /\ \A p, q \in 1..n : p < q => s[p] >= s[q]
    /\ \A p \in 1..n : ix[p] # 0 => s[p] = w[ix[p]]
    /\ \A p, q \in 1..n : p # q /\ ix[p] # 0 => ix[p] # ix[q]

(* The first k places have had their turn: the boxes left there overlap no *)
(* later one that is left, and each box that is gone overlaps one of them. *)
Dropped(n, ix, c) == \A p \in 1..n : ix[p] # c
By(w, ix, ov, p, c) == ix[p] # 0 /\ {ix[p], c} \in ov /\ w[ix[p]] >= w[c]
Suppressed(n, w, ix, ov, k) ==
    /\ \A p \in 1..k, q \in 1..n : p < q /\ ix[p] # 0 /\ ix[q] # 0 => {ix[p], ix[q]} \notin ov
    /\ \A c \in 1..n : Dropped(n, ix, c) => \E p \in 1..k : By(w, ix, ov, p, c)

Turned(n, ix, ov, k, new) == new = [j \in 1..n |-> IF j > k /\ {ix[k], ix[j]} \in ov THEN 0 ELSE ix[j]]

LEMMA RankedKept ==
    ASSUME NEW n \in Nat, NEW w \in [1..n -> Int], NEW ix, NEW s, Ranked(n, w, ix, s),
           NEW new \in [1..n -> 0..n], \A j \in 1..n : new[j] = 0 \/ new[j] = ix[j]
    PROVE  Ranked(n, w, new, s)
  <1>1. \A p \in 1..n : new[p] # 0 => s[p] = w[new[p]]
    BY DEF Ranked
  <1>2. \A p, q \in 1..n : p # q /\ new[p] # 0 => new[p] # new[q]
    BY DEF Ranked
  <1> QED BY <1>1, <1>2 DEF Ranked

LEMMA TurnedType ==
    ASSUME NEW n \in Nat, NEW ix, ix \in [1..n -> 0..n], NEW ov, NEW k, NEW new, Turned(n, ix, ov, k, new)
    PROVE  new \in [1..n -> 0..n] /\ \A j \in 1..n : new[j] = 0 \/ new[j] = ix[j]
  <1>1. \A j \in 1..n : ix[j] \in 0..n /\ 0 \in 0..n
    OBVIOUS
  <1> QED BY <1>1 DEF Turned

(* A turn of the place behind them.                                        *)
LEMMA TurnKeeps ==
    ASSUME NEW n \in Nat, NEW w \in [1..n -> Int], NEW ix, NEW s, Ranked(n, w, ix, s),
           NEW ov, NEW k \in 1..n, Suppressed(n, w, ix, ov, k - 1), NEW new,
           ix[k] # 0, Turned(n, ix, ov, k, new)
    PROVE  Ranked(n, w, new, s) /\ Suppressed(n, w, new, ov, k)
  <1>1. ix \in [1..n -> 0..n]
    BY DEF Ranked
  <1>2. new \in [1..n -> 0..n] /\ \A j \in 1..n : new[j] = 0 \/ new[j] = ix[j]
    BY <1>1 DEF Turned
  <1>3. /\ \A j \in 1..n : j > k /\ {ix[k], ix[j]} \in ov => new[j] = 0
        /\ \A j \in 1..n : ~(j > k /\ {ix[k], ix[j]} \in ov) => new[j] = ix[j]
    BY DEF Turned
  <1>4. \A p \in 1..k : p \in 1..n /\ new[p] = ix[p]
    <2>1. \A p \in 1..k : p \in 1..n /\ ~(p > k)
      OBVIOUS
    <2> QED BY <1>3, <2>1
  <1>5. \A p \in 1..k : p \in 1..(k - 1) \/ p = k
    OBVIOUS
  <1>6. ASSUME NEW p \in 1..k, NEW q \in 1..n, p < q, new[p] # 0, new[q] # 0
        PROVE  {new[p], new[q]} \notin ov
    <2>1. new[p] = ix[p] /\ new[q] = ix[q]
      BY <1>2, <1>4, <1>6
    <2>2. CASE p \in 1..(k - 1)
      BY <1>6, <2>1, <2>2 DEF Suppressed
    <2>3. CASE p = k
      <3>1. q > k
        BY <1>6, <2>3
      <3> QED BY <1>3, <1>6, <2>1, <2>3, <3>1
    <2> QED BY <1>5, <2>2, <2>3
  <1>7. ASSUME NEW c \in 1..n, Dropped(n, new, c)
        PROVE  \E p \in 1..k : By(w, new, ov, p, c)
    <2>1. CASE Dropped(n, ix, c)
      <3>1. PICK p \in 1..(k - 1) : By(w, ix, ov, p, c)
        BY <2>1 DEF Suppressed
      <3>2. p \in 1..k
        OBVIOUS
      <3> QED BY <1>4, <3>1, <3>2 DEF By
    <2>2. CASE ~Dropped(n, ix, c)
      <3>1. PICK j \in 1..n : ix[j] = c
        BY <2>2 DEF Dropped
      <3>2. new[j] # c
        BY <1>7 DEF Dropped
      <3>3. j > k /\ {ix[k], c} \in ov
        BY <1>3, <3>1, <3>2
      <3>4. s[k] >= s[j] /\ s[k] = w[ix[k]] /\ s[j] = w[c]
        <4>1. k < j /\ ix[j] # 0
          BY <3>1, <3>3
        <4> QED BY <3>1, <4>1 DEF Ranked
      <3>5. k \in 1..k
        OBVIOUS
      <3> QED BY <1>4, <3>3, <3>4, <3>5 DEF By
    <2> QED BY <2>1, <2>2
  <1> QED BY <1>2, <1>6, <1>7, RankedKept DEF Suppressed

(* The turn of a place whose box is gone.                                  *)
LEMMA TurnOfNone ==
    ASSUME NEW n \in Nat, NEW w, NEW ix, NEW ov, NEW k \in 1..n, Suppressed(n, w, ix, ov, k - 1), ix[k] = 0
    PROVE  Suppressed(n, w, ix, ov, k)
  <1>1. \A p \in 1..k : p \in 1..(k - 1) \/ p = k
    OBVIOUS
  <1>2. \A p \in 1..(k - 1) : p \in 1..k
    OBVIOUS
  <1>3. \A p \in 1..k, q \in 1..n : p < q /\ ix[p] # 0 /\ ix[q] # 0 => {ix[p], ix[q]} \notin ov
    BY <1>1 DEF Suppressed
  <1>4. \A c \in 1..n : Dropped(n, ix, c) => \E p \in 1..k : By(w, ix, ov, p, c)
    BY <1>2 DEF Suppressed
  <1> QED BY <1>3, <1>4 DEF Suppressed

(* Whatever the classes, the places keep their scores; where all boxes are *)
(* of one class, those before i have had their turn.                       *)
OneClass == \A b, c \in Box : classId[b] = classId[c]

NmsPcs == {"nms", "collect"}
NmsTurns(n) == IF pc = "nms" THEN i - 1 ELSE n
NmsOK(n, w) ==
    /\ Ranked(n, w, indexArray, objProbs)
    /\ pc = "nms" => i \in 1..n /\ (OneClass => filterId = classId[1])
    /\ OneClass => Suppressed(n, w, indexArray, overlap, NmsTurns(n))
NmsInv == pc \in NmsPcs => \E n \in Nat : \E w \in [1..n -> Int] : Sorted(n, w) /\ NmsOK(n, w)

(* Past the sort every box has one place.                                  *)
LEMMA OnceEach ==
    ASSUME NEW n \in Nat, NEW O \in [1..n -> 1..n], Onto(n, O)
    PROVE  \A p, q \in 1..n : p # q => O[p] # O[q]
  <1>1. O \in Surjection(1..n, 1..n)
    BY DEF Onto, Surjection
  <1>2. IsFiniteSet(1..n)
    BY FS_Interval
  <1>3. O \in Injection(1..n, 1..n)
    BY <1>1, <1>2, FS_Surjection
  <1> QED BY <1>3 DEF Injection, IsInjective

LEMMA NmsEnter ==
    ASSUME ProposeInv, SortInv, qsort_descent_inplace, pc' = "nms"
    PROVE  NmsInv'
  <1>1. /\ pc = "sort" /\ stack = <<>> /\ i' = 1 /\ filterId' = Min(ToSet(classId))
        /\ UNCHANGED <<input, classId, objProbs, indexArray>>
    BY DEF qsort_descent_inplace, boxVars
  <1>2. PICK n \in Nat : \E w \in [1..n -> Int] : Sorted(n, w) /\ SortOK(n, w)
    BY <1>1 DEF SortInv, SortPcs
  <1>3. PICK w \in [1..n -> Int] : Sorted(n, w) /\ SortOK(n, w)
    BY <1>2
  <1>4. Order = indexArray
    BY <1>1 DEF Order, Sorting
  <1>5. /\ indexArray \in [1..n -> 1..n] /\ objProbs = [p \in 1..n |-> w[indexArray[p]]]
        /\ Onto(n, indexArray) /\ Settled(n, w, indexArray, stack)
    BY <1>3, <1>4 DEF SortOK
  <1>6. classId \in [1..n -> Class] /\ n = validCount /\ Box = 1..n
    <2>1. InputOK /\ classId = Ids(Proposed)
      BY <1>1 DEF ProposeInv, Early
    <2>2. n = Len(Ids(Proposed))
      BY <1>3, <2>1 DEF Sorted, validCount
    <2> QED BY <2>1, <2>2, ProposedFacts DEF validCount, Box
  <1>7. Ranked(n, w, indexArray, objProbs)
    <2>1. objProbs \in [1..n -> Int]
      BY <1>5
    <2>2. \A p, q \in 1..n : p < q => objProbs[p] >= objProbs[q]
      BY <1>1, <1>5 DEF Settled, Inside
    <2>3. \A p, q \in 1..n : p # q => indexArray[p] # indexArray[q]
      BY <1>5, OnceEach
    <2>4. \A p \in 1..n : objProbs[p] = w[indexArray[p]]
      BY <1>5
    <2> QED BY <1>5, <2>1, <2>2, <2>3, <2>4 DEF Ranked
  <1>8. PICK ov : ov = overlap'
    OBVIOUS
  <1>9. Suppressed(n, w, indexArray, ov, 0)
    BY <1>5 DEF Suppressed, Onto, Dropped
  <1>10. n # 0
    BY <1>3 DEF Sorted
  <1>11. OneClass => filterId' = classId[1]
    <2> SUFFICES ASSUME OneClass PROVE filterId' = classId[1]
      OBVIOUS
    <2>1. 1 \in 1..n
      BY <1>10
    <2>2. ToSet(classId) = {classId[1]} /\ classId[1] \in Nat
      BY <1>6, <2>1 DEF OneClass, ToSet, Class
    <2> QED BY <1>1, <2>2, MinIs
  <1>12. OneClass' <=> OneClass
    BY <1>1 DEF OneClass, Box, validCount
  <1>13. NmsOK(n, w)'
    BY <1>1, <1>7, <1>8, <1>9, <1>10, <1>11, <1>12 DEF NmsOK, NmsTurns
  <1>14. Sorted(n, w)'
    BY <1>1, <1>3, SortedKept
  <1> QED BY <1>13, <1>14 DEF NmsInv

LEMMA NmsStep ==
    ASSUME ProposeInv, NEW n \in Nat, NEW w \in [1..n -> Int], Sorted(n, w), NmsOK(n, w), nms_sorted_bboxes
    PROVE  NmsOK(n, w)' /\ pc' \in NmsPcs
  <1>1. /\ pc = "nms" /\ UNCHANGED <<input, classId, objProbs, overlap>> /\ NextTurn
    BY DEF nms_sorted_bboxes, boxVars
  <1>2. Ranked(n, w, indexArray, objProbs) /\ i \in 1..n /\ indexArray \in [1..n -> 0..n]
    BY <1>1 DEF NmsOK, Ranked
  <1>3. classId \in [1..n -> Class] /\ n = validCount /\ Box = 1..n
    <2>1. InputOK /\ classId = Ids(Proposed)
      BY <1>1 DEF ProposeInv, Early
    <2>2. n = Len(Ids(Proposed))
      BY <2>1 DEF Sorted, validCount
    <2> QED BY <2>1, <2>2, ProposedFacts DEF validCount, Box
  <1>4. PICK new, ov : new = indexArray' /\ ov = overlap
    OBVIOUS
  <1>5. DOMAIN indexArray = 1..n
    BY <1>2
  <1>6. \/ new = indexArray /\ (indexArray[i] = 0 \/ classId[i] # filterId)
        \/ indexArray[i] # 0 /\ Turned(n, indexArray, ov, i, new)
    BY <1>4, <1>5 DEF nms_sorted_bboxes, Turned
  <1>7. Ranked(n, w, new, objProbs)
    <2>1. CASE new = indexArray
      BY <1>2, <2>1
    <2>2. CASE Turned(n, indexArray, ov, i, new)
      <3>1. new \in [1..n -> 0..n] /\ \A j \in 1..n : new[j] = 0 \/ new[j] = indexArray[j]
        BY <1>2, <2>2, TurnedType
      <3> QED BY <1>2, <3>1, RankedKept
    <2> QED BY <1>6, <2>1, <2>2
  <1>8. ASSUME OneClass
        PROVE  /\ Suppressed(n, w, new, ov, i) /\ classId[i] = filterId /\ filterId = classId[1]
               /\ \/ i < n /\ i' = i + 1 /\ pc' = "nms" /\ filterId' = filterId
                  \/ i = n /\ pc' = "collect"
    <2>1. Suppressed(n, w, indexArray, ov, i - 1) /\ filterId = classId[1]
      BY <1>1, <1>4, <1>8 DEF NmsOK, NmsTurns
    <2>2. classId[i] = filterId /\ filterId \in Nat
      <3>1. 1 \in 1..n
        BY <1>2
      <3> QED BY <1>2, <1>3, <1>8, <2>1, <3>1 DEF OneClass, Class
    <2>3. Suppressed(n, w, new, ov, i)
      <3>1. CASE new = indexArray /\ indexArray[i] = 0
        BY <1>2, <2>1, <3>1, TurnOfNone
      <3>2. CASE indexArray[i] # 0 /\ Turned(n, indexArray, ov, i, new)
        BY <1>2, <2>1, <3>2, TurnKeeps
      <3> QED BY <1>6, <2>2, <3>1, <3>2
    <2>4. Later = {}
      <3>1. \A c \in ToSet(classId) : c = filterId
        BY <1>2, <1>3, <1>8, <2>2 DEF ToSet, OneClass
      <3> QED BY <2>2, <3>1 DEF Later
    <2>5. \/ i < n /\ i' = i + 1 /\ pc' = "nms" /\ filterId' = filterId
          \/ i = n /\ pc' = "collect"
      BY <1>1, <1>2, <1>3, <2>4 DEF NextTurn
    <2> QED BY <2>1, <2>2, <2>3, <2>5
  <1>9. pc' \in NmsPcs /\ (pc' = "nms" => i' \in 1..n)
    <2>1. 1 \in 1..n /\ (i < n => i + 1 \in 1..n)
      BY <1>2
    <2> QED BY <1>1, <1>2, <1>3, <2>1 DEF NextTurn, NmsPcs
  <1>10. OneClass' <=> OneClass
    BY <1>1 DEF OneClass, Box, validCount
  <1>11. ASSUME OneClass
         PROVE  /\ pc' = "nms" => filterId' = classId'[1]
                /\ Suppressed(n, w, new, ov, NmsTurns(n)')
    <2>1. CASE pc' = "nms"
      <3>1. i' = i + 1 /\ filterId' = classId[1] /\ i + 1 - 1 = i
        BY <1>2, <1>8, <1>11, <2>1
      <3>2. NmsTurns(n)' = i
        BY <1>2, <2>1, <3>1 DEF NmsTurns
      <3> QED BY <1>1, <1>8, <1>11, <3>1, <3>2
    <2>2. CASE pc' # "nms"
      <3>1. i = n
        BY <1>8, <1>11, <2>2
      <3> QED BY <1>8, <1>11, <2>2, <3>1 DEF NmsTurns
    <2> QED BY <2>1, <2>2
  <1>12. NmsOK(n, w)'
    BY <1>1, <1>4, <1>7, <1>9, <1>10, <1>11 DEF NmsOK
  <1> QED BY <1>9, <1>12

LEMMA NmsNext ==
    ASSUME ProposeInv, SortInv, NmsInv, [Next]_vars
    PROVE  NmsInv'
  <1>1. CASE UNCHANGED callVars
    <2>1. SUFFICES ASSUME pc \in NmsPcs PROVE NmsInv'
      BY <1>1 DEF NmsInv, callVars
    <2>2. PICK n \in Nat : \E w \in [1..n -> Int] : Sorted(n, w) /\ NmsOK(n, w)
      BY <2>1 DEF NmsInv
    <2>3. PICK w \in [1..n -> Int] : Sorted(n, w) /\ NmsOK(n, w)
      BY <2>2
    <2>4. Sorted(n, w)'
      BY <1>1, <2>3, SortedKept DEF callVars, boxVars
    <2>5. UNCHANGED <<pc, classId, indexArray, objProbs, overlap, i, filterId>>
      BY <1>1 DEF callVars, boxVars
    <2>6. (OneClass' <=> OneClass) /\ NmsTurns(n)' = NmsTurns(n)
      BY <2>5 DEF OneClass, Box, validCount, NmsTurns
    <2>7. NmsOK(n, w)'
      BY <2>3, <2>5, <2>6 DEF NmsOK
    <2> QED BY <2>4, <2>7 DEF NmsInv
  <1>2. CASE nms_sorted_bboxes
    <2>1. pc \in NmsPcs /\ UNCHANGED <<input, classId>>
      BY <1>2 DEF NmsPcs, nms_sorted_bboxes, boxVars
    <2>2. PICK n \in Nat : \E w \in [1..n -> Int] : Sorted(n, w) /\ NmsOK(n, w)
      BY <2>1 DEF NmsInv
    <2>3. PICK w \in [1..n -> Int] : Sorted(n, w) /\ NmsOK(n, w)
      BY <2>2
    <2> QED BY <1>2, <2>1, <2>3, NmsStep, SortedKept DEF NmsInv
  <1>3. CASE qsort_descent_inplace
    <2>1. pc' \in {"sort", "down", "nms"}
      BY <1>3 DEF qsort_descent_inplace
    <2> QED BY <1>3, <2>1, NmsEnter DEF NmsInv, NmsPcs
  <1>4. CASE post_process \/ load \/ generate_proposals \/ down \/ up \/ place \/ collect
    <2>1. pc' \notin NmsPcs
      BY <1>4 DEF post_process, load, generate_proposals, down, up, place, collect, Report, NmsPcs
    <2> QED BY <2>1 DEF NmsInv
  <1> QED
    BY <1>1, <1>2, <1>3, <1>4 DEF Next, Detect, vars, other_calls, other_loads, deinitPostProcess

(* The bridge to IsGreedy: a box that is not left is none of the places.   *)
LEMMA NmsInvIs ==
    ASSUME ProposeInv, NmsInv, OneClass
    PROVE  IsGreedy
  <1> SUFFICES ASSUME pc = "collect"
               PROVE  /\ \A b, c \in Kept : b # c /\ classId[b] = classId[c] => {b, c} \notin overlap
                      /\ \A c \in Box \ Kept : \E b \in Kept : /\ classId[b] = classId[c]
                                                               /\ {b, c} \in overlap
                                                               /\ Better(b, c)
    BY DEF IsGreedy
  <1>1. PICK n \in Nat : \E w \in [1..n -> Int] : Sorted(n, w) /\ NmsOK(n, w)
    BY DEF NmsInv, NmsPcs
  <1>2. PICK w \in [1..n -> Int] : Sorted(n, w) /\ NmsOK(n, w)
    BY <1>1
  <1>3. indexArray \in [1..n -> 0..n] /\ Suppressed(n, w, indexArray, overlap, n)
    BY <1>2 DEF NmsOK, NmsTurns, Ranked
  <1>4. n = validCount /\ w = Props(Proposed) /\ Box = 1..n
    BY <1>2 DEF Sorted, Box
  <1>5. \A b \in 1..n : w[b] = Proposed[b].prop
    <2>1. InputOK /\ classId = Ids(Proposed)
      BY DEF ProposeInv, Early
    <2> QED BY <1>4, <2>1, ProposedFacts DEF validCount
  <1>6. \A b : b \in Kept <=> b # 0 /\ \E p \in 1..n : indexArray[p] = b
    BY <1>3 DEF Kept, ToSet
  <1>7. ASSUME NEW b \in Kept, NEW c \in Kept, b # c PROVE {b, c} \notin overlap
    <2>1. PICK p \in 1..n, q \in 1..n : indexArray[p] = b /\ indexArray[q] = c /\ b # 0 /\ c # 0
      BY <1>6
    <2>2. p < q \/ q < p
      BY <1>7, <2>1
    <2>3. {b, c} = {c, b}
      OBVIOUS
    <2> QED BY <1>3, <2>1, <2>2, <2>3 DEF Suppressed
  <1>8. ASSUME NEW c \in Box \ Kept
        PROVE  \E b \in Kept : classId[b] = classId[c] /\ {b, c} \in overlap /\ Better(b, c)
    <2>1. c \in 1..n /\ c # 0 /\ c \notin Kept
      BY <1>4, <1>8
    <2>2. Dropped(n, indexArray, c)
      BY <1>6, <2>1 DEF Dropped
    <2>3. PICK p \in 1..n : By(w, indexArray, overlap, p, c)
      BY <1>3, <2>1, <2>2 DEF Suppressed
    <2>4. PICK b \in 1..n : b = indexArray[p] /\ b # 0 /\ {b, c} \in overlap /\ w[b] >= w[c]
      <3>1. indexArray[p] \in 0..n
        BY <1>3
      <3>2. PICK b : b = indexArray[p]
        OBVIOUS
      <3>3. b # 0 /\ {b, c} \in overlap /\ w[b] >= w[c]
        BY <2>3, <3>2 DEF By
      <3>4. b \in 1..n
        BY <3>1, <3>2, <3>3
      <3> QED BY <3>2, <3>3, <3>4
    <2>5. b \in Kept /\ b # c
      BY <1>6, <2>1, <2>4
    <2>6. Proposed[b].prop >= Proposed[c].prop /\ Proposed[b].prop \in Int /\ Proposed[c].prop \in Int
      BY <1>2, <1>5, <2>1, <2>4
    <2>7. Better(b, c)
      BY <2>5, <2>6 DEF Better
    <2>8. classId[b] = classId[c]
      BY <1>4, <2>1 DEF OneClass
    <2> QED BY <2>4, <2>5, <2>7, <2>8
  <1> QED BY <1>7, <1>8

(* IsGreedy: when all the boxes that are found are of one class, what is   *)
(* kept does not overlap and what is dropped overlaps a kept box that is   *)
(* as good, whatever the boxes' scores, equal ones among them, and         *)
(* whichever of them overlap.                                              *)
THEOREM GreedyForOneClass == Spec => [](OneClass => IsGreedy)
  <1>1. Init => ProposeInv /\ SortInv /\ NmsInv
    BY ProposeInit DEF Init, SortInv, SortPcs, NmsInv, NmsPcs
  <1>2. ProposeInv /\ SortInv /\ NmsInv /\ [Next]_vars => ProposeInv' /\ SortInv' /\ NmsInv'
    BY ProposeNext, SortNext, NmsNext
  <1>3. ProposeInv /\ SortInv /\ NmsInv => (OneClass => IsGreedy)
    BY NmsInvIs
  <1> QED BY <1>1, <1>2, <1>3, PTL DEF Spec

-----------------------------------------------------------------------------
(* The report. *)

Reported == [r \in 1..Min({Len(Places), OBJ_NUMB_MAX_SIZE}) |-> Result(Places[r])]

(* The places that are left, in their order, and as many boxes.            *)
Remain(n, m, pl) ==
    /\ pl \in [1..m -> 1..n]
    /\ \A r \in 1..m : indexArray[pl[r]] \in 1..n
    /\ \A r, t \in 1..m : r < t => pl[r] < pl[t]
    /\ \A b \in Kept : \E t \in 1..m : b = indexArray[pl[t]]
    /\ m = Cardinality(Kept)

LEMMA PlacesAre ==
    ASSUME NEW n \in Nat, NEW w, Ranked(n, w, indexArray, objProbs)
    PROVE  \E m \in Nat : Len(Places) = m /\ Remain(n, m, Places)
  <1>1. indexArray \in [1..n -> 0..n] /\ DOMAIN indexArray = 1..n
    BY DEF Ranked
  <1>2. PICK S \in SUBSET (1..n) : S = {p \in 1..n : indexArray[p] # 0}
    OBVIOUS
  <1>3. Places = Ascending(S)
    BY <1>1, <1>2 DEF Places
  <1>4. PICK m \in Nat : m = Cardinality(S) /\ IsFiniteSet(S)
    BY AscendingIs
  <1>5. /\ Places \in [1..m -> S]
        /\ \A r, t \in 1..m : r < t => Places[r] < Places[t]
        /\ \A p \in S : \E t \in 1..m : Places[t] = p
    BY <1>3, <1>4, AscendingIs DEF Lists
  <1>6. \A p \in S : indexArray[p] \in 1..n
    <2> SUFFICES ASSUME NEW p \in S PROVE indexArray[p] \in 1..n
      OBVIOUS
    <2>1. indexArray[p] \in 0..n /\ indexArray[p] # 0
      BY <1>1, <1>2
    <2> QED BY <2>1
  <1>7. \A b : b \in Kept <=> \E p \in S : b = indexArray[p]
    BY <1>1, <1>2 DEF Kept, ToSet
  <1>8. Cardinality(Kept) = m
    <2>1. PICK f : f = [p \in S |-> indexArray[p]]
      OBVIOUS
    <2>2. f \in Surjection(S, Kept)
      BY <1>7, <2>1 DEF Surjection
    <2>3. f \in Injection(S, Kept)
      <3>1. \A p, q \in S : p # q => f[p] # f[q]
        BY <1>2, <2>1 DEF Ranked
      <3>2. f \in [S -> Kept]
        BY <1>7, <2>1
      <3> QED BY <3>1, <3>2 DEF Injection, IsInjective
    <2>4. f \in Bijection(S, Kept)
      BY <2>2, <2>3 DEF Bijection
    <2>5. ExistsBijection(S, Kept)
      BY <2>4 DEF ExistsBijection
    <2> QED BY <1>4, <2>5, FS_Bijection
  <1>9. Len(Places) = m
    BY <1>5
  <1>10. Places \in [1..m -> 1..n] /\ \A r \in 1..m : indexArray[Places[r]] \in 1..n
    BY <1>5, <1>6
  <1>11. ASSUME NEW b \in Kept PROVE \E t \in 1..m : b = indexArray[Places[t]]
    <2>1. PICK p \in S : b = indexArray[p]
      BY <1>7
    <2> QED BY <1>5, <2>1
  <1> QED BY <1>5, <1>8, <1>9, <1>10, <1>11 DEF Remain

LEMMA ReportedIs ==
    ASSUME NEW n \in Nat, NEW w \in [1..n -> Int], Ranked(n, w, indexArray, objProbs),
           classId \in [1..n -> Class]
    PROVE  /\ Reported \in Seq([box : 1..n, id : Class, prop : Int])
           /\ Len(Reported) = Min({Cardinality(Kept), OBJ_NUMB_MAX_SIZE}) /\ Len(Reported) <= OBJ_NUMB_MAX_SIZE
           /\ \A r \in 1..Len(Reported) :
                  /\ Reported[r].box \in Kept /\ Reported[r].id = classId[Reported[r].box]
                  /\ Reported[r].prop = w[Reported[r].box]
                  /\ \A b \in Kept : (\A t \in 1..Len(Reported) : b # Reported[t].box) => w[b] <= Reported[r].prop
  <1>1. PICK m \in Nat : Len(Places) = m /\ Remain(n, m, Places)
    BY PlacesAre
  <1>2. PICK pl \in [1..m -> 1..n] : pl = Places
    BY <1>1 DEF Remain
  <1>3. PICK k \in Nat : k = Min({m, OBJ_NUMB_MAX_SIZE}) /\ k <= m /\ k <= OBJ_NUMB_MAX_SIZE
    <2>1. {m, OBJ_NUMB_MAX_SIZE} \in SUBSET Nat /\ {m, OBJ_NUMB_MAX_SIZE} # {}
      BY PostProcessAssumption
    <2> QED BY <2>1, MinIs
  <1>4. Reported = [r \in 1..k |-> Result(pl[r])]
    BY <1>1, <1>2, <1>3 DEF Reported
  <1>5. \A r \in 1..k : r \in 1..m
    BY <1>3
  <1>6. /\ indexArray \in [1..n -> 0..n] /\ objProbs \in [1..n -> Int]
        /\ \A p, q \in 1..n : p < q => objProbs[p] >= objProbs[q]
        /\ \A p \in 1..n : indexArray[p] # 0 => objProbs[p] = w[indexArray[p]]
    BY DEF Ranked
  <1>7. /\ \A r \in 1..m : indexArray[pl[r]] \in 1..n
        /\ \A r, t \in 1..m : r < t => pl[r] < pl[t]
        /\ \A b \in Kept : \E t \in 1..m : b = indexArray[pl[t]]
        /\ m = Cardinality(Kept)
    BY <1>1, <1>2 DEF Remain
  <1>8. ASSUME NEW r \in 1..k
        PROVE  /\ Result(pl[r]) \in [box : 1..n, id : Class, prop : Int]
               /\ Result(pl[r]).box = indexArray[pl[r]]
               /\ Result(pl[r]).id = classId[indexArray[pl[r]]]
               /\ Result(pl[r]).prop = w[indexArray[pl[r]]]
               /\ Result(pl[r]).prop = objProbs[pl[r]]
               /\ indexArray[pl[r]] \in Kept
    <2>1. pl[r] \in 1..n /\ indexArray[pl[r]] \in 1..n /\ indexArray[pl[r]] # 0
      BY <1>5, <1>7
    <2>2. objProbs[pl[r]] \in Int /\ objProbs[pl[r]] = w[indexArray[pl[r]]]
      BY <1>6, <2>1
    <2>3. classId[indexArray[pl[r]]] \in Class
      BY <2>1
    <2>4. indexArray[pl[r]] \in Kept
      BY <1>6, <2>1 DEF Kept, ToSet
    <2> QED BY <2>1, <2>2, <2>3, <2>4 DEF Result
  <1>9. Reported \in [1..k -> [box : 1..n, id : Class, prop : Int]]
    BY <1>4, <1>8
  <1>10. Reported \in Seq([box : 1..n, id : Class, prop : Int]) /\ Len(Reported) = k
    <2>1. PICK R : R = [box : 1..n, id : Class, prop : Int]
      OBVIOUS
    <2>2. PICK s \in [1..k -> R] : s = Reported
      BY <1>9, <2>1
    <2>3. s \in Seq(R) /\ Len(s) = k
      OBVIOUS
    <2> QED BY <2>1, <2>2, <2>3
  <1>11. ASSUME NEW r \in 1..k, NEW b \in Kept, \A t \in 1..k : b # Reported[t].box
         PROVE  w[b] <= Reported[r].prop
    <2>1. PICK t \in 1..m : b = indexArray[pl[t]]
      BY <1>7
    <2>2. t \notin 1..k
      BY <1>4, <1>8, <1>11, <2>1
    <2>3. r < t /\ r \in 1..m
      BY <1>5, <2>2
    <2>4. pl[r] < pl[t] /\ pl[r] \in 1..n /\ pl[t] \in 1..n
      BY <1>7, <2>3
    <2>5. objProbs[pl[r]] >= objProbs[pl[t]] /\ objProbs[pl[t]] = w[b]
      <3>1. indexArray[pl[t]] # 0
        BY <1>7
      <3> QED BY <1>6, <2>1, <2>4, <3>1
    <2>6. Reported[r].prop = objProbs[pl[r]] /\ objProbs[pl[r]] \in Int /\ objProbs[pl[t]] \in Int
      BY <1>4, <1>6, <1>8, <2>4
    <2> QED BY <2>5, <2>6
  <1>12. k = Min({Cardinality(Kept), OBJ_NUMB_MAX_SIZE})
    BY <1>3, <1>7
  <1>13. \A r \in 1..k : /\ Reported[r].box \in Kept /\ Reported[r].id = classId[Reported[r].box]
                         /\ Reported[r].prop = w[Reported[r].box]
    BY <1>4, <1>8
  <1> QED BY <1>3, <1>10, <1>11, <1>12, <1>13

GroupInv ==
    pc \in {"done", "crashed"} /\ validCount # 0 =>
        \E n \in Nat : \E w \in [1..n -> Int] :
            Sorted(n, w) /\ Ranked(n, w, indexArray, objProbs) /\ group = Reported

LEMMA GroupNext ==
    ASSUME ProposeInv, NmsInv, GroupInv, [Next]_vars
    PROVE  GroupInv'
  <1>1. CASE UNCHANGED callVars
    <2>1. UNCHANGED <<pc, input, classId, indexArray, objProbs, group>>
      BY <1>1 DEF callVars, boxVars
    <2>2. validCount' = validCount /\ Reported' = Reported
      BY <2>1 DEF Reported, Places, Result, validCount
    <2>3. SUFFICES ASSUME pc \in {"done", "crashed"}, validCount # 0 PROVE GroupInv'
      BY <2>1, <2>2 DEF GroupInv
    <2>4. PICK n \in Nat : \E w \in [1..n -> Int] :
              Sorted(n, w) /\ Ranked(n, w, indexArray, objProbs) /\ group = Reported
      BY <2>3 DEF GroupInv
    <2>5. PICK w \in [1..n -> Int] : Sorted(n, w) /\ Ranked(n, w, indexArray, objProbs) /\ group = Reported
      BY <2>4
    <2>6. Sorted(n, w)'
      BY <2>1, <2>5, SortedKept
    <2> QED BY <2>1, <2>2, <2>5, <2>6 DEF GroupInv
  <1>2. CASE collect
    <2>1. pc = "collect" /\ UNCHANGED <<input, classId, indexArray, objProbs>> /\ group' = Reported
      BY <1>2 DEF collect, Report, boxVars, Reported
    <2>2. PICK n \in Nat : \E w \in [1..n -> Int] : Sorted(n, w) /\ NmsOK(n, w)
      BY <2>1 DEF NmsInv, NmsPcs
    <2>3. PICK w \in [1..n -> Int] : Sorted(n, w) /\ Ranked(n, w, indexArray, objProbs)
      BY <2>2 DEF NmsOK
    <2>4. Sorted(n, w)'
      BY <2>1, <2>3, SortedKept
    <2>5. Reported' = Reported
      BY <2>1 DEF Reported, Places, Result
    <2> QED BY <2>1, <2>3, <2>4, <2>5 DEF GroupInv
  <1>3. CASE generate_proposals
    <2>1. pc' = "done" => validCount' = 0
      BY <1>3 DEF generate_proposals, validCount
    <2>2. pc' \in {"propose", "sort", "done"}
      BY <1>3 DEF generate_proposals
    <2> QED BY <2>1, <2>2 DEF GroupInv
  <1>4. CASE post_process \/ load \/ qsort_descent_inplace \/ down \/ up \/ place \/ nms_sorted_bboxes
    <2>1. pc' \notin {"done", "crashed"}
      BY <1>4 DEF post_process, load, qsort_descent_inplace, down, up, place, nms_sorted_bboxes, NextTurn
    <2> QED BY <2>1 DEF GroupInv
  <1> QED
    BY <1>1, <1>2, <1>3, <1>4 DEF Next, Detect, vars, other_calls, other_loads, deinitPostProcess

(* The invariants so far, of the steps of one call on its own boxes.       *)
CallInv == ProposeInv /\ SortInv /\ NmsInv /\ GroupInv

LEMMA CallInvHolds == Init => CallInv
BY ProposeInit DEF Init, SortInv, SortPcs, NmsInv, NmsPcs, GroupInv, CallInv

LEMMA CallInvKept == ASSUME CallInv, [Next]_vars PROVE CallInv'
BY ProposeNext, SortNext, NmsNext, GroupNext DEF CallInv

(* What is true of the boxes at hand past generate_proposals.              *)
LEMMA BoxesAre ==
    ASSUME ProposeInv, NEW n \in Nat, NEW w, Sorted(n, w), pc \notin Early
    PROVE  /\ n = validCount /\ Box = 1..n /\ classId \in [1..n -> Class] /\ classId \in Seq(Class)
           /\ \A b \in 1..n : classId[b] = Proposed[b].id /\ w[b] = Proposed[b].prop
  <1>1. InputOK /\ classId = Ids(Proposed) /\ w = Props(Proposed)
    BY DEF ProposeInv, Sorted
  <1>2. n = validCount /\ n = Len(Proposed)
    BY <1>1, ProposedFacts DEF Sorted, validCount
  <1>3. \A b \in 1..n : Ids(Proposed)[b] = Proposed[b].id
    BY <1>1, <1>2, ProposedFacts DEF Ids
  <1> QED BY <1>1, <1>2, <1>3, ProposedFacts DEF Box

LEMMA BestKeptHolds ==
    ASSUME CallInv
    PROVE  BestKept
  <1> SUFFICES ASSUME pc = "done", validCount > 0
               PROVE  /\ Len(group) = Min({Cardinality(Kept), OBJ_NUMB_MAX_SIZE})
                      /\ \A r \in DOMAIN group :
                             /\ group[r].box \in Kept /\ group[r].id = Proposed[group[r].box].id
                             /\ group[r].prop = Proposed[group[r].box].prop
                             /\ \A b \in Kept \ {group[q].box : q \in DOMAIN group} :
                                    Proposed[b].prop <= group[r].prop
    BY DEF BestKept
  <1>1. PICK n \in Nat : \E w \in [1..n -> Int] :
            Sorted(n, w) /\ Ranked(n, w, indexArray, objProbs) /\ group = Reported
    <2>1. validCount # 0
      OBVIOUS
    <2> QED BY <2>1 DEF CallInv, GroupInv
  <1>2. PICK w \in [1..n -> Int] : Sorted(n, w) /\ Ranked(n, w, indexArray, objProbs) /\ group = Reported
    BY <1>1
  <1>3. /\ classId \in [1..n -> Class]
        /\ \A b \in 1..n : classId[b] = Proposed[b].id /\ w[b] = Proposed[b].prop
    BY <1>2, BoxesAre DEF CallInv, Early
  <1>4. PICK R : R = [box : 1..n, id : Class, prop : Int]
    OBVIOUS
  <1>5. /\ group \in Seq(R) /\ Len(group) = Min({Cardinality(Kept), OBJ_NUMB_MAX_SIZE})
        /\ \A r \in 1..Len(group) :
               /\ group[r].box \in Kept /\ group[r].id = classId[group[r].box]
               /\ group[r].prop = w[group[r].box]
               /\ \A b \in Kept : (\A t \in 1..Len(group) : b # group[t].box) => w[b] <= group[r].prop
    BY <1>2, <1>3, <1>4, ReportedIs
  <1>6. DOMAIN group = 1..Len(group)
    BY <1>5
  <1>7. Kept \subseteq 1..n
    <2>1. indexArray \in [1..n -> 0..n]
      BY <1>2 DEF Ranked
    <2> QED BY <2>1 DEF Kept, ToSet
  <1>8. ASSUME NEW r \in DOMAIN group
        PROVE  /\ group[r].box \in Kept /\ group[r].id = Proposed[group[r].box].id
               /\ group[r].prop = Proposed[group[r].box].prop
    BY <1>3, <1>5, <1>6, <1>7
  <1>9. ASSUME NEW r \in DOMAIN group, NEW b \in Kept \ {group[q].box : q \in DOMAIN group}
        PROVE  Proposed[b].prop <= group[r].prop
    <2>1. \A t \in 1..Len(group) : b # group[t].box
      BY <1>6
    <2>2. w[b] <= group[r].prop
      BY <1>5, <1>6, <2>1
    <2> QED BY <1>3, <1>7, <2>2
  <1> QED BY <1>5, <1>8, <1>9

-----------------------------------------------------------------------------
(* The cells that become boxes, counted over the heads. *)

PassedIn(h) == {<<h, m>> : m \in Passing(h)}
Passed(h)   == UNION {PassedIn(g) : g \in 1..h}

LEMMA PassedInIs ==
    ASSUME InputOK, NEW h \in DOMAIN Heads
    PROVE  IsFiniteSet(PassedIn(h)) /\ Cardinality(PassedIn(h)) = Len(Found(h))
  <1>1. Len(Found(h)) = Cardinality(Passing(h)) /\ IsFiniteSet(Passing(h))
    BY FoundType
  <1>2. PICK f : f = [m \in Passing(h) |-> <<h, m>>]
    OBVIOUS
  <1>3. f \in [Passing(h) -> PassedIn(h)]
    BY <1>2 DEF PassedIn
  <1>4. f \in Injection(Passing(h), PassedIn(h))
    <2>1. \A a, b \in Passing(h) : f[a] = f[b] => a = b
      BY <1>2
    <2> QED BY <1>3, <2>1 DEF Injection, IsInjective
  <1>5. f \in Surjection(Passing(h), PassedIn(h))
    <2>1. \A c \in PassedIn(h) : \E m \in Passing(h) : f[m] = c
      BY <1>2 DEF PassedIn
    <2> QED BY <1>3, <2>1 DEF Surjection
  <1>6. ExistsBijection(Passing(h), PassedIn(h))
    BY <1>4, <1>5 DEF Bijection, ExistsBijection
  <1> QED BY <1>1, <1>6, FS_Bijection

LEMMA PassedIs ==
    ASSUME InputOK
    PROVE  \A h \in 0..Len(Heads) : IsFiniteSet(Passed(h)) /\ Cardinality(Passed(h)) = Len(Upto(h))
  <1>1. Len(Heads) \in Nat \ {0} /\ DOMAIN Heads = 1..Len(Heads)
    BY PostProcessAssumption
  <1> DEFINE Good(h) == IsFiniteSet(Passed(h)) /\ Cardinality(Passed(h)) = Len(Upto(h))
             T == {h \in 0..Len(Heads) : ~Good(h)}
  <1>2. SUFFICES ASSUME T # {} PROVE FALSE
    OBVIOUS
  <1>3. T \in SUBSET Nat
    BY <1>1
  <1>4. PICK h \in T : \A k \in T : h <= k
    BY <1>2, <1>3, Least
  <1>5. h # 0
    <2>1. Passed(0) = {}
      BY DEF Passed
    <2>2. Good(0)
      BY <2>1, FS_EmptySet DEF Upto
    <2> QED BY <1>4, <2>2
  <1>6. h \in 1..Len(Heads) /\ h - 1 \in 0..Len(Heads) /\ ~(h <= h - 1)
    BY <1>1, <1>4, <1>5
  <1>7. Good(h - 1)
    BY <1>4, <1>6
  <1>8. PICK A, B : A = Passed(h - 1) /\ B = PassedIn(h)
    OBVIOUS
  <1>9. Passed(h) = A \cup B
    <2>1. \A g : g \in 1..h <=> g \in 1..(h - 1) \/ g = h
      BY <1>6
    <2> QED BY <1>8, <2>1 DEF Passed
  <1>10. A \cap B = {}
    <2>1. \A c \in A : c[1] \in 1..(h - 1)
      BY <1>8 DEF Passed, PassedIn
    <2>2. \A c \in B : c[1] = h
      BY <1>8 DEF PassedIn
    <2>3. h \notin 1..(h - 1)
      BY <1>6
    <2> QED BY <2>1, <2>2, <2>3
  <1>11. /\ IsFiniteSet(A) /\ Cardinality(A) = Len(Upto(h - 1))
         /\ IsFiniteSet(B) /\ Cardinality(B) = Len(Found(h))
    BY <1>1, <1>6, <1>7, <1>8, PassedInIs
  <1>12. Upto(h - 1) \in Seq(Boxed) /\ Found(h) \in Seq(Boxed)
    BY <1>1, <1>6, UptoType, FoundType
  <1>13. Len(Upto(h)) = Len(Upto(h - 1)) + Len(Found(h))
    <2>1. CASE h = 1
      <3>1. Upto(h) = Found(h) /\ Upto(h - 1) = <<>>
        BY <1>6, <2>1, FlatIs DEF Upto
      <3> QED BY <1>12, <3>1
    <2>2. CASE h # 1
      <3>1. Upto(h) = Upto(h - 1) \o Found(h)
        BY <1>6, <2>2, FlatIs
      <3> QED BY <1>12, <3>1
    <2> QED BY <2>1, <2>2
  <1>14. IsFiniteSet(A \cup B) /\ Cardinality(A \cup B) = Cardinality(A) + Cardinality(B)
    <2>1. Cardinality(A \cap B) = 0
      BY <1>10, FS_EmptySet
    <2>2. Cardinality(A) \in Nat /\ Cardinality(B) \in Nat
      BY <1>11, FS_CardinalityType
    <2>3. IsFiniteSet(A \cup B) /\ Cardinality(A \cup B) = Cardinality(A) + Cardinality(B) - Cardinality(A \cap B)
      BY <1>11, FS_Union
    <2> QED BY <2>1, <2>2, <2>3
  <1>15. Good(h)
    BY <1>9, <1>11, <1>13, <1>14
  <1> QED BY <1>4, <1>15

(* The threshold is one of the numbers of each head, as one half is of     *)
(* outputs that are scores or their logits.                                *)
Representable == \A h \in DOMAIN Heads : Logit(-128, h) <= thres /\ thres <= Logit(127, h)

LEMMA PassedBetween ==
    ASSUME InputOK, Representable
    PROVE  /\ {c \in Cells : Clear(c)} \subseteq Passed(Len(Heads))
           /\ Passed(Len(Heads)) \subseteq {c \in Cells : Near(c)}
  <1>1. DOMAIN Heads = 1..Len(Heads)
    BY PostProcessAssumption
  <1>2. \A h, m : <<h, m>> \in Cells <=> h \in DOMAIN Heads /\ m \in 1..Heads[h]
    BY DEF Cells
  <1>3. \A c \in Cells : \E h \in DOMAIN Heads : \E m \in 1..Heads[h] : c = <<h, m>>
    BY DEF Cells
  <1>4. \A h, m : <<h, m>> \in Passed(Len(Heads)) <=> h \in DOMAIN Heads /\ m \in Passing(h)
    BY <1>1 DEF Passed, PassedIn
  <1>5. \A c \in Passed(Len(Heads)) : \E h \in DOMAIN Heads : \E m \in Passing(h) : c = <<h, m>>
    BY <1>1 DEF Passed, PassedIn
  <1>6. ASSUME NEW h \in DOMAIN Heads, NEW m \in 1..Heads[h]
        PROVE  /\ Clear(<<h, m>>) => m \in Passing(h)
               /\ m \in Passing(h) => Near(<<h, m>>)
    <2> DEFINE cell == input[h][m]
               zp == qnt_zps[h]
               scale == qnt_scales[h]
               v(q) == deqnt_affine_to_f32(q, zp, scale)
    <2>1. cell \in Cell /\ m \in DOMAIN input[h]
      BY DEF InputOK
    <2>2. PICK conf \in Int8, prob \in Int8 : conf = cell.conf /\ prob = cell.prob[MaxClass(cell)]
      BY <2>1, MaxClassIs, PostProcessAssumption DEF Cell
    <2>3. zp \in Int /\ scale \in Nat \ {0} /\ thres \in Int
      BY PostProcessAssumption
    <2>4. PICK t \in Int8 : t = thres_i8(h)
      BY <2>3, ThresholdWithinStep DEF thres_i8
    <2>5. /\ \A q \in Int8 : v(q) >= thres => q >= t
          /\ \A q \in Int8 : q >= t => v(q) > thres - scale \/ thres > v(127)
          /\ \A q \in Int8 : q > t => v(q) > thres
      BY <2>3, <2>4, ThresholdWithinStep DEF thres_i8
    <2>6. v(-128) <= thres /\ thres <= v(127)
      BY DEF Representable, Logit
    <2>7. \A q \in Int : v(q) \in Int /\ v(q) = v(q - 1) + scale
      BY <2>3 DEF deqnt_affine_to_f32
    <2>8. /\ Clear(<<h, m>>) <=> v(conf) >= thres /\ v(prob) >= thres + scale
          /\ Near(<<h, m>>) <=> v(conf) > thres - scale /\ v(prob) > thres
      BY <2>2 DEF Clear, Near, Conf, Prob, Logit
    <2>9. m \in Passing(h) <=> conf >= t /\ prob > t
      BY <2>1, <2>2, <2>4 DEF Passing, Passes
    <2> HIDE DEF v, cell, scale, zp
    <2>10. ASSUME v(prob) >= thres + scale PROVE prob > t
      <3>1. prob # -128
        BY <2>3, <2>6, <2>7, <2>10
      <3>2. prob - 1 \in Int8 /\ prob \in Int
        BY <3>1 DEF Int8
      <3>3. v(prob - 1) >= thres
        BY <2>3, <2>7, <2>10, <3>2
      <3>4. prob - 1 >= t /\ t \in Int
        BY <2>5, <3>2, <3>3 DEF Int8
      <3> QED BY <3>2, <3>4
    <2>11. conf >= t => v(conf) > thres - scale
      <3>1. v(127) \in Int
        BY <2>7
      <3> QED BY <2>3, <2>5, <2>6, <3>1
    <2> QED BY <2>5, <2>8, <2>9, <2>10, <2>11
  <1>7. \A h \in DOMAIN Heads : Passing(h) \subseteq 1..Heads[h]
    BY FoundType
  <1>8. ASSUME NEW c \in Cells, Clear(c) PROVE c \in Passed(Len(Heads))
    BY <1>3, <1>4, <1>6, <1>8
  <1>9. ASSUME NEW c \in Passed(Len(Heads)) PROVE c \in Cells /\ Near(c)
    BY <1>2, <1>5, <1>6, <1>7
  <1> QED BY <1>8, <1>9

LEMMA WithinStepHolds ==
    ASSUME ProposeInv, Representable
    PROVE  WithinStep
  <1> SUFFICES ASSUME pc = "done"
               PROVE  /\ Cardinality({c \in Cells : Clear(c)}) <= validCount
                      /\ validCount <= Cardinality({c \in Cells : Near(c)})
    BY DEF WithinStep
  <1>1. InputOK /\ classId = Ids(Proposed)
    BY DEF ProposeInv, Early
  <1>2. PICK P : P = Passed(Len(Heads)) /\ IsFiniteSet(P) /\ Cardinality(P) = validCount
    <2>1. Len(Heads) \in 0..Len(Heads)
      BY PostProcessAssumption
    <2>2. Len(Upto(Len(Heads))) = validCount
      BY <1>1, FlatIs, ProposedFacts DEF validCount
    <2> QED BY <1>1, <2>1, <2>2, PassedIs
  <1>3. PICK C, D : C = {c \in Cells : Clear(c)} /\ D = {c \in Cells : Near(c)}
    OBVIOUS
  <1>4. C \subseteq P /\ P \subseteq D
    BY <1>1, <1>2, <1>3, PassedBetween
  <1>5. IsFiniteSet(D)
    <2>1. \A h \in DOMAIN Heads : IsFiniteSet({h} \X (1..Heads[h]))
      <3> SUFFICES ASSUME NEW h \in DOMAIN Heads PROVE IsFiniteSet({h} \X (1..Heads[h]))
        OBVIOUS
      <3>1. PICK m \in Nat : m = Heads[h]
        BY PostProcessAssumption
      <3>2. IsFiniteSet(1..m)
        BY FS_Interval
      <3>3. IsFiniteSet({h})
        BY FS_Singleton
      <3> QED BY <3>1, <3>2, <3>3, FS_Product
    <2>2. IsFiniteSet(DOMAIN Heads)
      <3>1. DOMAIN Heads = 1..Len(Heads) /\ Len(Heads) \in Nat
        BY PostProcessAssumption
      <3> QED BY <3>1, FS_Interval
    <2>3. PICK U : U = {{h} \X (1..Heads[h]) : h \in DOMAIN Heads}
      OBVIOUS
    <2>4. PICK f : f = [h \in DOMAIN Heads |-> {h} \X (1..Heads[h])]
      OBVIOUS
    <2>5. f \in Surjection(DOMAIN Heads, U)
      BY <2>3, <2>4 DEF Surjection
    <2>6. IsFiniteSet(U)
      BY <2>2, <2>5, FS_Surjection
    <2>7. \A S \in U : IsFiniteSet(S)
      BY <2>1, <2>3
    <2>8. IsFiniteSet(UNION U)
      BY <2>6, <2>7, FS_UNION
    <2> QED BY <1>3, <2>3, <2>8, FS_Subset DEF Cells
  <1>6. Cardinality(C) <= Cardinality(P)
    BY <1>2, <1>4, FS_Subset
  <1>7. Cardinality(P) <= Cardinality(D)
    BY <1>4, <1>5, FS_Subset
  <1> QED BY <1>2, <1>3, <1>6, <1>7

(* ReportsBest: the report is the best of what is kept, and the boxes are  *)
(* as many as a threshold within a step of the real one lets through, on   *)
(* the own scale of each head - for any heads, scales and zero points on   *)
(* which the threshold is one of the head's numbers.                       *)
THEOREM ReportIsBest ==
  ASSUME Representable
  PROVE  Spec => []ReportsBest
  <1>1. CallInv => ReportsBest
    BY BestKeptHolds, WithinStepHolds DEF ReportsBest, CallInv
  <1> QED BY <1>1, CallInvHolds, CallInvKept, PTL DEF Spec

-----------------------------------------------------------------------------
(* The labels. *)

(* What a session has read of the file has its labels; with the file long  *)
(* enough, all are there when the labels count as loaded, when this call   *)
(* is past them or when the other session has been through.                *)
Loaded == init \/ other = Back \/ pc \notin {"init", "labels"}
LabelsInv ==
    /\ line \in 0..OBJ_CLASS_NUM /\ other \in {Out, Back} \cup 0..OBJ_CLASS_NUM
    /\ may.lines >= OBJ_CLASS_NUM /\ "deinit" \notin may.others =>
           /\ 1..line \subseteq labels
           /\ other >= 0 => 1..other \subseteq labels
           /\ Loaded => Class \subseteq labels
           /\ pc # "crashed"

(* A line more: the label of the next class, or the end of the file.       *)
LEMMA LoadIs ==
    ASSUME NEW read \in 0..OBJ_CLASS_NUM, loadLabelName(read)
    PROVE  /\ labels \subseteq labels' /\ (init => init')
           /\ More(read) => /\ read + 1 \in 0..OBJ_CLASS_NUM /\ UNCHANGED init
                            /\ 1..read \subseteq labels => 1..(read + 1) \subseteq labels'
           /\ ~More(read) /\ may.lines \in Nat /\ may.lines >= OBJ_CLASS_NUM => read = OBJ_CLASS_NUM
  <1>1. OBJ_CLASS_NUM \in Nat
    BY PostProcessAssumption
  <1>2. labels \subseteq labels' /\ (init => init')
    BY DEF loadLabelName
  <1>3. CASE More(read)
    <2>1. labels' = labels \cup {read + 1} /\ UNCHANGED init /\ read < OBJ_CLASS_NUM
      BY <1>3 DEF loadLabelName, More
    <2>2. read + 1 \in 0..OBJ_CLASS_NUM /\ \A m \in 1..(read + 1) : m \in 1..read \/ m = read + 1
      BY <1>1, <2>1
    <2> QED BY <1>2, <1>3, <2>1, <2>2
  <1>4. CASE ~More(read)
    <2>1. may.lines \in Nat /\ may.lines >= OBJ_CLASS_NUM => ~(read < OBJ_CLASS_NUM)
      BY <1>1, <1>4 DEF More
    <2> QED BY <1>1, <1>2, <1>4, <2>1
  <1> QED BY <1>3, <1>4

LEMMA LabelsInit == Init => LabelsInv /\ may \in Scenarios
  <1> SUFFICES ASSUME Init PROVE LabelsInv
    BY DEF Init
  <1>1. ~(Out >= 0) /\ Out # Back /\ 0 \in 0..OBJ_CLASS_NUM
    BY PostProcessAssumption DEF Out, Back
  <1>2. 1..0 = {}
    OBVIOUS
  <1> QED BY <1>1, <1>2 DEF Init, LabelsInv, Loaded

(* collect copies labels of classes only.                                  *)
LEMMA CollectIds ==
    ASSUME CallInv, collect
    PROVE  \A r \in DOMAIN group' : group'[r].id \in Class
  <1>1. pc = "collect" /\ group' = Reported
    BY DEF collect, Report, Reported
  <1>2. PICK n \in Nat : \E w \in [1..n -> Int] : Sorted(n, w) /\ NmsOK(n, w)
    BY <1>1 DEF NmsInv, NmsPcs, CallInv
  <1>3. PICK w \in [1..n -> Int] : Sorted(n, w) /\ Ranked(n, w, indexArray, objProbs)
    BY <1>2 DEF NmsOK
  <1>4. classId \in [1..n -> Class]
    BY <1>1, <1>3, BoxesAre DEF CallInv, Early
  <1>5. PICK R : R = [box : 1..n, id : Class, prop : Int]
    OBVIOUS
  <1>6. Reported \in Seq(R)
    BY <1>3, <1>4, <1>5, ReportedIs
  <1>7. \A r \in DOMAIN Reported : Reported[r] \in R
    BY <1>6
  <1> QED BY <1>1, <1>5, <1>7

LEMMA LabelsNext ==
    ASSUME CallInv, LabelsInv, may \in Scenarios, [Next]_vars
    PROVE  LabelsInv' /\ may' \in Scenarios
  <1>1. OBJ_CLASS_NUM \in Nat /\ may.lines \in Nat /\ may' = may /\ Class = 1..OBJ_CLASS_NUM
    BY PostProcessAssumption DEF Next, vars, Class
  <1> DEFINE Long == may.lines >= OBJ_CLASS_NUM /\ "deinit" \notin may.others
  <1>2. CASE UNCHANGED <<labelVars, pc>>
    BY <1>1, <1>2 DEF LabelsInv, Loaded, labelVars
  <1>3. CASE post_process
    <2>1. UNCHANGED labelVars /\ pc = "init" /\ pc' = IF init THEN "propose" ELSE "labels"
      BY <1>3 DEF post_process
    <2> QED BY <1>1, <2>1 DEF LabelsInv, Loaded, labelVars
  <1>4. CASE load
    <2>1. pc = "labels" /\ loadLabelName(line) /\ other' = other
      BY <1>4 DEF load
    <2>2. line \in 0..OBJ_CLASS_NUM
      BY DEF LabelsInv
    <2>3. CASE More(line)
      <3>1. line' = line + 1 /\ pc' = pc /\ init' = init
        BY <1>4, <2>1, <2>2, <2>3, LoadIs DEF load
      <3> QED BY <1>1, <2>1, <2>2, <2>3, <3>1, LoadIs DEF LabelsInv, Loaded
    <2>4. CASE ~More(line)
      <3>1. line' = line /\ pc' = "propose"
        BY <1>4, <2>4 DEF load
      <3>2. Long => line = OBJ_CLASS_NUM
        BY <1>1, <2>1, <2>2, <2>4, LoadIs
      <3> QED BY <1>1, <2>1, <2>2, <3>1, <3>2, LoadIs DEF LabelsInv, Loaded
    <2> QED BY <2>3, <2>4
  <1>5. CASE other_calls
    <2>1. other = Out /\ other' = 0 /\ UNCHANGED <<init, labels, line, pc>>
      BY <1>5 DEF other_calls, callVars
    <2>2. 1..0 = {} /\ 0 \in 0..OBJ_CLASS_NUM /\ 0 # Back
      BY <1>1 DEF Back
    <2> QED BY <1>1, <2>1, <2>2 DEF LabelsInv, Loaded
  <1>6. CASE other_loads
    <2>1. other >= 0 /\ loadLabelName(other) /\ UNCHANGED <<line, pc>>
          /\ other' = IF More(other) THEN other + 1 ELSE Back
      BY <1>6 DEF other_loads, callVars
    <2>2. other \in 0..OBJ_CLASS_NUM /\ other # Back /\ ~(Back >= 0)
      BY <2>1 DEF LabelsInv, Out, Back
    <2>3. CASE More(other)
      <3>1. other' = other + 1 /\ init' = init
        BY <2>1, <2>2, <2>3, LoadIs
      <3>2. other + 1 \in 0..OBJ_CLASS_NUM /\ other + 1 # Back
        BY <2>1, <2>2, <2>3, LoadIs DEF Back
      <3> QED BY <1>1, <2>1, <2>2, <2>3, <3>1, <3>2, LoadIs DEF LabelsInv, Loaded
    <2>4. CASE ~More(other)
      <3>1. Long => other = OBJ_CLASS_NUM
        BY <1>1, <2>1, <2>2, <2>4, LoadIs
      <3> QED BY <1>1, <2>1, <2>2, <2>4, <3>1, LoadIs DEF LabelsInv, Loaded
    <2> QED BY <2>3, <2>4
  <1>7. CASE deinitPostProcess
    <2>1. "deinit" \in may.others /\ UNCHANGED <<init, line, other, pc>>
      BY <1>7 DEF deinitPostProcess, callVars
    <2> QED BY <1>1, <2>1 DEF LabelsInv
  <1>8. CASE (generate_proposals \/ qsort_descent_inplace \/ down \/ up \/ place \/ nms_sorted_bboxes)
             /\ UNCHANGED labelVars
    <2>1. pc \notin {"init", "labels"} /\ pc' \notin {"init", "labels", "crashed"}
      BY <1>8 DEF generate_proposals, qsort_descent_inplace, down, up, place, nms_sorted_bboxes, NextTurn
    <2> QED BY <1>1, <1>8, <2>1 DEF LabelsInv, Loaded, labelVars
  <1>9. CASE collect /\ UNCHANGED labelVars
    <2>1. pc = "collect" /\ pc' = IF \A r \in DOMAIN group' : group'[r].id \in labels THEN "done" ELSE "crashed"
      BY <1>9 DEF collect, Report
    <2>2. Long => pc' = "done"
      <3>1. Long => Class \subseteq labels
        BY <2>1 DEF LabelsInv, Loaded
      <3> QED BY <1>9, <2>1, <3>1, CollectIds
    <2>3. pc' \in {"done", "crashed"}
      BY <2>1
    <2> QED BY <1>1, <1>9, <2>1, <2>2, <2>3 DEF LabelsInv, Loaded, labelVars
  <1> QED
    BY <1>2, <1>3, <1>4, <1>5, <1>6, <1>7, <1>8, <1>9 DEF Next, Detect, vars, callVars

(* LabelsKnown: whoever loads the labels, and although two sessions may    *)
(* load them at once, a detection has its label unless the file is short   *)
(* or the labels have been freed - for any classes and any label file.     *)
THEOREM LabelsAreKnown == Spec => []LabelsKnown
  <1> DEFINE Inv == CallInv /\ LabelsInv /\ may \in Scenarios
  <1>1. Init => Inv
    BY CallInvHolds, LabelsInit
  <1>2. Inv /\ [Next]_vars => Inv'
    BY CallInvKept, LabelsNext
  <1>3. Inv => LabelsKnown
    <2>1. may \in Scenarios => may.lines \in Nat /\ OBJ_CLASS_NUM \in Nat
      BY PostProcessAssumption
    <2> QED BY <2>1 DEF LabelsInv, LabelsKnown
  <1> QED BY <1>1, <1>2, <1>3, PTL DEF Spec

-----------------------------------------------------------------------------
(* The types. *)

(* What the other invariants leave open: the locals between the calls that *)
(* use them, and a call that found nothing.                                *)
RestInv ==
    /\ pc \in Pcs /\ init \in BOOLEAN /\ labels \subseteq Class
    /\ low \in 0..validCount /\ high \in 0..validCount /\ i \in 0..validCount
    /\ stack \in Seq(Nat \X Nat) /\ overlap \subseteq SUBSET Box /\ filterId \in Class \cup {0}
    /\ pc \notin {"done", "crashed"} => group = <<>>
    /\ pc \in {"done", "crashed"} /\ validCount = 0 => objProbs = <<>> /\ indexArray = <<>> /\ group = <<>>

LEMMA ClassesAre ==
    ASSUME CallInv
    PROVE  classId \in Seq(Class) /\ validCount \in Nat
  <1>1. InputOK /\ head \in 1..Len(Heads) /\ Len(Heads) \in Nat
    BY PostProcessAssumption DEF CallInv, ProposeInv
  <1>2. CASE pc \in Early
    <2>1. classId = Ids(Upto(head - 1)) /\ head - 1 \in 0..Len(Heads)
      BY <1>1, <1>2 DEF CallInv, ProposeInv
    <2>2. Upto(head - 1) \in Seq(Boxed)
      BY <1>1, <2>1, UptoType
    <2>3. classId \in Seq(Class)
      BY <2>1, <2>2, IdsType
    <2> QED BY <2>3 DEF validCount
  <1>3. CASE pc \notin Early
    <2>1. classId \in Seq(Class)
      BY <1>1, <1>3, ProposedFacts DEF CallInv, ProposeInv
    <2> QED BY <2>1 DEF validCount
  <1> QED BY <1>2, <1>3

LEMMA SidesAre ==
    ASSUME SortInv, pc \in SortPcs
    PROVE  stack \in Seq(Nat \X Nat) /\ (pc # "sort" => low \in 1..validCount /\ high \in 1..validCount)
  <1>1. PICK n \in Nat : \E w \in [1..n -> Int] : Sorted(n, w) /\ SortOK(n, w)
    BY DEF SortInv
  <1>2. PICK w \in [1..n -> Int] : Sorted(n, w) /\ SortOK(n, w)
    BY <1>1
  <1>3. n = validCount /\ Apart(n, stack)
    BY <1>2 DEF Sorted, SortOK
  <1>4. CASE pc # "sort"
    <2>1. Sorting
      BY <1>4 DEF Sorting, SortPcs
    <2>2. low \in 1..n /\ high \in 1..n
      BY <1>2, <2>1, PartitionFacts
    <2> QED BY <1>3, <2>2 DEF Apart
  <1> QED BY <1>3, <1>4 DEF Apart

(* The same of the state after a step.                                     *)
Typed == /\ classId \in Seq(Class) /\ validCount \in Nat
         /\ pc \in SortPcs => /\ stack \in Seq(Nat \X Nat)
                              /\ pc # "sort" => low \in 1..validCount /\ high \in 1..validCount

LEMMA TypedAfter == CallInv' => Typed'
  <1>1. CallInv => Typed
    BY ClassesAre, SidesAre DEF CallInv, Typed
  <1> QED BY <1>1, PTL

LEMMA RestInit == Init => RestInv
  <1> SUFFICES ASSUME Init PROVE RestInv
    OBVIOUS
  <1>1. /\ pc = "init" /\ init = FALSE /\ labels = {} /\ classId = <<>> /\ low = 0 /\ high = 0 /\ i = 0
        /\ stack = <<>> /\ overlap = {} /\ filterId = 0 /\ group = <<>>
    BY DEF Init
  <1>2. 0 \in 0..validCount /\ <<>> \in Seq(Nat \X Nat)
    BY <1>1 DEF validCount
  <1> QED BY <1>1, <1>2 DEF RestInv, Pcs

(* The class of a place to come.                                           *)
LEMMA FirstClass ==
    ASSUME NEW S, S \subseteq Class, S # {}
    PROVE  Min(S) \in Class
  <1>1. S \in SUBSET Nat
    BY DEF Class
  <1> QED BY <1>1, MinIs

LEMMA RestNext ==
    ASSUME CallInv, CallInv', LabelsInv, may \in Scenarios, RestInv, [Next]_vars
    PROVE  RestInv'
  <1>1. classId \in Seq(Class) /\ classId' \in Seq(Class) /\ validCount \in Nat /\ validCount' \in Nat
    BY ClassesAre, TypedAfter DEF Typed
  <1>2. CASE UNCHANGED vars
    BY <1>2 DEF RestInv, vars, callVars, labelVars, boxVars, sortVars, validCount, Box
  <1>3. CASE InputSteps
    <2>1. UNCHANGED <<classId, objProbs, indexArray, low, high, i, stack, overlap, filterId, group>>
      BY <1>3 DEF InputSteps, post_process, load, other_calls, other_loads, deinitPostProcess, callVars, boxVars, sortVars
    <2>2. \/ pc' = pc
          \/ pc \in {"init", "labels"} /\ pc' \in {"labels", "propose"}
      BY <1>3 DEF InputSteps, post_process, load, other_calls, other_loads, deinitPostProcess, callVars
    <2>3. init' \in BOOLEAN /\ labels' \subseteq Class
      <3>1. CASE load \/ other_loads
        <4>1. PICK read \in 0..OBJ_CLASS_NUM : loadLabelName(read)
          BY <3>1 DEF load, other_loads, LabelsInv, Out, Back
        <4>2. More(read) => read + 1 \in Class
          BY PostProcessAssumption DEF More, Class
        <4> QED BY <4>1, <4>2 DEF loadLabelName, RestInv
      <3>2. CASE post_process \/ other_calls \/ deinitPostProcess
        BY <3>2 DEF post_process, other_calls, deinitPostProcess, labelVars, RestInv
      <3> QED BY <1>3, <3>1, <3>2 DEF InputSteps
    <2> QED BY <2>1, <2>2, <2>3 DEF RestInv, Pcs, validCount, Box
  <1>4. CASE generate_proposals /\ UNCHANGED labelVars
    <2>1. pc = "propose" /\ UNCHANGED <<low, high, overlap, filterId, i, group>>
      BY <1>4 DEF generate_proposals
    <2>2. low = 0 /\ high = 0 /\ overlap = {} /\ filterId = 0 /\ i = 0 /\ group = <<>> /\ stack = <<>>
      BY <2>1 DEF CallInv, ProposeInv, Early
    <2>3. \/ pc' = "propose" /\ stack' = stack
          \/ /\ pc' \in {"done", "sort"} /\ stack' = <<<<1, validCount'>>>>
             /\ indexArray' = [b \in DOMAIN classId' |-> b]
      BY <1>4, <2>1 DEF generate_proposals, validCount
    <2>4. stack' \in Seq(Nat \X Nat)
      <3>1. PICK side \in Nat \X Nat : side = <<1, validCount'>>
        BY <1>1
      <3>2. <<side>> \in Seq(Nat \X Nat) /\ <<>> \in Seq(Nat \X Nat)
        OBVIOUS
      <3> QED BY <2>2, <2>3, <3>1, <3>2
    <2>5. validCount' = 0 => objProbs' = <<>> /\ DOMAIN classId' = {}
      <3>1. classId' = Ids(Upto(head)) /\ objProbs' = Props(Upto(head)) /\ Upto(head) \in Seq(Boxed)
        BY <1>4, <2>1, ProposeStep DEF CallInv
      <3>2. Len(Upto(head)) = validCount'
        BY <3>1, IdsType DEF validCount
      <3>3. validCount' = 0 => Upto(head) = <<>>
        BY <3>1, <3>2
      <3> QED BY <1>1, <3>1, <3>3 DEF Props, Ids
    <2>6. validCount' = 0 => [b \in DOMAIN classId' |-> b] = <<>>
      BY <2>5
    <2>7. labels' = labels /\ init' = init
      BY <1>4 DEF labelVars
    <2> QED BY <1>1, <2>1, <2>2, <2>3, <2>4, <2>5, <2>6, <2>7 DEF RestInv, Pcs
  <1>5. CASE (qsort_descent_inplace \/ down \/ up \/ place) /\ UNCHANGED labelVars
    <2>1. UNCHANGED <<classId, group, init, labels>> /\ pc \in SortPcs /\ pc' \in SortPcs \cup {"nms"}
      BY <1>5 DEF qsort_descent_inplace, down, up, place, boxVars, labelVars, SortPcs
    <2>2. validCount' = validCount /\ Box' = Box
      BY <2>1 DEF validCount, Box
    <2>3. CASE pc' = "nms"
      <3>1. /\ qsort_descent_inplace /\ UNCHANGED <<low, high, stack>>
            /\ filterId' = Min(ToSet(classId)) /\ i' = 1 /\ overlap' \in Overlaps(validCount)
        BY <1>5, <2>3 DEF qsort_descent_inplace, down, up, place, sortVars
      <3>2. PICK n \in Nat : n = validCount /\ n # 0
        <4>1. pc \in SortPcs
          BY <2>1
        <4> QED BY <1>1, <4>1 DEF CallInv, SortInv, Sorted
      <3>3. filterId' \in Class
        <4>1. 1 \in DOMAIN classId /\ \A p \in DOMAIN classId : classId[p] \in Class
          BY <1>1, <3>2 DEF validCount
        <4>2. ToSet(classId) \subseteq Class /\ ToSet(classId) # {}
          BY <4>1 DEF ToSet
        <4> QED BY <3>1, <4>2, FirstClass
      <3>4. overlap' \subseteq SUBSET Box
        BY <3>1 DEF Overlaps, Box
      <3>5. 1 \in 0..validCount
        BY <3>2
      <3> QED BY <2>1, <2>2, <2>3, <3>1, <3>3, <3>4, <3>5 DEF RestInv, Pcs, SortPcs
    <2>4. CASE pc' # "nms"
      <3>1. UNCHANGED <<i, overlap, filterId>>
        BY <1>5, <2>4 DEF qsort_descent_inplace, down, up, place
      <3>4. stack' \in Seq(Nat \X Nat)
        BY <2>1, <2>4, TypedAfter DEF Typed
      <3>5. low' \in 0..validCount /\ high' \in 0..validCount
        <4>1. CASE pc' = "sort"
          <5>1. low' = low /\ high' = high
            BY <1>5, <4>1 DEF qsort_descent_inplace, down, up, place
          <5> QED BY <5>1 DEF RestInv
        <4>2. CASE pc' # "sort"
          <5>1. low' \in 1..validCount /\ high' \in 1..validCount
            BY <2>1, <2>2, <2>4, <4>2, TypedAfter DEF Typed
          <5> QED BY <1>1, <5>1
        <4> QED BY <4>1, <4>2
      <3>6. pc' \in SortPcs
        BY <2>1, <2>4
      <3> QED BY <2>1, <2>2, <3>1, <3>4, <3>5, <3>6 DEF RestInv, Pcs, SortPcs
    <2> QED BY <2>3, <2>4
  <1>6. CASE nms_sorted_bboxes /\ UNCHANGED labelVars
    <2>1. /\ pc = "nms" /\ UNCHANGED <<classId, low, high, stack, overlap, group, init, labels>> /\ NextTurn
      BY <1>6 DEF nms_sorted_bboxes, boxVars, sortVars, labelVars
    <2>2. validCount' = validCount /\ Box' = Box
      BY <2>1 DEF validCount, Box
    <2>3. pc' \in {"nms", "collect"}
      BY <2>1 DEF NextTurn
    <2>4. i' \in 0..validCount
      <3>1. PICK n \in Nat : n = validCount /\ i \in 1..n
        BY <2>1 DEF CallInv, NmsInv, NmsPcs, NmsOK, Sorted
      <3>2. (i' = i + 1 /\ i < n) \/ i' = 1 \/ i' = i
        BY <2>1, <3>1 DEF NextTurn
      <3> QED BY <3>1, <3>2
    <2>5. filterId' \in Class \cup {0}
      <3>1. \/ filterId' = filterId
            \/ Later # {} /\ filterId' = Min(Later)
        BY <2>1 DEF NextTurn
      <3>2. Later \subseteq Class
        <4>1. \A p \in DOMAIN classId : classId[p] \in Class
          BY <1>1
        <4> QED BY <4>1 DEF Later, ToSet
      <3> QED BY <3>1, <3>2, FirstClass DEF RestInv
    <2> QED BY <2>1, <2>2, <2>3, <2>4, <2>5 DEF RestInv, Pcs
  <1>7. CASE collect /\ UNCHANGED labelVars
    <2>1. /\ pc = "collect" /\ UNCHANGED <<classId, low, high, stack, overlap, filterId, i, init, labels>>
          /\ pc' \in {"done", "crashed"}
      BY <1>7 DEF collect, Report, boxVars, sortVars, labelVars
    <2>2. validCount' = validCount /\ Box' = Box /\ validCount # 0
      BY <2>1 DEF validCount, Box, CallInv, NmsInv, NmsPcs, Sorted
    <2> QED BY <2>1, <2>2 DEF RestInv, Pcs
  <1> QED
    BY <1>2, <1>3, <1>4, <1>5, <1>6, <1>7 DEF Next, Detect, InputSteps

LEMMA TypesAre ==
    ASSUME CallInv, LabelsInv, RestInv, may \in Scenarios
    PROVE  TypeOK
  <1>1. classId \in Seq(Class) /\ validCount \in Nat
    BY ClassesAre
  <1>2. head \in DOMAIN Heads
    BY PostProcessAssumption DEF CallInv, ProposeInv
  <1>3. PICK m \in Nat : m = validCount /\ Box = 1..m
    BY <1>1 DEF Box
  <1>4. <<>> \in detect_result_group_t
    <2>1. <<>> \in Seq(detect_result_t) /\ Len(<<>>) = 0 /\ 0 <= OBJ_NUMB_MAX_SIZE
      BY PostProcessAssumption
    <2> QED BY <2>1 DEF detect_result_group_t
  <1> DEFINE Rest == /\ Len(objProbs) = validCount
                     /\ pc \notin Early => indexArray \in [Box -> Box \cup {0}]
                     /\ group \in detect_result_group_t
  <1>5. ASSUME pc \in Early PROVE Rest
    <2>1. PICK h \in 0..Len(Heads) : classId = Ids(Upto(h)) /\ objProbs = Props(Upto(h))
      <3>1. head - 1 \in 0..Len(Heads)
        BY PostProcessAssumption DEF CallInv, ProposeInv
      <3> QED BY <1>5, <3>1 DEF CallInv, ProposeInv
    <2>2. Upto(h) \in Seq(Boxed)
      BY UptoType DEF CallInv, ProposeInv
    <2>3. Len(objProbs) = validCount
      BY <2>1, <2>2, IdsType DEF validCount
    <2>4. group = <<>>
      BY <1>5 DEF CallInv, ProposeInv
    <2> QED BY <1>4, <1>5, <2>3, <2>4
  <1>6. ASSUME pc \in SortPcs PROVE Rest
    <2>1. PICK n \in Nat : \E w \in [1..n -> Int] : Sorted(n, w) /\ SortOK(n, w)
      BY <1>6 DEF CallInv, SortInv
    <2>2. n = m /\ indexArray \in [1..n -> 1..n] /\ objProbs = [p \in 1..n |-> objProbs[p]]
      BY <1>3, <2>1 DEF Sorted, SortOK
    <2>3. Len(objProbs) = n /\ indexArray \in [1..n -> 1..n \cup {0}]
      BY <2>2
    <2>4. group = <<>>
      BY <1>6 DEF RestInv, SortPcs
    <2> QED BY <1>3, <1>4, <2>2, <2>3, <2>4
  <1>7. ASSUME pc \in NmsPcs PROVE Rest
    <2>1. PICK n \in Nat : \E w \in [1..n -> Int] : Sorted(n, w) /\ NmsOK(n, w)
      BY <1>7 DEF CallInv, NmsInv
    <2>2. n = m /\ indexArray \in [1..n -> 0..n] /\ objProbs \in [1..n -> Int]
      BY <1>3, <2>1 DEF Sorted, NmsOK, Ranked
    <2>3. Len(objProbs) = n /\ indexArray \in [1..n -> 1..n \cup {0}]
      BY <2>2
    <2>4. group = <<>>
      BY <1>7 DEF RestInv, NmsPcs
    <2> QED BY <1>3, <1>4, <2>2, <2>3, <2>4
  <1>8. ASSUME pc \in {"done", "crashed"} /\ validCount # 0 PROVE Rest
    <2>1. PICK n \in Nat : \E w \in [1..n -> Int] :
              Sorted(n, w) /\ Ranked(n, w, indexArray, objProbs) /\ group = Reported
      BY <1>8 DEF CallInv, GroupInv
    <2>2. PICK w \in [1..n -> Int] : Sorted(n, w) /\ Ranked(n, w, indexArray, objProbs) /\ group = Reported
      BY <2>1
    <2>3. n = m /\ indexArray \in [1..n -> 0..n] /\ objProbs \in [1..n -> Int]
      BY <1>3, <2>2 DEF Sorted, Ranked
    <2>4. Len(objProbs) = n /\ indexArray \in [1..n -> 1..n \cup {0}]
      BY <2>3
    <2>5. classId \in [1..n -> Class]
      BY <1>8, <2>2, BoxesAre DEF CallInv, Early
    <2>6. PICK R : R = [box : 1..n, id : Class, prop : Int]
      OBVIOUS
    <2>7. group \in Seq(R) /\ Len(group) <= OBJ_NUMB_MAX_SIZE
      BY <2>2, <2>5, <2>6, ReportedIs
    <2>8. group \in detect_result_group_t
      BY <1>3, <2>3, <2>6, <2>7 DEF detect_result_group_t, detect_result_t
    <2> QED BY <1>3, <2>3, <2>4, <2>8
  <1>9. ASSUME pc \in {"done", "crashed"} /\ validCount = 0 PROVE Rest
    <2>1. objProbs = <<>> /\ indexArray = <<>> /\ group = <<>> /\ Box = {}
      BY <1>3, <1>9 DEF RestInv
    <2>2. indexArray \in [Box -> Box \cup {0}]
      BY <2>1
    <2> QED BY <1>4, <1>9, <2>1, <2>2
  <1>10. Rest
    <2>1. pc \in Early \/ pc \in SortPcs \/ pc \in NmsPcs \/ pc \in {"done", "crashed"}
      BY DEF RestInv, Pcs, Early, SortPcs, NmsPcs
    <2> HIDE DEF Rest
    <2> QED BY <1>5, <1>6, <1>7, <1>8, <1>9, <2>1
  <1> QED BY <1>1, <1>2, <1>10 DEF TypeOK, RestInv, LabelsInv, Early

(* TypeOK: the arrays have a place for each box and only indices of boxes, *)
(* the sides of the sort, its locals and the place that is suppressed from *)
(* are within them, and the report has room for its results - for any      *)
(* heads, classes and inputs, whatever another session does.               *)
THEOREM PostProcessType == Spec => []TypeOK
  <1> DEFINE Inv == CallInv /\ LabelsInv /\ RestInv /\ may \in Scenarios
  <1>1. Init => Inv
    BY CallInvHolds, LabelsInit, RestInit
  <1>2. Inv /\ [Next]_vars => Inv'
    BY CallInvKept, LabelsNext, RestNext
  <1>3. Inv => TypeOK
    BY TypesAre
  <1> QED BY <1>1, <1>2, <1>3, PTL DEF Spec
=============================================================================
