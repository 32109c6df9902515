----------------------------- MODULE MppProofs -----------------------------
(***************************************************************************)
(* What is proved of src/mpp/encode for every value of the constants.  Of  *)
(* utils.cpp: how the walks over a frame in memory, in a file and in its   *)
(* checksum fit together, how a test picture's pixels are stored, and from *)
(* these the four invariants of FrameFiles.  Of the headers: the macros of *)
(* mpp_common.h for every argument of their types, the list of mpp_list.h  *)
(* for any nodes and calls, the lock and the status of mpp_thread.h for    *)
(* any threads.                                                            *)
(***************************************************************************)
EXTENDS FrameFiles, MppBytes, SequenceTheorems, WellFoundedInduction, TLAPS

-----------------------------------------------------------------------------
(* Products, and places in rows.                                           *)
LEMMA TimesNat == \A a, b \in Nat : a * b \in Nat
  OBVIOUS

LEMMA TimesGrows == ASSUME NEW a \in Nat, NEW b \in Nat, NEW c \in Nat, a <= b
                    PROVE  a * c <= b * c /\ c * a <= c * b
  <1>1. PICK d \in Nat : b = a + d
    <2>1. b - a \in Nat /\ b = a + (b - a)
      OBVIOUS
    <2> QED BY <2>1
  <1>2. b * c = a * c + d * c /\ d * c \in Nat
    BY <1>1
  <1> QED BY <1>2

LEMMA NextRow == ASSUME NEW a \in Int, NEW b \in Int PROVE (a + 1) * b = a * b + b
  OBVIOUS

LEMMA RowAndColumn ==
    ASSUME NEW n \in Nat, NEW c \in Nat \ {0}
    PROVE  /\ n \div c \in Nat /\ n % c \in 0..(c - 1)
           /\ n = (n \div c) * c + (n % c)
  BY SMT

(* A place is in one row and one column only.                              *)
LEMMA OnePlace ==
    ASSUME NEW c \in Nat, NEW x \in 0..(c - 1), NEW y \in Nat,
                          NEW u \in 0..(c - 1), NEW v \in Nat, y * c + x = v * c + u
    PROVE  x = u /\ y = v
  <1>1. ASSUME NEW a \in Nat, NEW b \in Nat, NEW s \in 0..(c - 1), NEW t \in 0..(c - 1),
               a < b
        PROVE  a * c + s < b * c + t
    <2>1. (a + 1) * c <= b * c
      BY <1>1, TimesGrows
    <2>2. (a + 1) * c = a * c + c
      OBVIOUS
    <2>3. a * c \in Nat /\ b * c \in Nat
      OBVIOUS
    <2> HIDE <1>1
    <2> QED BY <2>1, <2>2, <2>3
  <1>2. ~ (y < v)
    BY <1>1
  <1>3. ~ (v < y)
    BY <1>1
  <1>4. y = v
    BY <1>2, <1>3
  <1>5. y * c \in Nat
    OBVIOUS
  <1> QED BY <1>4, <1>5

LEMMA PlaceOf ==
    ASSUME NEW c \in Nat \ {0}, NEW x \in 0..(c - 1), NEW y \in Nat
    PROVE  /\ y * c + x \in Nat
           /\ (y * c + x) \div c = y /\ (y * c + x) % c = x
  <1> DEFINE n == y * c + x
  <1>1. n \in Nat
    OBVIOUS
  <1> HIDE DEF n
  <1>2. /\ n \div c \in Nat /\ n % c \in 0..(c - 1)
        /\ n = (n \div c) * c + (n % c)
    BY <1>1, RowAndColumn
  <1>3. x = n % c /\ y = n \div c
    <2>1. \A u \in 0..(c - 1), v \in Nat : y * c + x = v * c + u => x = u /\ y = v
      BY OnePlace
    <2>2. y * c + x = (n \div c) * c + (n % c)
      BY <1>2 DEF n
    <2> QED BY <2>1, <2>2, <1>2
  <1> QED BY <1>1, <1>3 DEF n

-----------------------------------------------------------------------------
(* What a walk over a plane passes.                                        *)
Planes == [base : Nat, pitch : Nat, step : Nat, cols : Nat, rows : Nat]

LEMMA RowsOf ==
    ASSUME NEW p \in Planes
    PROVE  /\ Rows(p) \in Seq(Nat) /\ Len(Rows(p)) = p.cols * p.rows
           /\ p.cols * p.rows \in Nat
           /\ \A i \in 1..(p.cols * p.rows) : \E x \in 0..(p.cols - 1), y \in 0..(p.rows - 1) :
                  i = y * p.cols + x + 1 /\ Rows(p)[i] = At(p, x, y)
           /\ \A x \in 0..(p.cols - 1), y \in 0..(p.rows - 1) :
                  /\ y * p.cols + x + 1 \in 1..(p.cols * p.rows)
                  /\ Rows(p)[y * p.cols + x + 1] = At(p, x, y)
  <1> DEFINE c == p.cols
             r == p.rows
  <1>1. c \in Nat /\ r \in Nat /\ c * r \in Nat
    BY DEF Planes
  <1>2. Rows(p) = [i \in 1..(c * r) |-> At(p, (i - 1) % c, (i - 1) \div c)]
    BY DEF Rows
  <1>3. \A x \in Nat, y \in Nat : At(p, x, y) \in Nat
    BY DEF At, Planes
  <1>4. ASSUME NEW i \in 1..(c * r)
        PROVE  \E x \in 0..(c - 1), y \in 0..(r - 1) :
                  i = y * c + x + 1 /\ (i - 1) % c = x /\ (i - 1) \div c = y
    <2>1. c # 0
      BY <1>1
    <2> DEFINE x == (i - 1) % c
               y == (i - 1) \div c
    <2>2. i - 1 \in Nat /\ i <= c * r /\ i \in Nat
      BY <1>1
    <2>3. x \in 0..(c - 1) /\ y \in Nat /\ i - 1 = y * c + x
      BY <2>1, <2>2, <1>1, RowAndColumn
    <2> HIDE DEF x, y, c, r
    <2>4. y < r
      <3> SUFFICES ASSUME r <= y PROVE FALSE
        BY <2>3, <1>1
      <3>1. r * c <= y * c
        BY <1>1, <2>3, TimesGrows
      <3>2. r * c = c * r /\ y * c \in Nat
        BY <1>1, <2>3
      <3> QED BY <3>1, <3>2, <2>2, <2>3, <1>1
    <2>5. i = y * c + x + 1
      <3>1. y * c \in Nat
        BY <2>3, <1>1
      <3> QED BY <3>1, <2>3, <2>2
    <2>6. y \in 0..(r - 1)
      BY <2>3, <2>4, <1>1
    <2> QED BY <2>3, <2>5, <2>6 DEF x, y
  <1>5. ASSUME NEW x \in 0..(c - 1), NEW y \in 0..(r - 1)
        PROVE  /\ y * c + x + 1 \in 1..(c * r)
               /\ (y * c + x) % c = x /\ (y * c + x) \div c = y
               /\ y * c + x \in Nat
    <2>1. c \in Nat \ {0} /\ y \in Nat
      BY <1>1
    <2> HIDE DEF c, r
    <2>2. y * c + x \in Nat /\ (y * c + x) \div c = y /\ (y * c + x) % c = x
      BY <2>1, PlaceOf
    <2>3. (y + 1) * c <= r * c
      BY <2>1, <1>1, TimesGrows
    <2>4. (y + 1) * c = y * c + c /\ r * c = c * r /\ y * c \in Nat
      BY <2>1, <1>1
    <2> QED BY <2>1, <2>2, <2>3, <2>4, <1>1
  <1>6. Rows(p) \in Seq(Nat) /\ Len(Rows(p)) = c * r
    <2>1. \A i \in 1..(c * r) : At(p, (i - 1) % c, (i - 1) \div c) \in Nat
      BY <1>3, <1>4
    <2> HIDE DEF c, r
    <2> QED BY <1>1, <1>2, <2>1
  <1>7. \A x \in 0..(c - 1), y \in 0..(r - 1) : Rows(p)[y * c + x + 1] = At(p, x, y)
    <2> SUFFICES ASSUME NEW x \in 0..(c - 1), NEW y \in 0..(r - 1)
                 PROVE  Rows(p)[y * c + x + 1] = At(p, x, y)
      OBVIOUS
    <2> DEFINE i == y * c + x + 1
    <2>1. i \in 1..(c * r) /\ i - 1 = y * c + x
      BY <1>5
    <2>2. (i - 1) % c = x /\ (i - 1) \div c = y
      BY <1>5, <2>1
    <2> HIDE DEF i, c, r
    <2>3. Rows(p)[i] = At(p, x, y)
      BY <1>2, <2>1, <2>2
    <2> QED BY <2>3 DEF i
  <1>8. ASSUME NEW i \in 1..(c * r)
        PROVE  \E x \in 0..(c - 1), y \in 0..(r - 1) : i = y * c + x + 1 /\ Rows(p)[i] = At(p, x, y)
    <2>1. Rows(p)[i] = At(p, (i - 1) % c, (i - 1) \div c)
      BY <1>2
    <2> HIDE DEF c, r
    <2> QED BY <1>4, <2>1
  <1> QED BY <1>1, <1>5, <1>6, <1>7, <1>8

-----------------------------------------------------------------------------
(* A walk over planes, one after the other.                                *)
LEMMA RasterNone == Raster(<<>>) = <<>>
  BY DEF Raster, FlattenSeq

LEMMA RasterOne ==
    ASSUME NEW p \in Planes
    PROVE  Raster(<<p>>) = Rows(p)
  <1> DEFINE s == [k \in DOMAIN <<p>> |-> Rows(<<p>>[k])]
             D(f) == f = [i \in 1..Len(s) |-> IF i = 1 THEN s[i] ELSE f[i - 1] \o s[i]]
             h == CHOOSE f : D(f)
             w == [i \in 1..1 |-> Rows(p)]
  <1>1. Len(s) = 1 /\ s[1] = Rows(p)
    OBVIOUS
  <1>2. D(w)
    BY <1>1
  <1>3. D(h)
    <2> HIDE DEF D, w
    <2> QED BY <1>2
  <1>4. h[1] = Rows(p)
    <2> HIDE DEF h, s
    <2> QED BY <1>3, <1>1
  <1>5. Raster(<<p>>) = h[1]
    BY <1>1 DEF Raster, FlattenSeq
  <1> QED BY <1>4, <1>5

LEMMA RasterTwo ==
    ASSUME NEW p \in Planes, NEW q \in Planes
    PROVE  Raster(<<p, q>>) = Rows(p) \o Rows(q)
  <1> DEFINE s == [k \in DOMAIN <<p, q>> |-> Rows(<<p, q>>[k])]
             D(f) == f = [i \in 1..Len(s) |-> IF i = 1 THEN s[i] ELSE f[i - 1] \o s[i]]
             h == CHOOSE f : D(f)
             w == [i \in 1..2 |-> IF i = 1 THEN Rows(p) ELSE Rows(p) \o Rows(q)]
  <1>1. Len(s) = 2 /\ s[1] = Rows(p) /\ s[2] = Rows(q)
    OBVIOUS
  <1>2. D(w)
    <2> HIDE DEF s
    <2> QED BY <1>1
  <1>3. D(h)
    <2> HIDE DEF D, w
    <2> QED BY <1>2
  <1>4. \A i \in 1..2 : h[i] = IF i = 1 THEN s[i] ELSE h[i - 1] \o s[i]
    <2> HIDE DEF h, s
    <2> QED BY <1>3, <1>1
  <1>5. h[2] = Rows(p) \o Rows(q)
    <2> HIDE DEF h, s
    <2>1. h[1] = Rows(p)
      BY <1>4, <1>1
    <2>2. 2 \in 1..2 /\ 2 # 1 /\ 2 - 1 = 1
      OBVIOUS
    <2>3. h[2] = IF 2 = 1 THEN s[2] ELSE h[2 - 1] \o s[2]
      BY <1>4, <2>2, Zenon
    <2>4. h[2] = h[1] \o s[2]
      BY <2>2, <2>3
    <2> QED BY <2>1, <2>4, <1>1
  <1>6. Raster(<<p, q>>) = h[2]
    BY <1>1 DEF Raster, FlattenSeq
  <1> QED BY <1>5, <1>6

LEMMA RasterThree ==
    ASSUME NEW p \in Planes, NEW q \in Planes, NEW r \in Planes
    PROVE  Raster(<<p, q, r>>) = (Rows(p) \o Rows(q)) \o Rows(r)
  <1> DEFINE t == <<p, q, r>>
             s == [k \in DOMAIN t |-> Rows(t[k])]
             D(f) == f = [i \in 1..Len(s) |-> IF i = 1 THEN s[i] ELSE f[i - 1] \o s[i]]
             h == CHOOSE f : D(f)
             w == [i \in 1..3 |-> IF i = 1 THEN Rows(p)
                                  ELSE IF i = 2 THEN Rows(p) \o Rows(q)
                                  ELSE (Rows(p) \o Rows(q)) \o Rows(r)]
  <1>1. Len(s) = 3 /\ s[1] = Rows(p) /\ s[2] = Rows(q) /\ s[3] = Rows(r)
    OBVIOUS
  <1>2. D(w)
    <2> HIDE DEF s
    <2> QED BY <1>1
  <1>3. D(h)
    <2> HIDE DEF D, w
    <2> QED BY <1>2
  <1>4. \A i \in 1..3 : h[i] = IF i = 1 THEN s[i] ELSE h[i - 1] \o s[i]
    <2> HIDE DEF h, s
    <2> QED BY <1>3, <1>1
  <1>5. h[3] = (Rows(p) \o Rows(q)) \o Rows(r)
    <2> HIDE DEF h, s
    <2>1. h[1] = Rows(p)
      BY <1>4, <1>1
    <2>2. 2 \in 1..3 /\ 2 # 1 /\ 2 - 1 = 1 /\ 3 \in 1..3 /\ 3 # 1 /\ 3 - 1 = 2
      OBVIOUS
    <2>3. /\ h[2] = IF 2 = 1 THEN s[2] ELSE h[2 - 1] \o s[2]
          /\ h[3] = IF 3 = 1 THEN s[3] ELSE h[3 - 1] \o s[3]
      BY <1>4, <2>2, Zenon
    <2>4. h[2] = h[1] \o s[2] /\ h[3] = h[2] \o s[3]
      BY <2>2, <2>3
    <2> QED BY <2>1, <2>4, <1>1
  <1>6. Raster(<<p, q, r>>) = h[3]
    BY <1>1 DEF Raster, FlattenSeq
  <1> QED BY <1>5, <1>6

-----------------------------------------------------------------------------
(* Rows that do not overlap.                                               *)
Injective(s) == \A i, j \in 1..Len(s) : s[i] = s[j] => i = j

LEMMA RowsApart ==
    ASSUME NEW p \in Planes, p.step = 1, p.cols <= p.pitch
    PROVE  /\ Injective(Rows(p))
           /\ \A i \in 1..Len(Rows(p)) : Rows(p)[i] \in p.base..(p.base + p.rows * p.pitch - 1)
  <1> DEFINE o == p.base
             w == p.pitch
             c == p.cols
             r == p.rows
  <1>1. o \in Nat /\ w \in Nat /\ c \in Nat /\ r \in Nat /\ r * w \in Nat /\ c <= w
    BY DEF Planes
  <1>2. \A x \in Nat, y \in Nat : At(p, x, y) = o + (y * w + x) /\ y * w \in Nat
    BY <1>1 DEF At
  <1>3. ASSUME NEW i \in 1..Len(Rows(p)), NEW j \in 1..Len(Rows(p)), Rows(p)[i] = Rows(p)[j]
        PROVE  i = j
    <2>1. PICK x \in 0..(c - 1), y \in 0..(r - 1) :
              i = y * c + x + 1 /\ Rows(p)[i] = At(p, x, y)
      BY RowsOf
    <2>2. PICK u \in 0..(c - 1), v \in 0..(r - 1) :
              j = v * c + u + 1 /\ Rows(p)[j] = At(p, u, v)
      BY RowsOf
    <2> HIDE DEF o, w, c, r
    <2>3. /\ x \in 0..(w - 1) /\ u \in 0..(w - 1) /\ y \in Nat /\ v \in Nat
          /\ x \in Nat /\ u \in Nat
      BY <1>1
    <2>4. y * w + x = v * w + u
      <3>1. At(p, x, y) = o + (y * w + x) /\ At(p, u, v) = o + (v * w + u)
        BY <1>2, <2>3
      <3>2. y * w \in Nat /\ v * w \in Nat
        BY <1>2, <2>3
      <3>3. o + (y * w + x) = o + (v * w + u)
        BY <3>1, <2>1, <2>2, <1>3
      <3> QED BY <3>2, <3>3, <2>3, <1>1
    <2>5. x = u /\ y = v
      BY <2>3, <2>4, <1>1, OnePlace
    <2> QED BY <2>1, <2>2, <2>5
  <1>4. ASSUME NEW i \in 1..Len(Rows(p))
        PROVE  Rows(p)[i] \in p.base..(p.base + p.rows * p.pitch - 1)
    <2>1. PICK x \in 0..(c - 1), y \in 0..(r - 1) : Rows(p)[i] = At(p, x, y)
      BY RowsOf
    <2> SUFFICES Rows(p)[i] \in o..(o + r * w - 1)
      OBVIOUS
    <2> HIDE DEF o, w, c, r
    <2>2. x \in Nat /\ x < w /\ y \in Nat /\ y + 1 <= r /\ y + 1 \in Nat
      BY <1>1
    <2>3. (y + 1) * w <= r * w
      BY <1>1, <2>2, TimesGrows
    <2>4. (y + 1) * w = y * w + w
      BY <1>1, <2>2, NextRow
    <2>5. At(p, x, y) = o + (y * w + x) /\ y * w \in Nat
      BY <1>2, <2>2
    <2> QED BY <2>1, <2>2, <2>3, <2>4, <2>5, <1>1
  <1> QED BY <1>3, <1>4 DEF Injective

LEMMA InjectiveBoth ==
    ASSUME NEW s \in Seq(Nat), NEW t \in Seq(Nat), Injective(s), Injective(t), NEW m \in Nat,
           \A i \in 1..Len(s) : s[i] < m, \A i \in 1..Len(t) : m <= t[i]
    PROVE  Injective(s \o t)
  <1> SUFFICES ASSUME NEW i \in 1..Len(s \o t), NEW j \in 1..Len(s \o t), i < j,
                      (s \o t)[i] = (s \o t)[j]
               PROVE  FALSE
    <2>1. Len(s \o t) \in Nat
      OBVIOUS
    <2> QED BY <2>1, SMTT(30) DEF Injective
  <1>1. Len(s \o t) = Len(s) + Len(t) /\ Len(s) \in Nat /\ Len(t) \in Nat
    OBVIOUS
  <1>2. CASE j <= Len(s)
    BY <1>1, <1>2 DEF Injective
  <1>3. CASE i <= Len(s) /\ j > Len(s)
    <2>1. (s \o t)[i] = s[i] /\ (s \o t)[j] = t[j - Len(s)] /\ j - Len(s) \in 1..Len(t)
      BY <1>1, <1>3, SMTT(30)
    <2>2. i \in 1..Len(s)
      BY <1>1, <1>3
    <2>3. s[i] \in Nat /\ t[j - Len(s)] \in Nat /\ s[i] < m /\ m <= t[j - Len(s)]
      BY <2>1, <2>2, SMTT(30)
    <2>4. s[i] = t[j - Len(s)]
      BY <2>1
    <2> HIDE DEF Injective
    <2> QED BY <2>3, <2>4
  <1>4. CASE i > Len(s)
    <2>1. /\ (s \o t)[i] = t[i - Len(s)] /\ (s \o t)[j] = t[j - Len(s)]
          /\ i - Len(s) \in 1..Len(t) /\ j - Len(s) \in 1..Len(t)
      BY <1>1, <1>4
    <2>2. i - Len(s) = j - Len(s)
      BY <2>1 DEF Injective
    <2> QED BY <2>2, <1>1
  <1> QED BY <1>1, <1>2, <1>3, <1>4

-----------------------------------------------------------------------------
(* The geometries, and the planes of 4:2:0 pictures.                       *)
LEMMA Halves ==
    ASSUME NEW g \in Geometries
    PROVE  /\ g.w \in Nat /\ g.h \in Nat /\ g.hs \in Nat /\ g.vs \in Nat
           /\ g.w \div 2 \in Nat /\ g.h \div 2 \in Nat /\ g.hs \div 2 \in Nat
           /\ g.w = 2 * (g.w \div 2) /\ g.h = 2 * (g.h \div 2) /\ g.hs = 2 * (g.hs \div 2)
           /\ g.w <= g.hs /\ g.w \div 2 <= g.hs \div 2 /\ g.h <= g.vs
  <1>1. /\ g \in [w : Nat, h : Nat, hs : Nat, vs : Nat]
        /\ g.w % 2 = 0 /\ g.h % 2 = 0 /\ g.hs % 2 = 0 /\ g.hs >= g.w /\ g.vs >= g.h
    BY FrameAssumption DEF FrameAssumption
  <1>2. \A n \in Nat : n % 2 = 0 => n \div 2 \in Nat /\ n = 2 * (n \div 2)
    BY SMT
  <1> QED BY <1>1, <1>2

LEMMA Quarter ==
    ASSUME NEW g \in Geometries
    PROVE  /\ Size(g) \in Nat /\ g.h * g.hs <= Size(g) /\ Size(g) \div 4 \in Nat
           /\ g.h * g.hs \in Nat
           /\ (g.h \div 2) * (g.hs \div 2) \in Nat
           /\ (g.h \div 2) * (g.hs \div 2) <= Size(g) \div 4
           /\ g.vs = g.h => /\ (g.h \div 2) * (g.hs \div 2) = Size(g) \div 4
                            /\ g.h * g.hs = Size(g)
  <1> DEFINE b == g.h \div 2
             c == g.hs \div 2
  <1>1. /\ g.h \in Nat /\ g.hs \in Nat /\ g.vs \in Nat /\ b \in Nat /\ c \in Nat
        /\ g.h = 2 * b /\ g.hs = 2 * c /\ g.h <= g.vs
    BY Halves
  <1>2. Size(g) = g.hs * g.vs /\ g.hs * g.vs = g.vs * g.hs
    BY <1>1 DEF Size
  <1> HIDE DEF b, c
  <1>3. g.h * g.hs <= g.vs * g.hs /\ g.vs * g.hs \in Nat /\ g.h * g.hs \in Nat
    BY <1>1, TimesGrows
  <1>4. g.h * g.hs = 4 * (b * c) /\ b * c \in Nat
    BY <1>1
  <1>5. \A n \in Nat, m \in Nat : 4 * m <= n => n \div 4 \in Nat /\ m <= n \div 4
    BY SMT
  <1>6. \A n \in Nat : n \div 4 \in Nat
    BY SMT
  <1>7. \A m \in Nat : (4 * m) \div 4 = m
    BY SMT
  <1>8. /\ Size(g) \in Nat /\ g.h * g.hs <= Size(g) /\ Size(g) \div 4 \in Nat
        /\ b * c <= Size(g) \div 4
    BY <1>2, <1>3, <1>4, <1>5
  <1>9. g.vs = g.h => b * c = Size(g) \div 4 /\ g.h * g.hs = Size(g)
    BY <1>1, <1>2, <1>4, <1>7
  <1> QED BY <1>3, <1>4, <1>8, <1>9 DEF b, c

LEMMA PlanePlanes ==
    ASSUME NEW base \in Nat, NEW pitch \in Nat, NEW step \in Nat, NEW cols \in Nat, NEW rows \in Nat
    PROVE  /\ Plane(base, pitch, step, cols, rows) \in Planes
           /\ Plane(base, pitch, step, cols, rows).base = base
           /\ Plane(base, pitch, step, cols, rows).pitch = pitch
           /\ Plane(base, pitch, step, cols, rows).step = step
           /\ Plane(base, pitch, step, cols, rows).cols = cols
           /\ Plane(base, pitch, step, cols, rows).rows = rows
  BY DEF Plane, Planes

-----------------------------------------------------------------------------
(* The numbers of the formats.                                             *)
LEMMA Powers == /\ 2^0 = 1 /\ 2^1 = 2 /\ 2^2 = 4 /\ 2^3 = 8 /\ 2^4 = 16 /\ 2^5 = 32 /\ 2^6 = 64
                /\ 2^7 = 128 /\ 2^8 = 256 /\ 2^9 = 512 /\ 2^10 = 1024 /\ 2^11 = 2048
                /\ 2^16 = 65536 /\ 2^20 = 1048576 /\ 2^24 = 16777216
  BY SMT

LEMMA BytePowers == ASSUME NEW j \in 0..7 PROVE 2^j \in {1, 2, 4, 8, 16, 32, 64, 128}
  <1>1. CASE j = 0
    <2>1. 2^0 = 1
      BY Powers
    <2> QED BY <2>1, <1>1
  <1>2. CASE j = 1
    <2>1. 2^1 = 2
      BY Powers
    <2> QED BY <2>1, <1>2
  <1>3. CASE j = 2
    <2>1. 2^2 = 4
      BY Powers
    <2> QED BY <2>1, <1>3
  <1>4. CASE j = 3
    <2>1. 2^3 = 8
      BY Powers
    <2> QED BY <2>1, <1>4
  <1>5. CASE j = 4
    <2>1. 2^4 = 16
      BY Powers
    <2> QED BY <2>1, <1>5
  <1>6. CASE j = 5
    <2>1. 2^5 = 32
      BY Powers
    <2> QED BY <2>1, <1>6
  <1>7. CASE j = 6
    <2>1. 2^6 = 64
      BY Powers
    <2> QED BY <2>1, <1>7
  <1>8. CASE j = 7
    <2>1. 2^7 = 128
      BY Powers
    <2> QED BY <2>1, <1>8
  <1> QED BY <1>1, <1>2, <1>3, <1>4, <1>5, <1>6, <1>7, <1>8

LEMMA YuvNames == /\ Len(YuvFormats) = 16 /\ DOMAIN YuvFormats = 1..16
                  /\ \A i, j \in 1..16 : YuvFormats[i] = YuvFormats[j] => i = j
  BY DEF YuvFormats

LEMMA RgbNames == /\ Len(RgbFormats) = 14 /\ DOMAIN RgbFormats = 1..14
                  /\ \A i, j \in 1..14 : RgbFormats[i] = RgbFormats[j] => i = j
                  /\ \A i \in 1..14, j \in 1..16 : RgbFormats[i] # YuvFormats[j]
  BY DEF RgbFormats, YuvFormats

LEMMA NumberOf ==
    ASSUME NEW base \in Nat, NEW names, NEW n \in Nat, DOMAIN names = 1..n,
           \A i, j \in 1..n : names[i] = names[j] => i = j
    PROVE  /\ DOMAIN Numbered(base, names) = {names[i] : i \in 1..n}
           /\ \A i \in 1..n : Numbered(base, names)[names[i]] = base + i - 1
  <1>1. Range(names) = {names[i] : i \in 1..n}
    BY DEF Range
  <1>2. DOMAIN Numbered(base, names) = {names[i] : i \in 1..n}
    BY <1>1 DEF Numbered
  <1>3. ASSUME NEW i \in 1..n
        PROVE  Numbered(base, names)[names[i]] = base + i - 1
    <2>1. (CHOOSE k \in DOMAIN names : names[k] = names[i]) = i
      OBVIOUS
    <2> QED BY <1>1, <2>1 DEF Numbered
  <1> QED BY <1>2, <1>3

LEMMA PlainNumbers ==
    /\ DOMAIN Plain = {YuvFormats[i] : i \in 1..16} \cup {RgbFormats[i] : i \in 1..14}
    /\ \A i \in 1..16 : Plain[YuvFormats[i]] = i - 1
    /\ \A i \in 1..14 : Plain[RgbFormats[i]] = 65535 + i
  <1>1. /\ DOMAIN Numbered(MPP_FRAME_FMT_YUV, YuvFormats) = {YuvFormats[i] : i \in 1..16}
        /\ \A i \in 1..16 : Numbered(MPP_FRAME_FMT_YUV, YuvFormats)[YuvFormats[i]] = 0 + i - 1
    <2>1. MPP_FRAME_FMT_YUV = 0 /\ 0 \in Nat /\ 16 \in Nat
      BY DEF MPP_FRAME_FMT_YUV
    <2>2. DOMAIN YuvFormats = 1..16 /\ \A i, j \in 1..16 : YuvFormats[i] = YuvFormats[j] => i = j
      BY YuvNames
    <2>3. /\ DOMAIN Numbered(0, YuvFormats) = {YuvFormats[i] : i \in 1..16}
          /\ \A i \in 1..16 : Numbered(0, YuvFormats)[YuvFormats[i]] = 0 + i - 1
      BY <2>1, <2>2, NumberOf, Zenon
    <2> QED BY <2>1, <2>3
  <1>2. /\ DOMAIN Numbered(MPP_FRAME_FMT_RGB, RgbFormats) = {RgbFormats[i] : i \in 1..14}
        /\ \A i \in 1..14 : Numbered(MPP_FRAME_FMT_RGB, RgbFormats)[RgbFormats[i]] = 65536 + i - 1
    <2>0. 14 \in Nat
      OBVIOUS
    <2>1. MPP_FRAME_FMT_RGB = 65536 /\ 65536 \in Nat
      BY Powers DEF MPP_FRAME_FMT_RGB
    <2>2. DOMAIN RgbFormats = 1..14 /\ \A i, j \in 1..14 : RgbFormats[i] = RgbFormats[j] => i = j
      BY RgbNames
    <2>3. MPP_FRAME_FMT_RGB \in Nat
      BY <2>1
    <2>4. /\ DOMAIN Numbered(MPP_FRAME_FMT_RGB, RgbFormats) = {RgbFormats[i] : i \in 1..14}
          /\ \A i \in 1..14 :
                Numbered(MPP_FRAME_FMT_RGB, RgbFormats)[RgbFormats[i]] = MPP_FRAME_FMT_RGB + i - 1
      BY <2>0, <2>2, <2>3, NumberOf, Zenon
    <2> QED BY <2>1, <2>4
  <1>3. \A i \in 1..14 : RgbFormats[i] \notin {YuvFormats[j] : j \in 1..16}
    BY RgbNames
  <1> DEFINE y == Numbered(MPP_FRAME_FMT_YUV, YuvFormats)
             r == Numbered(MPP_FRAME_FMT_RGB, RgbFormats)
  <1>4. Plain = [f \in (DOMAIN y) \cup (DOMAIN r) |-> IF f \in DOMAIN y THEN y[f] ELSE r[f]]
    BY DEF Plain, ++
  <1> HIDE DEF y, r
  <1>5. DOMAIN Plain = (DOMAIN y) \cup (DOMAIN r)
    BY <1>4
  <1>6. ASSUME NEW i \in 1..16 PROVE Plain[YuvFormats[i]] = i - 1
    <2>1. YuvFormats[i] \in DOMAIN y /\ y[YuvFormats[i]] = 0 + i - 1
      BY <1>1 DEF y
    <2> QED BY <2>1, <1>4
  <1>7. ASSUME NEW i \in 1..14 PROVE Plain[RgbFormats[i]] = 65535 + i
    <2>1. RgbFormats[i] \in DOMAIN r /\ r[RgbFormats[i]] = 65536 + i - 1 /\ RgbFormats[i] \notin DOMAIN y
      <3>1. RgbFormats[i] \in DOMAIN r /\ r[RgbFormats[i]] = 65536 + i - 1
        BY <1>2 DEF r
      <3>2. RgbFormats[i] \notin DOMAIN y
        BY <1>1, <1>3 DEF y
      <3> QED BY <3>1, <3>2
    <2> QED BY <2>1, <1>4
  <1> QED BY <1>1, <1>2, <1>5, <1>6, <1>7 DEF y, r

(* The formats with a bit or a number of their own; the YUV ones are none  *)
(* of these.                                                               *)
Special == {"FBC", "BUTT", "FBC_YUV422SP", "FBC_YUV400"}

LEMMA SpecialNames == /\ \A i \in 1..16 : YuvFormats[i] \notin Special
                      /\ \A i \in 1..14 : RgbFormats[i] \notin Special
  BY DEF Special, YuvFormats, RgbFormats

LEMMA FormatNumbers ==
    /\ DOMAIN MppFrameFormat = DOMAIN Plain \cup Special
    /\ \A f \in DOMAIN Plain : MppFrameFormat[f] = Plain[f] /\ Plain[f] \in Nat /\ Plain[f] < 1048576
    /\ MppFrameFormat["FBC"] = 1048576 /\ MppFrameFormat["BUTT"] = 1048577
    /\ MppFrameFormat["FBC_YUV422SP"] = 1048578 /\ MppFrameFormat["FBC_YUV400"] = 1048588
  <1> DEFINE compressed(f) == MPP_FRAME_FBC_AFBC_V1 + Plain[f]
             z == [FBC          |-> compressed("YUV420SP"), BUTT       |-> compressed("YUV420SP") + 1,
                   FBC_YUV422SP |-> compressed("YUV422SP"), FBC_YUV400 |-> compressed("YUV400")]
  <1>1. MppFrameFormat = [f \in (DOMAIN Plain) \cup (DOMAIN z) |->
                              IF f \in DOMAIN Plain THEN Plain[f] ELSE z[f]]
    BY DEF MppFrameFormat, ++
  <1>2. DOMAIN z = Special
    BY DEF Special
  <1>3. Plain["YUV420SP"] = 0 /\ Plain["YUV422SP"] = 2 /\ Plain["YUV400"] = 12
    <2>1. YuvFormats[1] = "YUV420SP" /\ YuvFormats[3] = "YUV422SP" /\ YuvFormats[13] = "YUV400"
      BY DEF YuvFormats
    <2>2. Plain[YuvFormats[1]] = 1 - 1 /\ Plain[YuvFormats[3]] = 3 - 1 /\ Plain[YuvFormats[13]] = 13 - 1
      BY PlainNumbers
    <2> QED BY <2>1, <2>2
  <1>4. MPP_FRAME_FBC_AFBC_V1 = 1048576
    BY Powers DEF MPP_FRAME_FBC_AFBC_V1
  <1>5. /\ z["FBC"] = 1048576 /\ z["BUTT"] = 1048577
        /\ z["FBC_YUV422SP"] = 1048578 /\ z["FBC_YUV400"] = 1048588
    BY <1>3, <1>4
  <1> HIDE DEF z
  <1>6. \A f \in Special : f \notin DOMAIN Plain
    BY PlainNumbers, SpecialNames
  <1>7. \A f \in Special : f \in DOMAIN MppFrameFormat /\ MppFrameFormat[f] = z[f]
    BY <1>1, <1>2, <1>6
  <1>8. {"FBC", "BUTT", "FBC_YUV422SP", "FBC_YUV400"} \subseteq Special
    BY DEF Special
  <1>9. ASSUME NEW f \in DOMAIN Plain PROVE Plain[f] \in Nat /\ Plain[f] < 1048576
    BY PlainNumbers
  <1>10. \A f \in DOMAIN Plain : MppFrameFormat[f] = Plain[f]
    BY <1>1
  <1>11. DOMAIN MppFrameFormat = DOMAIN Plain \cup Special
    BY <1>1, <1>2
  <1> QED BY <1>5, <1>7, <1>8, <1>9, <1>10, <1>11

(* The formats without the bit of the compressed ones.                     *)
LEMMA NotCompressed == Fbc = Special
  <1>1. \A f \in DOMAIN Plain : f \notin Fbc
    <2>1. \A n \in Nat : n < 1048576 => n \div 1048576 = 0
      BY SMT
    <2>2. 0 % 16 = 0 /\ 2^20 = 1048576 /\ 2^4 = 16
      BY Powers
    <2> QED BY <2>1, <2>2, FormatNumbers DEF Fbc, MPP_FRAME_FMT_IS_FBC
  <1>2. \A n \in {1048576, 1048577, 1048578, 1048588} : (n \div 1048576) % 16 # 0
    BY SMT
  <1>3. \A f \in Special : MppFrameFormat[f] \in {1048576, 1048577, 1048578, 1048588}
    BY FormatNumbers DEF Special
  <1>4. \A f \in Special : MPP_FRAME_FMT_IS_FBC(MppFrameFormat[f])
    BY <1>2, <1>3, Powers DEF MPP_FRAME_FMT_IS_FBC
  <1> QED BY <1>1, <1>4, FormatNumbers DEF Fbc

LEMMA YuvPlain == /\ {"YUV420SP", "YUV420P", "YUV422SP", "YUV444SP", "YUV400"} \cap Fbc = {}
                  /\ (Rgb16 \cup Rgb32) \cap Fbc = {}
  BY NotCompressed DEF Special, Rgb16, Rgb32

-----------------------------------------------------------------------------
(* The walks over a 4:2:0 picture.                                         *)
UV(g)      == Plane(Size(g), g.hs, 1, g.w, g.h \div 2)
Half(g, a) == Plane(a, g.hs, 2, g.w \div 2, g.h \div 2)
SemiPlanar(g) == Rows(Luma(g)) \o Rows(UV(g))
Planar(g, v)  == (Rows(Luma(g)) \o Rows(Chroma(g, Size(g)))) \o Rows(Chroma(g, v))
Sampled(g)    == (Rows(Luma(g)) \o Rows(Half(g, Size(g)))) \o Rows(Half(g, Size(g) + 1))

LEMMA PictureSize ==
    ASSUME NEW g \in Geometries
    PROVE  /\ Luma(g) \in Planes /\ Luma(g).base = 0 /\ Luma(g).pitch = g.hs
           /\ Luma(g).step = 1 /\ Luma(g).cols = g.w /\ Luma(g).rows = g.h
           /\ UV(g) \in Planes /\ UV(g).base = Size(g) /\ UV(g).pitch = g.hs
           /\ UV(g).step = 1 /\ UV(g).cols = g.w /\ UV(g).rows = g.h \div 2
           /\ \A a \in Nat :
                /\ Half(g, a) \in Planes /\ Half(g, a).base = a /\ Half(g, a).pitch = g.hs
                /\ Half(g, a).step = 2 /\ Half(g, a).cols = g.w \div 2 /\ Half(g, a).rows = g.h \div 2
                /\ Chroma(g, a) \in Planes /\ Chroma(g, a).base = a
                /\ Chroma(g, a).pitch = g.hs \div 2 /\ Chroma(g, a).step = 1
                /\ Chroma(g, a).cols = g.w \div 2 /\ Chroma(g, a).rows = g.h \div 2
  <1>1. /\ g.w \in Nat /\ g.h \in Nat /\ g.hs \in Nat
        /\ g.w \div 2 \in Nat /\ g.h \div 2 \in Nat /\ g.hs \div 2 \in Nat
        /\ Size(g) \in Nat
    BY Halves, Quarter
  <1>2. /\ Luma(g) \in Planes /\ Luma(g).base = 0 /\ Luma(g).pitch = g.hs
        /\ Luma(g).step = 1 /\ Luma(g).cols = g.w /\ Luma(g).rows = g.h
    BY <1>1 DEF Luma, Plane, Planes
  <1>3. /\ UV(g) \in Planes /\ UV(g).base = Size(g) /\ UV(g).pitch = g.hs
        /\ UV(g).step = 1 /\ UV(g).cols = g.w /\ UV(g).rows = g.h \div 2
    BY <1>1 DEF UV, Plane, Planes
  <1>4. ASSUME NEW a \in Nat
        PROVE  /\ Half(g, a) \in Planes /\ Half(g, a).base = a /\ Half(g, a).pitch = g.hs
               /\ Half(g, a).step = 2 /\ Half(g, a).cols = g.w \div 2 /\ Half(g, a).rows = g.h \div 2
    BY <1>1 DEF Half, Plane, Planes
  <1>5. ASSUME NEW a \in Nat
        PROVE  /\ Chroma(g, a) \in Planes /\ Chroma(g, a).base = a
               /\ Chroma(g, a).pitch = g.hs \div 2 /\ Chroma(g, a).step = 1
               /\ Chroma(g, a).cols = g.w \div 2 /\ Chroma(g, a).rows = g.h \div 2
    BY <1>1 DEF Chroma, Plane, Planes
  <1> QED BY <1>2, <1>3, <1>4, <1>5

LEMMA Walked ==
    ASSUME NEW g \in Geometries
    PROVE  /\ Raster(DumpPlanes("YUV420SP", g)) = SemiPlanar(g)
           /\ Raster(ReadPlanes("YUV420SP", g)) = SemiPlanar(g)
           /\ Raster(DumpPlanes("YUV420P", g)) = Planar(g, Size(g) + (g.h \div 2) * (g.hs \div 2))
           /\ Raster(ReadPlanes("YUV420P", g)) = Planar(g, Size(g) + Size(g) \div 4)
           /\ Documented("YUV420SP", g) = Sampled(g)
           /\ Documented("YUV420P", g) = Planar(g, Size(g) + Size(g) \div 4)
  <1> DEFINE v == Size(g) + (g.h \div 2) * (g.hs \div 2)
             w == Size(g) + Size(g) \div 4
  <1>1. /\ Size(g) \in Nat /\ Size(g) + 1 \in Nat /\ v \in Nat /\ w \in Nat
    <2>1. Size(g) \in Nat /\ (g.h \div 2) * (g.hs \div 2) \in Nat /\ Size(g) \div 4 \in Nat
      BY Quarter
    <2> QED BY <2>1
  <1>2. /\ Luma(g) \in Planes /\ UV(g) \in Planes /\ Chroma(g, Size(g)) \in Planes
        /\ Chroma(g, v) \in Planes /\ Chroma(g, w) \in Planes
        /\ Half(g, Size(g)) \in Planes /\ Half(g, Size(g) + 1) \in Planes
    BY <1>1, PictureSize
  <1>3. "YUV420SP" \notin Fbc /\ "YUV420P" \notin Fbc
    BY YuvPlain
  <1>4. DumpPlanes("YUV420SP", g) = <<Luma(g), UV(g)>>
    BY DEF DumpPlanes, UV
  <1>5. ReadPlanes("YUV420SP", g) = <<Luma(g), UV(g)>>
    BY <1>3 DEF ReadPlanes, UV, Rgb32, Rgb16
  <1>6. DumpPlanes("YUV420P", g) = <<Luma(g), Chroma(g, Size(g)), Chroma(g, v)>>
    BY DEF DumpPlanes
  <1>7. ReadPlanes("YUV420P", g) = <<Luma(g), Chroma(g, Size(g)), Chroma(g, w)>>
    BY <1>3 DEF ReadPlanes, Rgb32, Rgb16
  <1>8. Documented("YUV420SP", g) = Raster(<<Luma(g), Half(g, Size(g)), Half(g, Size(g) + 1)>>)
    BY DEF Documented, Half
  <1>9. Documented("YUV420P", g) = Raster(<<Luma(g), Chroma(g, Size(g)), Chroma(g, w)>>)
    BY DEF Documented
  <1> HIDE DEF v, w
  <1>10. Raster(<<Luma(g), UV(g)>>) = SemiPlanar(g)
    BY <1>2, RasterTwo DEF SemiPlanar
  <1>11. /\ Raster(<<Luma(g), Chroma(g, Size(g)), Chroma(g, v)>>) = Planar(g, v)
         /\ Raster(<<Luma(g), Chroma(g, Size(g)), Chroma(g, w)>>) = Planar(g, w)
    BY <1>2, RasterThree, ZenonT(40) DEF Planar
  <1>12. Raster(<<Luma(g), Half(g, Size(g)), Half(g, Size(g) + 1)>>) = Sampled(g)
    <2>1. /\ Luma(g) \in Planes /\ Half(g, Size(g)) \in Planes
          /\ Half(g, Size(g) + 1) \in Planes
      BY <1>2
    <2>2. Raster(<<Luma(g), Half(g, Size(g)), Half(g, Size(g) + 1)>>)
          = (Rows(Luma(g)) \o Rows(Half(g, Size(g)))) \o Rows(Half(g, Size(g) + 1))
      BY <2>1, RasterThree, Zenon
    <2> QED BY <2>2 DEF Sampled
  <1> QED BY <1>4, <1>5, <1>6, <1>7, <1>8, <1>9, <1>10, <1>11, <1>12 DEF v, w

(* Each picture has the samples of one format, whatever its strides.       *)
Pixels(g)  == g.w * g.h
Quarters(g) == (g.w \div 2) * (g.h \div 2)

LEMMA SizeOfPixels ==
    ASSUME NEW g \in Geometries
    PROVE  /\ Pixels(g) \in Nat /\ Quarters(g) \in Nat /\ Pixels(g) = 4 * Quarters(g)
           /\ g.w * (g.h \div 2) = 2 * Quarters(g)
  <1> DEFINE a == g.w \div 2
             b == g.h \div 2
  <1>1. a \in Nat /\ b \in Nat /\ g.w = 2 * a /\ g.h = 2 * b
    BY Halves
  <1> HIDE DEF a, b
  <1>2. (2 * a) * (2 * b) = 4 * (a * b) /\ a * b \in Nat /\ (2 * a) * b = 2 * (a * b)
    BY <1>1
  <1>3. g.w * g.h = 4 * (a * b) /\ g.w * b = 2 * (a * b)
    BY <1>1, <1>2
  <1> QED BY <1>2, <1>3 DEF Pixels, Quarters, a, b

LEMMA Joined ==
    ASSUME NEW s \in Seq(Nat), NEW t \in Seq(Nat)
    PROVE  /\ s \o t \in Seq(Nat) /\ Len(s \o t) = Len(s) + Len(t)
           /\ \A i \in 1..Len(s) : (s \o t)[i] = s[i]
           /\ \A i \in 1..Len(t) : (s \o t)[Len(s) + i] = t[i]
           /\ \A i \in 1..Len(s \o t) : i \in 1..Len(s) \/ \E j \in 1..Len(t) : i = Len(s) + j
  <1>1. s \o t \in Seq(Nat) /\ Len(s \o t) = Len(s) + Len(t) /\ Len(s) \in Nat /\ Len(t) \in Nat
    OBVIOUS
  <1>2. \A i \in 1..Len(s) : (s \o t)[i] = s[i]
    OBVIOUS
  <1>3. ASSUME NEW i \in 1..Len(t) PROVE (s \o t)[Len(s) + i] = t[i]
    <2>1. Len(s) + i \in 1..(Len(s) + Len(t)) /\ Len(s) + i > Len(s) /\ (Len(s) + i) - Len(s) = i
      BY <1>1
    <2> QED BY <2>1, <1>1
  <1>4. ASSUME NEW i \in 1..Len(s \o t), i \notin 1..Len(s)
        PROVE  \E j \in 1..Len(t) : i = Len(s) + j
    <2>1. i - Len(s) \in 1..Len(t) /\ i = Len(s) + (i - Len(s))
      BY <1>1, <1>4
    <2> QED BY <2>1
  <1> QED BY <1>1, <1>2, <1>3, <1>4

LEMMA SemiPlanarWalk ==
    ASSUME NEW g \in Geometries
    PROVE  /\ SemiPlanar(g) \in Seq(Nat) /\ Len(SemiPlanar(g)) = 6 * Quarters(g)
           /\ Injective(SemiPlanar(g))
           /\ \A i \in 1..Pixels(g) : SemiPlanar(g)[i] = Rows(Luma(g))[i]
           /\ \A i \in 1..(2 * Quarters(g)) : SemiPlanar(g)[Pixels(g) + i] = Rows(UV(g))[i]
  <1> DEFINE s == Rows(Luma(g))
             t == Rows(UV(g))
  <1>1. /\ Size(g) \in Nat /\ g.h * g.hs <= Size(g) /\ g.h * g.hs \in Nat /\ g.w <= g.hs
        /\ g.w \in Nat /\ g.hs \in Nat /\ (g.h \div 2) * g.hs \in Nat
    BY Quarter, Halves
  <1>2. /\ s \in Seq(Nat) /\ Len(s) = Pixels(g) /\ t \in Seq(Nat) /\ Len(t) = 2 * Quarters(g)
    BY PictureSize, RowsOf, SizeOfPixels DEF Pixels
  <1>3. Injective(s) /\ \A i \in 1..Len(s) : s[i] \in 0..(0 + g.h * g.hs - 1)
    <2>1. Luma(g) \in Planes /\ Luma(g).step = 1 /\ Luma(g).cols <= Luma(g).pitch
      BY PictureSize, <1>1
    <2>2. Luma(g).base = 0 /\ Luma(g).rows * Luma(g).pitch = g.h * g.hs
      BY PictureSize
    <2> QED BY <2>1, <2>2, RowsApart
  <1>4. Injective(t) /\ \A i \in 1..Len(t) : t[i] \in Size(g)..(Size(g) + (g.h \div 2) * g.hs - 1)
    <2>1. UV(g) \in Planes /\ UV(g).step = 1 /\ UV(g).cols <= UV(g).pitch
      BY PictureSize, <1>1
    <2>2. UV(g).base = Size(g) /\ UV(g).rows * UV(g).pitch = (g.h \div 2) * g.hs
      BY PictureSize
    <2> QED BY <2>1, <2>2, RowsApart
  <1>5. Pixels(g) \in Nat /\ Quarters(g) \in Nat /\ Pixels(g) = 4 * Quarters(g)
    BY SizeOfPixels
  <1> HIDE DEF s, t
  <1>6. (\A i \in 1..Len(s) : s[i] < Size(g)) /\ (\A i \in 1..Len(t) : Size(g) <= t[i])
    BY <1>1, <1>3, <1>4, SMTT(30)
  <1>7. Injective(s \o t)
    BY <1>1, <1>2, <1>3, <1>4, <1>6, InjectiveBoth
  <1>8. /\ s \o t \in Seq(Nat) /\ Len(s \o t) = 6 * Quarters(g)
        /\ \A i \in 1..Pixels(g) : (s \o t)[i] = s[i]
        /\ \A i \in 1..(2 * Quarters(g)) : (s \o t)[Pixels(g) + i] = t[i]
    <2>1. /\ s \o t \in Seq(Nat) /\ Len(s \o t) = Len(s) + Len(t)
          /\ \A i \in 1..Len(s) : (s \o t)[i] = s[i]
          /\ \A i \in 1..Len(t) : (s \o t)[Len(s) + i] = t[i]
      BY <1>2, Joined
    <2>2. 4 * Quarters(g) + 2 * Quarters(g) = 6 * Quarters(g)
      BY <1>5
    <2> QED BY <2>1, <2>2, <1>2, <1>5
  <1> QED BY <1>7, <1>8 DEF SemiPlanar, s, t

LEMMA PlanarWalk ==
    ASSUME NEW g \in Geometries
    PROVE  /\ Planar(g, Size(g) + Size(g) \div 4) \in Seq(Nat)
           /\ Len(Planar(g, Size(g) + Size(g) \div 4)) = 6 * Quarters(g)
           /\ Injective(Planar(g, Size(g) + Size(g) \div 4))
  <1> DEFINE s == Rows(Luma(g))
             t == Rows(Chroma(g, Size(g)))
             v == Size(g) + Size(g) \div 4
             r == Rows(Chroma(g, v))
  <1>1. /\ Size(g) \in Nat /\ g.h * g.hs <= Size(g) /\ g.h * g.hs \in Nat /\ g.w <= g.hs
        /\ g.w \in Nat /\ g.hs \in Nat /\ (g.h \div 2) * (g.hs \div 2) \in Nat
        /\ (g.h \div 2) * (g.hs \div 2) <= Size(g) \div 4 /\ Size(g) \div 4 \in Nat
        /\ g.w \div 2 <= g.hs \div 2 /\ v \in Nat
    BY Quarter, Halves
  <1>2. /\ s \in Seq(Nat) /\ Len(s) = Pixels(g) /\ t \in Seq(Nat) /\ Len(t) = Quarters(g)
        /\ r \in Seq(Nat) /\ Len(r) = Quarters(g)
    <2>1. s \in Seq(Nat) /\ Len(s) = Pixels(g)
      BY PictureSize, RowsOf DEF Pixels
    <2>2. \A a \in Nat : Rows(Chroma(g, a)) \in Seq(Nat) /\ Len(Rows(Chroma(g, a))) = Quarters(g)
      <3> TAKE a \in Nat
      <3>1. /\ Chroma(g, a) \in Planes
            /\ Chroma(g, a).cols = g.w \div 2 /\ Chroma(g, a).rows = g.h \div 2
        BY PictureSize
      <3> QED BY <3>1, RowsOf DEF Quarters
    <2> QED BY <2>1, <2>2, <1>1
  <1>3. Injective(s) /\ \A i \in 1..Len(s) : s[i] \in 0..(0 + g.h * g.hs - 1)
    <2>1. Luma(g) \in Planes /\ Luma(g).step = 1 /\ Luma(g).cols <= Luma(g).pitch
      BY PictureSize, <1>1
    <2>2. Luma(g).base = 0 /\ Luma(g).rows * Luma(g).pitch = g.h * g.hs
      BY PictureSize
    <2> QED BY <2>1, <2>2, RowsApart
  <1>4. ASSUME NEW a \in Nat
        PROVE  /\ Injective(Rows(Chroma(g, a)))
               /\ \A i \in 1..Len(Rows(Chroma(g, a))) :
                     Rows(Chroma(g, a))[i] \in a..(a + (g.h \div 2) * (g.hs \div 2) - 1)
    <2>1. Chroma(g, a) \in Planes /\ Chroma(g, a).step = 1 /\ Chroma(g, a).cols <= Chroma(g, a).pitch
      BY PictureSize, <1>1
    <2>2. /\ Chroma(g, a).base = a
          /\ Chroma(g, a).rows * Chroma(g, a).pitch = (g.h \div 2) * (g.hs \div 2)
      BY PictureSize
    <2> QED BY <2>1, <2>2, RowsApart
  <1>5. Pixels(g) \in Nat /\ Quarters(g) \in Nat /\ Pixels(g) = 4 * Quarters(g)
    BY SizeOfPixels
  <1> DEFINE m == (g.h \div 2) * (g.hs \div 2)
             q == Size(g) \div 4
             o == Size(g)
  <1>6. /\ \A i \in 1..Len(t) : t[i] \in o..(o + m - 1)
        /\ \A i \in 1..Len(r) : r[i] \in v..(v + m - 1)
        /\ Injective(t) /\ Injective(r)
    BY <1>1, <1>4
  <1>61. m \in Nat /\ q \in Nat /\ m <= q /\ v = o + q /\ o \in Nat /\ g.h * g.hs <= o
    BY <1>1
  <1>62. /\ \A i \in 1..Len(s) : s[i] < o
         /\ \A i \in 1..Len(t) : o <= t[i] /\ t[i] < v
         /\ \A i \in 1..Len(r) : v <= r[i]
    <2> DEFINE e == g.h * g.hs
    <2>1. e \in Nat /\ e <= o /\ \A i \in 1..Len(s) : s[i] \in 0..(0 + e - 1)
      BY <1>1, <1>3
    <2> HIDE DEF s, t, r, v, m, q, o, e
    <2> QED BY <2>1, <1>6, <1>61
  <1> HIDE DEF s, t, r, v, m, q, o
  <1>7. Injective(s \o t)
    BY <1>2, <1>3, <1>6, <1>61, <1>62, InjectiveBoth
  <1>8. /\ s \o t \in Seq(Nat) /\ Len(s \o t) = Len(s) + Len(t)
        /\ \A i \in 1..Len(s) : (s \o t)[i] = s[i]
        /\ \A i \in 1..Len(t) : (s \o t)[Len(s) + i] = t[i]
        /\ \A i \in 1..Len(s \o t) : i \in 1..Len(s) \/ \E j \in 1..Len(t) : i = Len(s) + j
    BY <1>2, Joined
  <1>9. \A i \in 1..Len(s \o t) : (s \o t)[i] < v
    <2> TAKE i \in 1..Len(s \o t)
    <2>1. CASE i \in 1..Len(s)
      <3>1. s[i] < o /\ s[i] \in Nat
        BY <2>1, <1>62, <1>2
      <3>2. (s \o t)[i] = s[i]
        BY <2>1, <1>8
      <3> HIDE <1>8
      <3> QED BY <3>1, <3>2, <1>61
    <2>2. CASE \E j \in 1..Len(t) : i = Len(s) + j
      <3>1. PICK j \in 1..Len(t) : i = Len(s) + j
        BY <2>2
      <3> QED BY <3>1, <1>8, <1>62
    <2> QED BY <2>1, <2>2, <1>8
  <1>10. v \in Nat
    BY <1>61
  <1>11. Injective((s \o t) \o r)
    BY <1>2, <1>6, <1>62, <1>7, <1>8, <1>9, <1>10, InjectiveBoth
  <1>12. (s \o t) \o r \in Seq(Nat) /\ Len((s \o t) \o r) = 6 * Quarters(g)
    <2>1. (s \o t) \o r \in Seq(Nat) /\ Len((s \o t) \o r) = Len(s \o t) + Len(r)
      BY <1>2, <1>8, Joined
    <2>2. Len(s \o t) = Len(s) + Len(t)
      BY <1>8
    <2>3. (4 * Quarters(g) + Quarters(g)) + Quarters(g) = 6 * Quarters(g)
      BY <1>5
    <2>4. Len(s) = 4 * Quarters(g) /\ Len(t) = Quarters(g) /\ Len(r) = Quarters(g)
      BY <1>2, <1>5
    <2> HIDE <1>8
    <2> QED BY <2>1, <2>2, <2>3, <2>4
  <1> QED BY <1>11, <1>12 DEF Planar, s, t, r, v

(* Wherever the third plane is looked for, the walk has the same length    *)
(* and begins with the luma and the first chroma plane.                    *)
LEMMA PlanarBegins ==
    ASSUME NEW g \in Geometries, NEW v \in Nat
    PROVE  /\ Planar(g, v) \in Seq(Nat) /\ Len(Planar(g, v)) = 6 * Quarters(g)
           /\ \A i \in 1..(5 * Quarters(g)) :
                 Planar(g, v)[i] = (Rows(Luma(g)) \o Rows(Chroma(g, Size(g))))[i]
  <1> DEFINE s == Rows(Luma(g))
             t == Rows(Chroma(g, Size(g)))
             r == Rows(Chroma(g, v))
  <1>1. \A a \in Nat : Rows(Chroma(g, a)) \in Seq(Nat) /\ Len(Rows(Chroma(g, a))) = Quarters(g)
    <2> TAKE a \in Nat
    <2>1. /\ Chroma(g, a) \in Planes
          /\ Chroma(g, a).cols = g.w \div 2 /\ Chroma(g, a).rows = g.h \div 2
      BY PictureSize
    <2> QED BY <2>1, RowsOf DEF Quarters
  <1>2. s \in Seq(Nat) /\ Len(s) = Pixels(g)
    BY PictureSize, RowsOf DEF Pixels
  <1>3. t \in Seq(Nat) /\ Len(t) = Quarters(g) /\ r \in Seq(Nat) /\ Len(r) = Quarters(g)
    BY <1>1, Quarter
  <1>4. Pixels(g) \in Nat /\ Quarters(g) \in Nat /\ Pixels(g) = 4 * Quarters(g)
    BY SizeOfPixels
  <1> HIDE DEF s, t, r
  <1>5. s \o t \in Seq(Nat) /\ Len(s \o t) = Len(s) + Len(t)
    BY <1>2, <1>3, Joined
  <1>6. Len(s \o t) = 5 * Quarters(g)
    BY <1>2, <1>3, <1>4, <1>5
  <1>7. /\ (s \o t) \o r \in Seq(Nat) /\ Len((s \o t) \o r) = Len(s \o t) + Len(r)
        /\ \A i \in 1..Len(s \o t) : ((s \o t) \o r)[i] = (s \o t)[i]
    <2> DEFINE u == s \o t
    <2>1. u \in Seq(Nat)
      BY <1>5
    <2> HIDE DEF u
    <2>2. /\ u \o r \in Seq(Nat) /\ Len(u \o r) = Len(u) + Len(r)
          /\ \A i \in 1..Len(u) : (u \o r)[i] = u[i]
      BY <2>1, <1>3, Joined
    <2> QED BY <2>2 DEF u
  <1>8. Len(s \o t) + Len(r) = 6 * Quarters(g)
    BY <1>3, <1>4, <1>6
  <1> QED BY <1>6, <1>7, <1>8 DEF Planar, s, t, r

-----------------------------------------------------------------------------
(* Sums and exclusive ors of sequences.                                    *)
LEMMA LeastOf ==
    ASSUME NEW T \in SUBSET Nat, T # {}
    PROVE  \E x \in T : \A y \in T : x <= y
  <1> DEFINE R == OpToRel(<, Nat)
  <1>1. IsWellFoundedOn(R, Nat)
    BY NatLessThanWellFounded
  <1>2. \A x, y \in Nat : y < x => <<y, x>> \in R
    BY DEF OpToRel
  <1> HIDE DEF R
  <1>3. PICK x \in T : \A y \in T : ~(<<y, x>> \in R)
    BY <1>1, WFMin
  <1>4. \A y \in T : ~(y < x) /\ y \in Nat /\ x \in Nat
    BY <1>2, <1>3
  <1> QED BY <1>3, <1>4

LEMMA GreatestOf ==
    ASSUME NEW n \in Nat, NEW T \in SUBSET (0..n), T # {}
    PROVE  \E x \in T : \A y \in T : y <= x
  <1> DEFINE S == {n - x : x \in T}
  <1>1. S \in SUBSET Nat /\ S # {}
    <2>1. \A x \in T : x \in 0..n /\ n - x \in Nat
      OBVIOUS
    <2> QED BY <2>1
  <1>2. PICK y \in S : \A z \in S : y <= z
    BY <1>1, LeastOf
  <1>3. PICK x \in T : y = n - x
    BY <1>2
  <1>4. ASSUME NEW z \in T PROVE z <= x
    <2>1. n - x <= n - z
      BY <1>2, <1>3, <1>4
    <2>2. x \in Nat /\ z \in Nat
      BY <1>3, <1>4
    <2> QED BY <2>1, <2>2
  <1> QED BY <1>3, <1>4

(* What is said of 0, and of a number when it is said of the one before.   *)
LEMMA UpTo ==
    ASSUME NEW n \in Nat, NEW S \in SUBSET (0..n), 0 \in S,
           \A i \in 1..n : i - 1 \in S => i \in S
    PROVE  S = 0..n
  <1> SUFFICES ASSUME S # 0..n PROVE FALSE
    OBVIOUS
  <1> DEFINE T == (0..n) \ S
  <1>1. T \in SUBSET Nat /\ T # {}
    <2>1. T # {}
      OBVIOUS
    <2>2. T \in SUBSET Nat
      OBVIOUS
    <2> QED BY <2>1, <2>2
  <1>2. PICK x \in T : \A y \in T : x <= y
    BY <1>1, LeastOf
  <1>3. x \in 1..n /\ x - 1 \in 0..n /\ ~ (x <= x - 1)
    BY <1>2
  <1>4. x - 1 \in S
    BY <1>2, <1>3
  <1> QED BY <1>2, <1>3, <1>4

(* A function that goes on from its value before, from e on.               *)
Recurs(f, n, e, step) == f[0] = e /\ \A i \in 1..n : f[i] = step[i, f[i - 1]]

LEMMA GoesOnFrom ==
    ASSUME NEW n \in Nat, NEW V, NEW e \in V, NEW step \in [(1..n) \X V -> V]
    PROVE  \E f \in [0..n -> V] : Recurs(f, n, e, step)
  <1> DEFINE D(m, f) == f[0] = e /\ \A i \in 1..m : f[i] = step[i, f[i - 1]]
             S == {m \in 0..n : \E f \in [0..n -> V] : D(m, f)}
  <1>1. 0 \in S
    <2> DEFINE f == [i \in 0..n |-> e]
    <2>1. f \in [0..n -> V] /\ f[0] = e
      OBVIOUS
    <2>2. D(0, f)
      BY <2>1
    <2>3. 0 \in 0..n
      OBVIOUS
    <2> HIDE DEF D, f
    <2> QED BY <2>1, <2>2, <2>3
  <1>2. ASSUME NEW m \in 1..n, m - 1 \in S PROVE m \in S
    <2>1. PICK f \in [0..n -> V] : D(m - 1, f)
      BY <1>2
    <2> DEFINE v == step[m, f[m - 1]]
               g == [f EXCEPT ![m] = v]
    <2>2. v \in V
      <3>1. m - 1 \in 0..n
        OBVIOUS
      <3>2. f[m - 1] \in V
        BY <3>1
      <3>3. <<m, f[m - 1]>> \in (1..n) \X V
        BY <3>2
      <3> QED BY <3>3
    <2> HIDE DEF v
    <2>3. g \in [0..n -> V] /\ g[m] = v /\ \A i \in 0..n : i # m => g[i] = f[i]
      BY <2>2
    <2> HIDE DEF g
    <2>4. g[0] = e
      <3>1. 0 \in 0..n /\ 0 # m
        OBVIOUS
      <3>2. f[0] = e
        BY <2>1
      <3> QED BY <3>1, <3>2, <2>3
    <2>5. ASSUME NEW i \in 1..m PROVE g[i] = step[i, g[i - 1]]
      <3>1. i - 1 \in 0..n /\ i - 1 # m
        OBVIOUS
      <3>2. g[i - 1] = f[i - 1]
        BY <3>1, <2>3
      <3>3. CASE i = m
        BY <3>2, <3>3, <2>3 DEF v
      <3>4. CASE i # m
        <4>1. i \in 1..(m - 1) /\ i \in 0..n
          BY <3>4
        <4> QED BY <4>1, <3>2, <3>4, <2>1, <2>3
      <3> QED BY <3>3, <3>4
    <2>6. D(m, g)
      BY <2>4, <2>5
    <2>7. m \in 0..n
      OBVIOUS
    <2> HIDE DEF D
    <2> QED BY <2>3, <2>6, <2>7
  <1>3. S = 0..n
    <2>1. S \in SUBSET (0..n)
      OBVIOUS
    <2> HIDE DEF S
    <2> QED BY <2>1, <1>1, <1>2, UpTo
  <1>4. n \in S
    <2>1. n \in 0..n
      OBVIOUS
    <2> HIDE DEF S
    <2> QED BY <1>3, <2>1
  <1>5. PICK f \in [0..n -> V] : D(n, f)
    BY <1>4
  <1>6. Recurs(f, n, e, step)
    BY <1>5 DEF Recurs
  <1> QED BY <1>6

(* A function is told by its values.                                       *)
LEMMA SameValues ==
    ASSUME NEW S, NEW T, NEW f \in [S -> T], NEW g, g = [x \in S |-> g[x]], \A x \in S : f[x] = g[x]
    PROVE  f = g
  OBVIOUS

LEMMA SumIs ==
    ASSUME NEW s \in Seq(Nat)
    PROVE  \E f \in [0..Len(s) -> Nat] :
              /\ f[0] = 0 /\ \A i \in 1..Len(s) : f[i] = f[i - 1] + s[i]
              /\ SumOf(s) = f[Len(s)]
  <1> DEFINE D(f) == f = [i \in 0..Len(s) |-> IF i = 0 THEN 0 ELSE f[i - 1] + s[i]]
             h == CHOOSE f : D(f)
             step == [c \in (1..Len(s)) \X Nat |-> c[2] + s[c[1]]]
  <1>1. Len(s) \in Nat /\ 0 \in Nat /\ step \in [(1..Len(s)) \X Nat -> Nat]
    OBVIOUS
  <1>2. PICK f \in [0..Len(s) -> Nat] : Recurs(f, Len(s), 0, step)
    <2> HIDE DEF step
    <2> QED BY <1>1, GoesOnFrom
  <1>3. \A i \in 1..Len(s) : f[i] = f[i - 1] + s[i]
    <2> TAKE i \in 1..Len(s)
    <2>1. i - 1 \in 0..Len(s)
      BY <1>1
    <2>2. f[i - 1] \in Nat
      BY <2>1
    <2>3. <<i, f[i - 1]>> \in (1..Len(s)) \X Nat
      BY <2>2
    <2>4. step[i, f[i - 1]] = f[i - 1] + s[i]
      BY <2>3
    <2> HIDE DEF step
    <2> QED BY <1>2, <2>4 DEF Recurs
  <1>4. D(f)
    <2> DEFINE g == [i \in 0..Len(s) |-> IF i = 0 THEN 0 ELSE f[i - 1] + s[i]]
    <2>1. \A i \in 0..Len(s) : f[i] = g[i]
      <3>1. \A i \in 0..Len(s) : i = 0 \/ i \in 1..Len(s)
        BY <1>1
      <3> QED BY <3>1, <1>2, <1>3 DEF Recurs
    <2>2. f = g
      <3>1. g = [i \in 0..Len(s) |-> g[i]]
        OBVIOUS
      <3> HIDE DEF g
      <3> QED BY <2>1, <3>1, SameValues
    <2> QED BY <2>2
  <1>5. D(h)
    <2> HIDE DEF D
    <2> QED BY <1>4
  <1>6. SumOf(s) = h[Len(s)]
    BY DEF SumOf
  <1>7. h \in [0..Len(s) -> Nat] /\ h[0] = 0 /\ \A i \in 1..Len(s) : h[i] = h[i - 1] + s[i]
    <2> HIDE DEF h
    <2>1. h[0] = 0 /\ \A i \in 1..Len(s) : h[i] = h[i - 1] + s[i]
      <3>1. 0 \in 0..Len(s) /\ \A i \in 1..Len(s) : i # 0 /\ i \in 0..Len(s)
        BY <1>1
      <3> QED BY <1>5, <3>1
    <2> DEFINE S == {i \in 0..Len(s) : h[i] \in Nat}
    <2>2. 0 \in S
      BY <1>1, <2>1
    <2>3. ASSUME NEW i \in 1..Len(s), i - 1 \in S PROVE i \in S
      <3>1. h[i] = h[i - 1] + s[i] /\ s[i] \in Nat /\ h[i - 1] \in Nat /\ i \in 0..Len(s)
        BY <1>1, <2>1, <2>3
      <3> QED BY <3>1
    <2>4. S = 0..Len(s)
      <3>1. S \in SUBSET (0..Len(s))
        OBVIOUS
      <3> HIDE DEF S
      <3> QED BY <3>1, <1>1, <2>2, <2>3, UpTo
    <2>5. \A i \in 0..Len(s) : h[i] \in Nat
      BY <2>4
    <2>6. h = [i \in 0..Len(s) |-> h[i]]
      BY <1>5
    <2> HIDE <1>5
    <2>7. h \in [0..Len(s) -> Nat]
      BY <2>5, <2>6
    <2> QED BY <2>1, <2>7
  <1> QED BY <1>6, <1>7

LEMMA XorIs ==
    ASSUME NEW B, NEW s \in Seq(SUBSET B)
    PROVE  \E f \in [0..Len(s) -> SUBSET B] :
              /\ f[0] = {} /\ \A i \in 1..Len(s) : f[i] = BitXor(f[i - 1], s[i])
              /\ XorOf(s) = f[Len(s)]
  <1> DEFINE D(f) == f = [i \in 0..Len(s) |-> IF i = 0 THEN {} ELSE BitXor(f[i - 1], s[i])]
             h == CHOOSE f : D(f)
             V == SUBSET B
             step == [c \in (1..Len(s)) \X V |-> BitXor(c[2], s[c[1]])]
  <1>0. \A v, w \in SUBSET B : BitXor(v, w) \in SUBSET B
    BY DEF BitXor
  <1>1. Len(s) \in Nat /\ {} \in V /\ step \in [(1..Len(s)) \X V -> V]
    <2>1. \A c \in (1..Len(s)) \X V : BitXor(c[2], s[c[1]]) \in V
      BY <1>0
    <2> QED BY <2>1
  <1>2. PICK f \in [0..Len(s) -> V] : Recurs(f, Len(s), {}, step)
    <2> HIDE DEF step, V
    <2> QED BY <1>1, GoesOnFrom
  <1>3. \A i \in 1..Len(s) : f[i] = BitXor(f[i - 1], s[i])
    <2> TAKE i \in 1..Len(s)
    <2>1. i - 1 \in 0..Len(s)
      BY <1>1
    <2>2. f[i - 1] \in V
      BY <2>1
    <2>3. <<i, f[i - 1]>> \in (1..Len(s)) \X V
      BY <2>2
    <2>4. step[i, f[i - 1]] = BitXor(f[i - 1], s[i])
      BY <2>3
    <2> HIDE DEF step
    <2> QED BY <1>2, <2>4 DEF Recurs
  <1>4. D(f)
    <2> DEFINE g == [i \in 0..Len(s) |-> IF i = 0 THEN {} ELSE BitXor(f[i - 1], s[i])]
    <2>1. \A i \in 0..Len(s) : f[i] = g[i]
      <3>1. \A i \in 0..Len(s) : i = 0 \/ i \in 1..Len(s)
        BY <1>1
      <3> QED BY <3>1, <1>2, <1>3 DEF Recurs
    <2>2. f = g
      <3>1. g = [i \in 0..Len(s) |-> g[i]]
        OBVIOUS
      <3> HIDE DEF g
      <3> QED BY <2>1, <3>1, SameValues
    <2> QED BY <2>2
  <1>5. D(h)
    <2> HIDE DEF D
    <2> QED BY <1>4
  <1>6. XorOf(s) = h[Len(s)]
    BY DEF XorOf
  <1>7. h \in [0..Len(s) -> SUBSET B] /\ h[0] = {} /\ \A i \in 1..Len(s) : h[i] = BitXor(h[i - 1], s[i])
    <2> HIDE DEF h
    <2>1. h[0] = {} /\ \A i \in 1..Len(s) : h[i] = BitXor(h[i - 1], s[i])
      <3>1. 0 \in 0..Len(s) /\ \A i \in 1..Len(s) : i # 0 /\ i \in 0..Len(s)
        BY <1>1
      <3> QED BY <1>5, <3>1
    <2> DEFINE S == {i \in 0..Len(s) : h[i] \in SUBSET B}
    <2>2. 0 \in S
      BY <1>1, <2>1
    <2>3. ASSUME NEW i \in 1..Len(s), i - 1 \in S PROVE i \in S
      <3>1. h[i] = BitXor(h[i - 1], s[i]) /\ s[i] \in SUBSET B /\ h[i - 1] \in SUBSET B /\ i \in 0..Len(s)
        BY <1>1, <2>1, <2>3
      <3> QED BY <3>1, <1>0
    <2>4. S = 0..Len(s)
      <3>1. S \in SUBSET (0..Len(s))
        OBVIOUS
      <3> HIDE DEF S
      <3> QED BY <3>1, <1>1, <2>2, <2>3, UpTo
    <2>5. \A i \in 0..Len(s) : h[i] \in SUBSET B
      BY <2>4
    <2>6. h = [i \in 0..Len(s) |-> h[i]]
      BY <1>5
    <2> HIDE <1>5
    <2>7. h \in [0..Len(s) -> SUBSET B]
      BY <2>5, <2>6
    <2> QED BY <2>1, <2>7
  <1> QED BY <1>6, <1>7

(* One number more or less shows in the sum.                               *)
LEMMA SumTells ==
    ASSUME NEW s \in Seq(Nat), NEW t \in Seq(Nat), Len(t) = Len(s),
           NEW i \in 1..Len(s), s[i] # t[i], \A j \in 1..Len(s) : j # i => s[j] = t[j]
    PROVE  /\ SumOf(s) \in Nat /\ SumOf(t) \in Nat
           /\ SumOf(t) = SumOf(s) + (t[i] - s[i])
  <1> DEFINE n == Len(s)
  <1>1. PICK f \in [0..n -> Nat] : f[0] = 0 /\ (\A j \in 1..n : f[j] = f[j - 1] + s[j]) /\ SumOf(s) = f[n]
    BY SumIs
  <1>2. PICK g \in [0..n -> Nat] : g[0] = 0 /\ (\A j \in 1..n : g[j] = g[j - 1] + t[j]) /\ SumOf(t) = g[n]
    BY SumIs
  <1>3. n \in Nat /\ n = Len(s) /\ i \in 1..n /\ \A j \in 1..n : s[j] \in Nat /\ t[j] \in Nat
    BY SMTT(30)
  <1> HIDE DEF n
  <1> DEFINE d == t[i] - s[i]
             S == {j \in 0..n : g[j] = f[j] + IF j < i THEN 0 ELSE d}
  <1>4. d \in Int /\ d # 0
    BY <1>3
  <1>5. 0 \in S
    BY <1>1, <1>2, <1>3
  <1>6. ASSUME NEW j \in 1..n, j - 1 \in S PROVE j \in S
    <2>1. /\ j \in 0..n /\ j - 1 \in 0..n /\ f[j - 1] \in Nat /\ g[j - 1] \in Nat
          /\ g[j - 1] = f[j - 1] + IF j - 1 < i THEN 0 ELSE d
      <3>1. j \in 0..n /\ j - 1 \in 0..n
        BY <1>3
      <3>2. f[j - 1] \in Nat /\ g[j - 1] \in Nat
        BY <3>1
      <3>3. g[j - 1] = f[j - 1] + IF j - 1 < i THEN 0 ELSE d
        BY <1>6
      <3> QED BY <3>1, <3>2, <3>3
    <2>2. f[j] = f[j - 1] + s[j] /\ g[j] = g[j - 1] + t[j] /\ s[j] \in Nat /\ t[j] \in Nat
      BY <1>1, <1>2, <1>3
    <2>3. CASE j < i
      <3>1. s[j] = t[j] /\ j - 1 < i
        BY <2>3, <1>3
      <3> QED BY <3>1, <2>1, <2>2, <2>3
    <2>4. CASE j = i
      <3>1. j - 1 < i /\ t[j] = s[j] + d
        BY <2>4, <1>3
      <3> HIDE DEF d
      <3> QED BY <3>1, <2>1, <2>2, <2>4, <1>4
    <2>5. CASE j > i
      <3>1. s[j] = t[j] /\ ~ (j - 1 < i) /\ ~ (j < i)
        BY <2>5, <1>3
      <3> HIDE DEF d
      <3> QED BY <3>1, <2>1, <2>2, <1>4, SMTT(30)
    <2> QED BY <2>3, <2>4, <2>5, <1>3
  <1>7. S = 0..n
    <2>1. S \in SUBSET (0..n)
      OBVIOUS
    <2> HIDE DEF S
    <2> QED BY <2>1, <1>3, <1>5, <1>6, UpTo
  <1>8. n \in 0..n /\ ~ (n < i)
    BY <1>3
  <1>9. g[n] = f[n] + d
    BY <1>7, <1>8
  <1>10. f[n] \in Nat /\ g[n] \in Nat
    BY <1>8
  <1>11. SumOf(s) = f[n] /\ SumOf(t) = g[n]
    BY <1>1, <1>2
  <1>12. g[n] = f[n] + (t[i] - s[i])
    BY <1>9
  <1> HIDE DEF d
  <1> QED BY <1>10, <1>11, <1>12

LEMMA XorTells ==
    ASSUME NEW B, NEW s \in Seq(SUBSET B), NEW t \in Seq(SUBSET B), Len(t) = Len(s),
           NEW i \in 1..Len(s), s[i] # t[i], \A j \in 1..Len(s) : j # i => s[j] = t[j]
    PROVE  XorOf(s) # XorOf(t)
  <1> DEFINE n == Len(s)
  <1>1. PICK f \in [0..n -> SUBSET B] :
            f[0] = {} /\ (\A j \in 1..n : f[j] = BitXor(f[j - 1], s[j])) /\ XorOf(s) = f[n]
    BY XorIs
  <1>2. PICK g \in [0..n -> SUBSET B] :
            g[0] = {} /\ (\A j \in 1..n : g[j] = BitXor(g[j - 1], t[j])) /\ XorOf(t) = g[n]
    <2>1. \E g \in [0..Len(t) -> SUBSET B] :
             g[0] = {} /\ (\A j \in 1..Len(t) : g[j] = BitXor(g[j - 1], t[j])) /\ XorOf(t) = g[Len(t)]
      BY XorIs
    <2>2. Len(t) = n
      OBVIOUS
    <2> HIDE DEF n
    <2> QED BY <2>1, <2>2
  <1>3. n \in Nat /\ n = Len(s) /\ i \in 1..n /\ s[i] # t[i] /\ \A j \in 1..n : j # i => s[j] = t[j]
    OBVIOUS
  <1> HIDE DEF n
  <1> DEFINE S == {j \in 0..n : IF j < i THEN g[j] = f[j] ELSE g[j] # f[j]}
  <1>4. \A u, v, w : BitXor(u, v) = BitXor(u, w) => v = w
    BY DEF BitXor
  <1>5. \A u, v, w : BitXor(u, w) = BitXor(v, w) => u = v
    BY DEF BitXor
  <1>6. 0 \in S
    <2>1. 0 \in 0..n /\ 0 < i
      BY <1>3
    <2> QED BY <2>1, <1>1, <1>2
  <1>7. ASSUME NEW j \in 1..n, j - 1 \in S PROVE j \in S
    <2>1. j \in 0..n /\ IF j - 1 < i THEN g[j - 1] = f[j - 1] ELSE g[j - 1] # f[j - 1]
      BY <1>3, <1>7
    <2>2. f[j] = BitXor(f[j - 1], s[j]) /\ g[j] = BitXor(g[j - 1], t[j])
      BY <1>1, <1>2
    <2>3. CASE j < i
      <3>1. s[j] = t[j] /\ j - 1 < i
        BY <2>3, <1>3
      <3> QED BY <3>1, <2>1, <2>2, <2>3
    <2>4. CASE j = i
      <3>1. j - 1 < i /\ t[j] # s[j] /\ ~ (j < i)
        BY <2>4, <1>3
      <3>2. g[j - 1] = f[j - 1]
        BY <2>1, <3>1
      <3>3. f[j] # g[j]
        BY <3>1, <3>2, <2>2, <1>4
      <3> QED BY <3>1, <3>3, <2>1
    <2>5. CASE j > i
      <3>1. s[j] = t[j] /\ ~ (j - 1 < i) /\ ~ (j < i)
        BY <2>5, <1>3
      <3>2. g[j - 1] # f[j - 1]
        BY <2>1, <3>1
      <3>3. f[j] # g[j]
        BY <3>1, <3>2, <2>2, <1>5
      <3> QED BY <3>1, <3>3, <2>1
    <2> QED BY <2>3, <2>4, <2>5, <1>3
  <1>8. S = 0..n
    <2>1. S \in SUBSET (0..n)
      OBVIOUS
    <2> HIDE DEF S
    <2> QED BY <2>1, <1>3, <1>6, <1>7, UpTo
  <1>9. n \in 0..n /\ ~ (n < i)
    BY <1>3
  <1>10. g[n] # f[n]
    BY <1>8, <1>9
  <1> QED BY <1>1, <1>2, <1>10

-----------------------------------------------------------------------------
(* The samples of a semi-planar picture, by row and column.                *)
LumaAt(g, x, y)   == y * g.hs + x
ChromaAt(g, x, y) == Size(g) + y * g.hs + x

LEMMA PlaceIs ==
    ASSUME NEW g \in Geometries
    PROVE  \A x \in Nat, y \in Nat :
              /\ At(Luma(g), x, y) = LumaAt(g, x, y)
              /\ At(UV(g), x, y) = ChromaAt(g, x, y)
              /\ At(Half(g, Size(g)), x, y) = ChromaAt(g, 2 * x, y)
              /\ At(Half(g, Size(g) + 1), x, y) = ChromaAt(g, 2 * x + 1, y)
              /\ LumaAt(g, x, y) \in Nat /\ ChromaAt(g, x, y) \in Nat
  <1>1. /\ Luma(g).base = 0 /\ Luma(g).pitch = g.hs /\ Luma(g).step = 1
        /\ UV(g).base = Size(g) /\ UV(g).pitch = g.hs /\ UV(g).step = 1
        /\ Size(g) \in Nat /\ Size(g) + 1 \in Nat /\ g.hs \in Nat
    BY PictureSize, Quarter, Halves
  <1>2. \A a \in Nat : Half(g, a).base = a /\ Half(g, a).pitch = g.hs /\ Half(g, a).step = 2
    BY PictureSize
  <1> TAKE x \in Nat, y \in Nat
  <1>3. y * g.hs \in Nat
    BY <1>1
  <1>4. /\ At(Luma(g), x, y) = 0 + y * g.hs + x * 1
        /\ At(UV(g), x, y) = Size(g) + y * g.hs + x * 1
        /\ At(Half(g, Size(g)), x, y) = Size(g) + y * g.hs + x * 2
        /\ At(Half(g, Size(g) + 1), x, y) = (Size(g) + 1) + y * g.hs + x * 2
    BY <1>1, <1>2 DEF At
  <1> QED BY <1>1, <1>3, <1>4 DEF LumaAt, ChromaAt

LEMMA RowsAre ==
    ASSUME NEW p \in Planes, NEW c, NEW r, NEW n, c = p.cols, r = p.rows, n = c * r
    PROVE  /\ \A i \in 1..n : \E x \in 0..(c - 1), y \in 0..(r - 1) :
                  i = y * c + x + 1 /\ Rows(p)[i] = At(p, x, y)
           /\ \A x \in 0..(c - 1), y \in 0..(r - 1) :
                  y * c + x + 1 \in 1..n /\ Rows(p)[y * c + x + 1] = At(p, x, y)
  BY RowsOf

(* The same place of two planes of one shape.                              *)
LEMMA BothRows ==
    ASSUME NEW p \in Planes, NEW r \in Planes, NEW c, NEW d, NEW n,
           c = p.cols, d = p.rows, c = r.cols, d = r.rows, n = c * d, NEW i \in 1..n
    PROVE  \E x \in 0..(c - 1), y \in 0..(d - 1) :
              Rows(p)[i] = At(p, x, y) /\ Rows(r)[i] = At(r, x, y)
  <1>1. PICK x \in 0..(c - 1), y \in 0..(d - 1) :
           i = y * c + x + 1 /\ Rows(p)[i] = At(p, x, y)
    <2>1. \A k \in 1..n : \E x \in 0..(c - 1), y \in 0..(d - 1) :
             k = y * c + x + 1 /\ Rows(p)[k] = At(p, x, y)
      <3>1. \A k \in 1..(p.cols * p.rows) : \E x \in 0..(p.cols - 1), y \in 0..(p.rows - 1) :
               k = y * p.cols + x + 1 /\ Rows(p)[k] = At(p, x, y)
        BY RowsOf
      <3> QED BY <3>1
    <2> QED BY <2>1
  <1>2. Rows(r)[y * c + x + 1] = At(r, x, y)
    BY RowsAre
  <1> QED BY <1>1, <1>2

LEMMA SemiPlanarAt ==
    ASSUME NEW g \in Geometries
    PROVE  /\ \A x \in 0..(g.w - 1), y \in 0..(g.h - 1) :
                 /\ y * g.w + x + 1 \in 1..(6 * Quarters(g))
                 /\ SemiPlanar(g)[y * g.w + x + 1] = LumaAt(g, x, y)
           /\ \A x \in 0..(g.w - 1), y \in 0..(g.h \div 2 - 1) :
                 /\ Pixels(g) + (y * g.w + x + 1) \in 1..(6 * Quarters(g))
                 /\ SemiPlanar(g)[Pixels(g) + (y * g.w + x + 1)] = ChromaAt(g, x, y)
           /\ \A i \in 1..(6 * Quarters(g)) :
                 \/ \E x \in 0..(g.w - 1), y \in 0..(g.h - 1) : SemiPlanar(g)[i] = LumaAt(g, x, y)
                 \/ \E x \in 0..(g.w - 1), y \in 0..(g.h \div 2 - 1) :
                       SemiPlanar(g)[i] = ChromaAt(g, x, y)
  <1> DEFINE q == Quarters(g)
             p == Pixels(g)
             w == g.w
             h == g.h
             b == g.h \div 2
  <1>1. /\ w \in Nat /\ h \in Nat /\ b \in Nat /\ q \in Nat /\ p \in Nat /\ p = 4 * q
        /\ w * h = p /\ w * b = 2 * q
    BY Halves, SizeOfPixels DEF Pixels
  <1>2. /\ \A i \in 1..p : SemiPlanar(g)[i] = Rows(Luma(g))[i]
        /\ \A i \in 1..(2 * q) : SemiPlanar(g)[p + i] = Rows(UV(g))[i]
    BY SemiPlanarWalk
  <1>3. /\ \A i \in 1..p : \E x \in 0..(w - 1), y \in 0..(h - 1) : Rows(Luma(g))[i] = At(Luma(g), x, y)
        /\ \A x \in 0..(w - 1), y \in 0..(h - 1) :
              y * w + x + 1 \in 1..p /\ Rows(Luma(g))[y * w + x + 1] = At(Luma(g), x, y)
    <2>1. Luma(g) \in Planes /\ Luma(g).cols = w /\ Luma(g).rows = h
      BY PictureSize
    <2>2. p = w * h
      BY <1>1
    <2> HIDE DEF w, h, p
    <2>3. \A i \in 1..p : \E x \in 0..(w - 1), y \in 0..(h - 1) :
             i = y * w + x + 1 /\ Rows(Luma(g))[i] = At(Luma(g), x, y)
      BY <2>1, <2>2, RowsAre
    <2>4. \A x \in 0..(w - 1), y \in 0..(h - 1) :
             y * w + x + 1 \in 1..p /\ Rows(Luma(g))[y * w + x + 1] = At(Luma(g), x, y)
      BY <2>1, <2>2, RowsAre
    <2> QED BY <2>3, <2>4
  <1>4. /\ \A i \in 1..(2 * q) : \E x \in 0..(w - 1), y \in 0..(b - 1) : Rows(UV(g))[i] = At(UV(g), x, y)
        /\ \A x \in 0..(w - 1), y \in 0..(b - 1) :
              y * w + x + 1 \in 1..(2 * q) /\ Rows(UV(g))[y * w + x + 1] = At(UV(g), x, y)
    <2>1. UV(g) \in Planes /\ UV(g).cols = w /\ UV(g).rows = b
      BY PictureSize
    <2> DEFINE n == 2 * q
    <2>2. n = w * b
      BY <1>1
    <2> HIDE DEF w, b, q, n
    <2>3. \A i \in 1..n : \E x \in 0..(w - 1), y \in 0..(b - 1) :
             i = y * w + x + 1 /\ Rows(UV(g))[i] = At(UV(g), x, y)
      BY <2>1, <2>2, RowsAre
    <2>4. \A x \in 0..(w - 1), y \in 0..(b - 1) :
             y * w + x + 1 \in 1..n /\ Rows(UV(g))[y * w + x + 1] = At(UV(g), x, y)
      BY <2>1, <2>2, RowsAre
    <2> QED BY <2>3, <2>4 DEF n
  <1>5. /\ \A x \in 0..(w - 1), y \in 0..(h - 1) : At(Luma(g), x, y) = LumaAt(g, x, y)
        /\ \A x \in 0..(w - 1), y \in 0..(b - 1) : At(UV(g), x, y) = ChromaAt(g, x, y)
    <2>1. \A x \in Nat, y \in Nat :
             At(Luma(g), x, y) = LumaAt(g, x, y) /\ At(UV(g), x, y) = ChromaAt(g, x, y)
      BY PlaceIs
    <2>2. \A n \in Nat : \A x \in 0..(n - 1) : x \in Nat
      OBVIOUS
    <2> HIDE DEF w, h, b
    <2> QED BY <1>1, <2>1, <2>2
  <1> HIDE DEF w, h, b, p, q
  <1>6. ASSUME NEW x \in 0..(w - 1), NEW y \in 0..(h - 1)
        PROVE  /\ y * w + x + 1 \in 1..(6 * q)
               /\ SemiPlanar(g)[y * w + x + 1] = LumaAt(g, x, y)
    <2>1. y * w + x + 1 \in 1..p
      BY <1>3
    <2>2. SemiPlanar(g)[y * w + x + 1] = LumaAt(g, x, y)
      BY <2>1, <1>2, <1>3, <1>5
    <2> QED BY <2>1, <2>2, <1>1
  <1>7. ASSUME NEW x \in 0..(w - 1), NEW y \in 0..(b - 1)
        PROVE  /\ p + (y * w + x + 1) \in 1..(6 * q)
               /\ SemiPlanar(g)[p + (y * w + x + 1)] = ChromaAt(g, x, y)
    <2>1. y * w + x + 1 \in 1..(2 * q)
      BY <1>4
    <2>2. SemiPlanar(g)[p + (y * w + x + 1)] = ChromaAt(g, x, y)
      BY <2>1, <1>2, <1>4, <1>5
    <2> DEFINE i == y * w + x + 1
    <2> HIDE DEF i
    <2>3. p + i \in 1..(6 * q)
      BY <2>1, <1>1 DEF i
    <2> QED BY <2>2, <2>3 DEF i
  <1>8. ASSUME NEW i \in 1..(6 * q)
        PROVE  \/ \E x \in 0..(w - 1), y \in 0..(h - 1) : SemiPlanar(g)[i] = LumaAt(g, x, y)
               \/ \E x \in 0..(w - 1), y \in 0..(b - 1) : SemiPlanar(g)[i] = ChromaAt(g, x, y)
    <2>1. CASE i \in 1..p
      BY <2>1, <1>2, <1>3, <1>5
    <2>2. CASE i \notin 1..p
      <3>1. i - p \in 1..(2 * q) /\ i = p + (i - p)
        BY <2>2, <1>1
      <3>2. SemiPlanar(g)[i] = Rows(UV(g))[i - p]
        BY <3>1, <1>2
      <3> QED BY <3>1, <3>2, <1>4, <1>5
    <2> QED BY <2>1, <2>2
  <1> QED BY <1>6, <1>7, <1>8 DEF w, h, b, p, q

(* What one picture has at a sample, another of its size has at its own.   *)
LEMMA SampledWalk ==
    ASSUME NEW g \in Geometries
    PROVE  /\ Sampled(g) \in Seq(Nat) /\ Len(Sampled(g)) = 6 * Quarters(g)
           /\ \A i \in 1..Pixels(g) : Sampled(g)[i] = Rows(Luma(g))[i]
           /\ \A i \in 1..Quarters(g) :
                 /\ Sampled(g)[Pixels(g) + i] = Rows(Half(g, Size(g)))[i]
                 /\ Sampled(g)[5 * Quarters(g) + i] = Rows(Half(g, Size(g) + 1))[i]
  <1> DEFINE s == Rows(Luma(g))
             t == Rows(Half(g, Size(g)))
             r == Rows(Half(g, Size(g) + 1))
             q == Quarters(g)
             p == Pixels(g)
  <1>1. q \in Nat /\ p \in Nat /\ p = 4 * q
    BY SizeOfPixels
  <1>2. /\ s \in Seq(Nat) /\ Len(s) = p /\ t \in Seq(Nat) /\ Len(t) = q
        /\ r \in Seq(Nat) /\ Len(r) = q
    <2>1. s \in Seq(Nat) /\ Len(s) = p
      BY PictureSize, RowsOf DEF Pixels
    <2>2. \A a \in Nat : Rows(Half(g, a)) \in Seq(Nat) /\ Len(Rows(Half(g, a))) = Quarters(g)
      <3> TAKE a \in Nat
      <3>1. /\ Half(g, a) \in Planes
            /\ Half(g, a).cols = g.w \div 2 /\ Half(g, a).rows = g.h \div 2
        BY PictureSize
      <3> QED BY <3>1, RowsOf DEF Quarters
    <2>3. Size(g) \in Nat /\ Size(g) + 1 \in Nat
      BY Quarter
    <2> QED BY <2>1, <2>2, <2>3
  <1> HIDE DEF s, t, r, p, q
  <1>3. /\ s \o t \in Seq(Nat) /\ Len(s \o t) = Len(s) + Len(t)
        /\ \A i \in 1..Len(s) : (s \o t)[i] = s[i]
        /\ \A i \in 1..Len(t) : (s \o t)[Len(s) + i] = t[i]
    BY <1>2, Joined
  <1>4. /\ (s \o t) \o r \in Seq(Nat) /\ Len((s \o t) \o r) = Len(s \o t) + Len(r)
        /\ \A i \in 1..Len(s \o t) : ((s \o t) \o r)[i] = (s \o t)[i]
        /\ \A i \in 1..Len(r) : ((s \o t) \o r)[Len(s \o t) + i] = r[i]
    BY <1>2, <1>3, Joined
  <1>5. Len(s \o t) = 5 * q /\ Len((s \o t) \o r) = 6 * q
    BY <1>1, <1>2, <1>3, <1>4
  <1>6. \A i \in 1..p : ((s \o t) \o r)[i] = s[i]
    <2>1. \A i \in 1..p : i \in 1..(5 * q)
      BY <1>1
    <2> QED BY <2>1, <1>2, <1>3, <1>4, <1>5
  <1>7. \A i \in 1..q : ((s \o t) \o r)[p + i] = t[i]
    <2>1. \A i \in 1..q : p + i \in 1..(5 * q)
      BY <1>1
    <2> QED BY <2>1, <1>2, <1>3, <1>4, <1>5
  <1>8. \A i \in 1..q : ((s \o t) \o r)[5 * q + i] = r[i]
    BY <1>2, <1>4, <1>5
  <1> QED BY <1>4, <1>5, <1>6, <1>7, <1>8 DEF Sampled, s, t, r, p, q

LEMMA SampledAt ==
    ASSUME NEW g \in Geometries, NEW f \in Geometries, f.w = g.w, f.h = g.h,
           NEW j \in 1..(6 * Quarters(g))
    PROVE  \/ \E x \in 0..(g.w - 1), y \in 0..(g.h - 1) :
                 Sampled(g)[j] = LumaAt(g, x, y) /\ Sampled(f)[j] = LumaAt(f, x, y)
           \/ \E x \in 0..(g.w - 1), y \in 0..(g.h \div 2 - 1) :
                 Sampled(g)[j] = ChromaAt(g, x, y) /\ Sampled(f)[j] = ChromaAt(f, x, y)
  <1> DEFINE q == Quarters(g)
             p == Pixels(g)
             w == g.w
             h == g.h
             a == g.w \div 2
             b == g.h \div 2
  <1>1. /\ w \in Nat /\ h \in Nat /\ a \in Nat /\ b \in Nat /\ q \in Nat /\ p \in Nat /\ p = 4 * q
        /\ w * h = p /\ a * b = q /\ w = 2 * a /\ q = Quarters(f) /\ p = Pixels(f)
    BY Halves, SizeOfPixels DEF Pixels, Quarters
  <1>2. \A e \in {f, g} :
           /\ \A i \in 1..p : Sampled(e)[i] = Rows(Luma(e))[i]
           /\ \A i \in 1..q : /\ Sampled(e)[p + i] = Rows(Half(e, Size(e)))[i]
                              /\ Sampled(e)[5 * q + i] = Rows(Half(e, Size(e) + 1))[i]
    <2> TAKE e \in {f, g}
    <2>1. e \in Geometries /\ Pixels(e) = p /\ Quarters(e) = q
      BY <1>1
    <2>2. /\ \A i \in 1..Pixels(e) : Sampled(e)[i] = Rows(Luma(e))[i]
          /\ \A i \in 1..Quarters(e) :
                /\ Sampled(e)[Pixels(e) + i] = Rows(Half(e, Size(e)))[i]
                /\ Sampled(e)[5 * Quarters(e) + i] = Rows(Half(e, Size(e) + 1))[i]
      BY <2>1, SampledWalk
    <2> HIDE DEF p, q
    <2> QED BY <2>1, <2>2
  <1>3. \A e \in {f, g} :
           /\ Luma(e) \in Planes /\ Luma(e).cols = w /\ Luma(e).rows = h
           /\ Half(e, Size(e)) \in Planes /\ Half(e, Size(e)).cols = a /\ Half(e, Size(e)).rows = b
           /\ Half(e, Size(e) + 1) \in Planes
           /\ Half(e, Size(e) + 1).cols = a /\ Half(e, Size(e) + 1).rows = b
    <2> TAKE e \in {f, g}
    <2>1. e \in Geometries /\ e.w = w /\ e.h = h
      OBVIOUS
    <2>2. Size(e) \in Nat /\ Size(e) + 1 \in Nat
      BY <2>1, Quarter
    <2> QED BY <2>1, <2>2, PictureSize
  <1>4. \A e \in {f, g} : \A x \in Nat, y \in Nat :
           /\ At(Luma(e), x, y) = LumaAt(e, x, y)
           /\ At(Half(e, Size(e)), x, y) = ChromaAt(e, 2 * x, y)
           /\ At(Half(e, Size(e) + 1), x, y) = ChromaAt(e, 2 * x + 1, y)
    BY PlaceIs
  <1> HIDE DEF w, h, a, b, p, q
  <1>5. CASE j \in 1..p
    <2>1. PICK x \in 0..(w - 1), y \in 0..(h - 1) :
             Rows(Luma(g))[j] = At(Luma(g), x, y) /\ Rows(Luma(f))[j] = At(Luma(f), x, y)
      <3>1. /\ Luma(g) \in Planes /\ Luma(g).cols = w /\ Luma(g).rows = h
            /\ Luma(f) \in Planes /\ Luma(f).cols = w /\ Luma(f).rows = h /\ p = w * h
        BY <1>1, <1>3
      <3> QED BY <3>1, <1>5, BothRows
    <2>3. x \in Nat /\ y \in Nat
      BY <1>1
    <2>4. Sampled(g)[j] = LumaAt(g, x, y) /\ Sampled(f)[j] = LumaAt(f, x, y)
      BY <1>2, <1>4, <1>5, <2>1, <2>3
    <2> QED BY <2>4 DEF w, h
  <1>6. CASE j - p \in 1..q
    <2> DEFINE u == Half(g, Size(g))
               v == Half(f, Size(f))
               i == j - p
    <2>1. PICK x \in 0..(a - 1), y \in 0..(b - 1) : Rows(u)[i] = At(u, x, y) /\ Rows(v)[i] = At(v, x, y)
      <3>1. /\ u \in Planes /\ u.cols = a /\ u.rows = b
            /\ v \in Planes /\ v.cols = a /\ v.rows = b /\ q = a * b /\ i \in 1..q
        BY <1>1, <1>3, <1>6
      <3> HIDE DEF u, v, i
      <3> QED BY <3>1, BothRows
    <2>3. x \in Nat /\ y \in Nat /\ 2 * x \in 0..(w - 1) /\ j = p + i
      BY <1>1
    <2>4. /\ Sampled(g)[p + i] = ChromaAt(g, 2 * x, y)
          /\ Sampled(f)[p + i] = ChromaAt(f, 2 * x, y)
      <3>1. i \in 1..q
        BY <1>6
      <3> HIDE DEF i
      <3> QED BY <1>2, <1>4, <3>1, <2>1, <2>3
    <2> QED BY <2>3, <2>4 DEF w, b
  <1>7. CASE j - 5 * q \in 1..q
    <2> DEFINE u == Half(g, Size(g) + 1)
               v == Half(f, Size(f) + 1)
               i == j - 5 * q
    <2>1. PICK x \in 0..(a - 1), y \in 0..(b - 1) : Rows(u)[i] = At(u, x, y) /\ Rows(v)[i] = At(v, x, y)
      <3>1. /\ u \in Planes /\ u.cols = a /\ u.rows = b
            /\ v \in Planes /\ v.cols = a /\ v.rows = b /\ q = a * b /\ i \in 1..q
        BY <1>1, <1>3, <1>7
      <3> HIDE DEF u, v, i
      <3> QED BY <3>1, BothRows
    <2>3. x \in Nat /\ y \in Nat /\ 2 * x + 1 \in 0..(w - 1) /\ j = 5 * q + i
      BY <1>1
    <2>4. /\ Sampled(g)[5 * q + i] = ChromaAt(g, 2 * x + 1, y)
          /\ Sampled(f)[5 * q + i] = ChromaAt(f, 2 * x + 1, y)
      <3>1. i \in 1..q
        BY <1>7
      <3> HIDE DEF i
      <3> QED BY <1>2, <1>4, <3>1, <2>1, <2>3
    <2> QED BY <2>3, <2>4 DEF w, b
  <1>8. j \in 1..(6 * q)
    BY DEF q
  <1> QED BY <1>1, <1>5, <1>6, <1>7, <1>8

-----------------------------------------------------------------------------
(* Two memories with the same picture of the size of g and f.              *)
SamePicture(m, g, n, f) ==
    /\ \A x \in 0..(g.w - 1), y \in 0..(g.h - 1) :
          ByteAt(m, LumaAt(g, x, y)) = ByteAt(n, LumaAt(f, x, y))
    /\ \A x \in 0..(g.w - 1), y \in 0..(g.h \div 2 - 1) :
          ByteAt(m, ChromaAt(g, x, y)) = ByteAt(n, ChromaAt(f, x, y))

LEMMA SameBytes ==
    ASSUME NEW m, NEW n, NEW s, NEW t, DOMAIN s = DOMAIN t,
           \A i \in DOMAIN s : ByteAt(m, s[i]) = ByteAt(n, t[i])
    PROVE  BytesAt(m, s) = BytesAt(n, t)
  BY DEF BytesAt

LEMMA SameSamples ==
    ASSUME NEW g \in Geometries, NEW f \in Geometries, f.w = g.w, f.h = g.h, NEW m, NEW n,
           SamePicture(m, g, n, f)
    PROVE  BytesAt(m, Sampled(g)) = BytesAt(n, Sampled(f))
  <1>1. Quarters(f) = Quarters(g) /\ Quarters(g) \in Nat
    BY SizeOfPixels DEF Quarters
  <1>2. DOMAIN Sampled(g) = 1..(6 * Quarters(g)) /\ DOMAIN Sampled(f) = 1..(6 * Quarters(g))
    <2>1. \A s \in Seq(Nat) : DOMAIN s = 1..Len(s)
      OBVIOUS
    <2> QED BY <2>1, <1>1, SampledWalk
  <1>3. ASSUME NEW i \in 1..(6 * Quarters(g))
        PROVE  ByteAt(m, Sampled(g)[i]) = ByteAt(n, Sampled(f)[i])
    BY SampledAt DEF SamePicture
  <1> DEFINE k == 1..(6 * Quarters(g))
  <1> HIDE DEF k
  <1>4. DOMAIN Sampled(g) = k /\ DOMAIN Sampled(f) = k
    BY <1>2 DEF k
  <1>5. \A i \in k : ByteAt(m, Sampled(g)[i]) = ByteAt(n, Sampled(f)[i])
    BY <1>3 DEF k
  <1> QED BY <1>4, <1>5 DEF BytesAt

LEMMA PictureOfWalk ==
    ASSUME NEW g \in Geometries, NEW f \in Geometries, f.w = g.w, f.h = g.h, NEW m, NEW n,
           \A i \in 1..(6 * Quarters(g)) : ByteAt(m, SemiPlanar(g)[i]) = ByteAt(n, SemiPlanar(f)[i])
    PROVE  SamePicture(m, g, n, f)
  <1>1. Pixels(f) = Pixels(g) /\ Quarters(f) = Quarters(g)
    BY DEF Pixels, Quarters
  <1>2. ASSUME NEW x \in 0..(g.w - 1), NEW y \in 0..(g.h - 1)
        PROVE  ByteAt(m, LumaAt(g, x, y)) = ByteAt(n, LumaAt(f, x, y))
    <2> DEFINE i == y * g.w + x + 1
    <2>1. i \in 1..(6 * Quarters(g)) /\ SemiPlanar(g)[i] = LumaAt(g, x, y)
      BY SemiPlanarAt
    <2>2. y * f.w + x + 1 = i /\ SemiPlanar(f)[y * f.w + x + 1] = LumaAt(f, x, y)
      BY SemiPlanarAt
    <2> HIDE DEF i
    <2> QED BY <2>1, <2>2
  <1>3. ASSUME NEW x \in 0..(g.w - 1), NEW y \in 0..(g.h \div 2 - 1)
        PROVE  ByteAt(m, ChromaAt(g, x, y)) = ByteAt(n, ChromaAt(f, x, y))
    <2> DEFINE i == Pixels(g) + (y * g.w + x + 1)
    <2>1. i \in 1..(6 * Quarters(g)) /\ SemiPlanar(g)[i] = ChromaAt(g, x, y)
      BY SemiPlanarAt
    <2>2. /\ Pixels(f) + (y * f.w + x + 1) = i
          /\ SemiPlanar(f)[Pixels(f) + (y * f.w + x + 1)] = ChromaAt(f, x, y)
      BY <1>1, SemiPlanarAt
    <2> HIDE DEF i
    <2> QED BY <2>1, <2>2
  <1> QED BY <1>2, <1>3 DEF SamePicture

-----------------------------------------------------------------------------
(* The checksum of a frame.                                                *)
WordRows(g, at, rows) == Plane(at, g.hs, 4, g.w \div 4, rows)

LEMMA CrcWalks ==
    ASSUME NEW g \in Geometries
    PROVE  /\ CrcPlane(g, 0, g.h) = Rows(Luma(g)) /\ CrcWords(g, 0, g.h) = Rows(WordRows(g, 0, g.h))
           /\ g.vs = g.h =>
                /\ CrcPlane(g, g.h * g.hs, g.h \div 2) = Rows(UV(g))
                /\ CrcWords(g, g.h * g.hs, g.h \div 2) = Rows(WordRows(g, Size(g), g.h \div 2))
           /\ WordRows(g, 0, g.h) \in Planes /\ WordRows(g, Size(g), g.h \div 2) \in Planes
           /\ g.w \div 4 \in Nat /\ 4 * (g.w \div 4) <= g.w
  <1>1. /\ g.w \in Nat /\ g.h \in Nat /\ g.hs \in Nat /\ g.h \div 2 \in Nat
        /\ Size(g) \in Nat /\ (g.vs = g.h => g.h * g.hs = Size(g))
    BY Halves, Quarter
  <1>2. g.w \div 4 \in Nat /\ 4 * (g.w \div 4) <= g.w
    <2>1. \A n \in Nat : n \div 4 \in Nat /\ 4 * (n \div 4) <= n
      BY SMT
    <2> QED BY <1>1, <2>1
  <1>3. Luma(g) \in Planes /\ UV(g) \in Planes
    BY PictureSize
  <1>4. WordRows(g, 0, g.h) \in Planes /\ WordRows(g, Size(g), g.h \div 2) \in Planes
    BY <1>1, <1>2 DEF WordRows, Plane, Planes
  <1>5. CrcPlane(g, 0, g.h) = Rows(Luma(g))
    BY <1>3, RasterOne DEF CrcPlane, Luma
  <1>6. ASSUME g.vs = g.h PROVE CrcPlane(g, g.h * g.hs, g.h \div 2) = Rows(UV(g))
    <2>1. CrcPlane(g, g.h * g.hs, g.h \div 2) = Raster(<<UV(g)>>)
      BY <1>1, <1>6 DEF CrcPlane, UV
    <2> QED BY <2>1, <1>3, RasterOne
  <1>7. CrcWords(g, 0, g.h) = Rows(WordRows(g, 0, g.h))
    BY <1>4, RasterOne DEF CrcWords, WordRows
  <1>8. ASSUME g.vs = g.h
        PROVE  CrcWords(g, g.h * g.hs, g.h \div 2) = Rows(WordRows(g, Size(g), g.h \div 2))
    <2>1. CrcWords(g, g.h * g.hs, g.h \div 2) = Raster(<<WordRows(g, Size(g), g.h \div 2)>>)
      BY <1>1, <1>8 DEF CrcWords, WordRows
    <2> QED BY <2>1, <1>4, RasterOne
  <1> QED BY <1>2, <1>4, <1>5, <1>6, <1>7, <1>8

(* The words of a row are in the picture.                                  *)
LEMMA SameWord ==
    ASSUME NEW m, NEW n, NEW a \in Nat, NEW b \in Nat,
           \A k \in 0..3 : ByteAt(m, a + k) = ByteAt(n, b + k)
    PROVE  Word(m, a) = Word(n, b)
  <1>1. \A k \in 0..31 : k \div 8 \in 0..3
    BY SMT
  <1>2. \A k \in 0..31 : ByteAt(m, a + k \div 8) = ByteAt(n, b + k \div 8)
    BY <1>1
  <1> QED BY <1>2 DEF Word

LEMMA SameWords ==
    ASSUME NEW m, NEW n, NEW p \in Planes, NEW r \in Planes, p.cols = r.cols, p.rows = r.rows,
           \A x \in 0..(p.cols - 1), y \in 0..(p.rows - 1) : Word(m, At(p, x, y)) = Word(n, At(r, x, y))
    PROVE  WordsAt(m, Rows(p)) = WordsAt(n, Rows(r))
  <1> DEFINE c == p.cols
             d == p.rows
             k == c * d
  <1>1. DOMAIN Rows(p) = 1..k /\ DOMAIN Rows(r) = 1..k
    BY DEF Rows
  <1>2. ASSUME NEW i \in 1..k
        PROVE  Word(m, Rows(p)[i]) = Word(n, Rows(r)[i])
    <2>1. c = p.cols /\ d = p.rows /\ c = r.cols /\ d = r.rows /\ k = c * d
      OBVIOUS
    <2> HIDE DEF c, d, k
    <2>2. PICK x \in 0..(c - 1), y \in 0..(d - 1) :
             Rows(p)[i] = At(p, x, y) /\ Rows(r)[i] = At(r, x, y)
      BY <2>1, BothRows
    <2> QED BY <2>1, <2>2
  <1> HIDE DEF k
  <1> QED BY <1>1, <1>2 DEF WordsAt

LEMMA SameRows ==
    ASSUME NEW m, NEW n, NEW p \in Planes, NEW r \in Planes, p.cols = r.cols, p.rows = r.rows,
           \A x \in 0..(p.cols - 1), y \in 0..(p.rows - 1) :
              ByteAt(m, At(p, x, y)) = ByteAt(n, At(r, x, y))
    PROVE  BytesAt(m, Rows(p)) = BytesAt(n, Rows(r))
  <1> DEFINE c == p.cols
             d == p.rows
             k == c * d
  <1>1. DOMAIN Rows(p) = 1..k /\ DOMAIN Rows(r) = 1..k
    BY DEF Rows
  <1>2. ASSUME NEW i \in 1..k
        PROVE  ByteAt(m, Rows(p)[i]) = ByteAt(n, Rows(r)[i])
    <2>1. c = p.cols /\ d = p.rows /\ c = r.cols /\ d = r.rows /\ k = c * d
      OBVIOUS
    <2> HIDE DEF c, d, k
    <2>2. PICK x \in 0..(c - 1), y \in 0..(d - 1) :
             Rows(p)[i] = At(p, x, y) /\ Rows(r)[i] = At(r, x, y)
      BY <2>1, BothRows
    <2> QED BY <2>1, <2>2
  <1> HIDE DEF k
  <1> QED BY <1>1, <1>2 DEF BytesAt

(* The same luma samples of the size of g and f.                           *)
SameLuma(m, g, n, f) ==
    \A x \in 0..(g.w - 1), y \in 0..(g.h - 1) :
        ByteAt(m, LumaAt(g, x, y)) = ByteAt(n, LumaAt(f, x, y))

(* The same luma has the same checksum of it, at any stride.               *)
LEMMA SameLumaCrc ==
    ASSUME NEW g \in Geometries, NEW f \in Geometries, f.w = g.w, f.h = g.h, NEW m, NEW n,
           SameLuma(m, g, n, f)
    PROVE  /\ BytesAt(m, Rows(Luma(g))) = BytesAt(n, Rows(Luma(f)))
           /\ WordsAt(m, Rows(WordRows(g, 0, g.h))) = WordsAt(n, Rows(WordRows(f, 0, f.h)))
           /\ calc_frm_crc(m, g).luma = calc_frm_crc(n, f).luma
  <1> DEFINE w == g.w \div 4
  <1>1. /\ g.w \in Nat /\ g.h \in Nat /\ w \in Nat /\ 4 * w <= g.w
        /\ g.hs \in Nat /\ f.hs \in Nat
    BY Halves, CrcWalks
  <1>2. BytesAt(m, Rows(Luma(g))) = BytesAt(n, Rows(Luma(f)))
    <2>1. \A x \in 0..(g.w - 1), y \in 0..(g.h - 1) :
             ByteAt(m, At(Luma(g), x, y)) = ByteAt(n, At(Luma(f), x, y))
      <3> TAKE x \in 0..(g.w - 1), y \in 0..(g.h - 1)
      <3>1. x \in Nat /\ y \in Nat
        BY <1>1
      <3>2. At(Luma(g), x, y) = LumaAt(g, x, y) /\ At(Luma(f), x, y) = LumaAt(f, x, y)
        BY <3>1, PlaceIs
      <3> QED BY <3>2 DEF SameLuma
    <2>2. /\ Luma(g) \in Planes /\ Luma(f) \in Planes /\ Luma(g).cols = g.w /\ Luma(g).rows = g.h
          /\ Luma(f).cols = g.w /\ Luma(f).rows = g.h
      BY PictureSize
    <2> QED BY <2>1, <2>2, SameRows
  <1>3. WordsAt(m, Rows(WordRows(g, 0, g.h))) = WordsAt(n, Rows(WordRows(f, 0, f.h)))
    <2> DEFINE p == WordRows(g, 0, g.h)
               r == WordRows(f, 0, f.h)
    <2>1. ASSUME NEW x \in 0..(w - 1), NEW y \in 0..(g.h - 1)
          PROVE  Word(m, At(p, x, y)) = Word(n, At(r, x, y))
      <3> DEFINE z == 4 * x
      <3>1. z \in Nat /\ y \in Nat /\ \A k \in 0..3 : z + k \in 0..(g.w - 1)
        BY <1>1
      <3>2. At(p, x, y) = 0 + y * g.hs + x * 4 /\ At(r, x, y) = 0 + y * f.hs + x * 4
        BY DEF At, WordRows, Plane
      <3>3. y * g.hs \in Nat /\ y * f.hs \in Nat /\ x * 4 = z
        BY <1>1, <3>1
      <3> HIDE DEF z
      <3>4. At(p, x, y) = y * g.hs + z /\ At(r, x, y) = y * f.hs + z
        BY <3>1, <3>2, <3>3
      <3>5. \A k \in 0..3 : ByteAt(m, (y * g.hs + z) + k) = ByteAt(n, (y * f.hs + z) + k)
        <4> TAKE k \in 0..3
        <4>1. ByteAt(m, y * g.hs + (z + k)) = ByteAt(n, y * f.hs + (z + k))
          BY <3>1 DEF SameLuma, LumaAt
        <4>2. /\ (y * g.hs + z) + k = y * g.hs + (z + k)
              /\ (y * f.hs + z) + k = y * f.hs + (z + k)
          BY <3>1, <3>3
        <4> QED BY <4>1, <4>2
      <3>6. y * g.hs + z \in Nat /\ y * f.hs + z \in Nat
        BY <3>1, <3>3
      <3>7. Word(m, y * g.hs + z) = Word(n, y * f.hs + z)
        BY <3>5, <3>6, SameWord
      <3> QED BY <3>4, <3>7
    <2>2. /\ p \in Planes /\ r \in Planes
          /\ p.cols = w /\ p.rows = g.h /\ r.cols = w /\ r.rows = g.h
      BY CrcWalks DEF WordRows, Plane
    <2> HIDE DEF p, r
    <2> QED BY <2>1, <2>2, SameWords DEF p, r
  <1>4. \A o, e : e \in Geometries =>
            calc_frm_crc(o, e).luma =
                [len |-> RK_U32(e.h * e.w), sum |-> RK_U32(SumOf(BytesAt(o, Rows(Luma(e))))),
                 vor |-> XorOf(WordsAt(o, Rows(WordRows(e, 0, e.h))))]
    BY CrcWalks DEF calc_frm_crc
  <1> QED BY <1>2, <1>3, <1>4

(* The same picture has the same checksum, where no rows pad the buffer.   *)
LEMMA SameCrc ==
    ASSUME NEW g \in Geometries, NEW f \in Geometries, f.w = g.w, f.h = g.h,
           g.vs = g.h, f.vs = f.h, NEW m, NEW n, SamePicture(m, g, n, f)
    PROVE  calc_frm_crc(m, g) = calc_frm_crc(n, f)
  <1> DEFINE b == g.h \div 2
             w == g.w \div 4
  <1>1. /\ g.w \in Nat /\ g.h \in Nat /\ b \in Nat /\ w \in Nat /\ 4 * w <= g.w
        /\ g.hs \in Nat /\ f.hs \in Nat /\ Size(g) \in Nat /\ Size(f) \in Nat
    BY Halves, CrcWalks, Quarter
  <1>2. /\ BytesAt(m, Rows(Luma(g))) = BytesAt(n, Rows(Luma(f)))
        /\ WordsAt(m, Rows(WordRows(g, 0, g.h))) = WordsAt(n, Rows(WordRows(f, 0, f.h)))
    <2>1. SameLuma(m, g, n, f)
      BY DEF SamePicture, SameLuma
    <2> QED BY <2>1, SameLumaCrc
  <1>3. BytesAt(m, Rows(UV(g))) = BytesAt(n, Rows(UV(f)))
    <2>1. \A x \in 0..(g.w - 1), y \in 0..(b - 1) :
             ByteAt(m, At(UV(g), x, y)) = ByteAt(n, At(UV(f), x, y))
      <3> TAKE x \in 0..(g.w - 1), y \in 0..(b - 1)
      <3>1. x \in Nat /\ y \in Nat
        BY <1>1
      <3>2. At(UV(g), x, y) = ChromaAt(g, x, y) /\ At(UV(f), x, y) = ChromaAt(f, x, y)
        BY <3>1, PlaceIs
      <3> QED BY <3>2 DEF SamePicture
    <2>2. /\ UV(g) \in Planes /\ UV(f) \in Planes /\ UV(g).cols = g.w /\ UV(g).rows = b
          /\ UV(f).cols = g.w /\ UV(f).rows = b
      BY PictureSize
    <2> QED BY <2>1, <2>2, SameRows
  <1>5. WordsAt(m, Rows(WordRows(g, Size(g), b))) = WordsAt(n, Rows(WordRows(f, Size(f), b)))
    <2> DEFINE p == WordRows(g, Size(g), b)
               r == WordRows(f, Size(f), b)
    <2>1. ASSUME NEW x \in 0..(w - 1), NEW y \in 0..(b - 1)
          PROVE  Word(m, At(p, x, y)) = Word(n, At(r, x, y))
      <3> DEFINE z == 4 * x
                 s == Size(g)
                 t == Size(f)
      <3>1. z \in Nat /\ y \in Nat /\ \A k \in 0..3 : z + k \in 0..(g.w - 1)
        BY <1>1
      <3>2. At(p, x, y) = s + y * g.hs + x * 4 /\ At(r, x, y) = t + y * f.hs + x * 4
        BY DEF At, WordRows, Plane
      <3>3. y * g.hs \in Nat /\ y * f.hs \in Nat /\ x * 4 = z /\ s \in Nat /\ t \in Nat
        BY <1>1, <3>1
      <3>4. \A k \in 0..3 : ByteAt(m, s + y * g.hs + (z + k)) = ByteAt(n, t + y * f.hs + (z + k))
        BY <3>1 DEF SamePicture, ChromaAt
      <3> HIDE DEF z, s, t
      <3>5. \A k \in 0..3 : ByteAt(m, (s + y * g.hs + z) + k) = ByteAt(n, (t + y * f.hs + z) + k)
        <4> TAKE k \in 0..3
        <4>2. /\ (s + y * g.hs + z) + k = s + y * g.hs + (z + k)
              /\ (t + y * f.hs + z) + k = t + y * f.hs + (z + k)
          <5> DEFINE c == y * g.hs
                     d == y * f.hs
          <5>1. s \in Nat /\ t \in Nat /\ c \in Nat /\ d \in Nat /\ z \in Nat /\ k \in Nat
            BY <3>1, <3>3
          <5> HIDE DEF c, d
          <5>2. (s + c + z) + k = s + c + (z + k) /\ (t + d + z) + k = t + d + (z + k)
            BY <5>1
          <5> QED BY <5>2 DEF c, d
        <4> QED BY <3>4, <4>2
      <3>6. s + y * g.hs + z \in Nat /\ t + y * f.hs + z \in Nat
        BY <3>1, <3>3
      <3>7. Word(m, s + y * g.hs + z) = Word(n, t + y * f.hs + z)
        BY <3>5, <3>6, SameWord
      <3> QED BY <3>2, <3>3, <3>7
    <2>2. /\ p \in Planes /\ r \in Planes
          /\ p.cols = w /\ p.rows = b /\ r.cols = w /\ r.rows = b
      BY CrcWalks DEF WordRows, Plane
    <2> HIDE DEF p, r
    <2> QED BY <2>1, <2>2, SameWords DEF p, r
  <1> QED BY <1>2, <1>3, <1>5, CrcWalks DEF calc_frm_crc

(* A memory has bytes at some addresses, and an unwritten one reads as 0.  *)
Memories == UNION {[S -> Byte] : S \in SUBSET Nat}

LEMMA MemoryIs ==
    ASSUME NEW m \in Memories
    PROVE  /\ DOMAIN m \in SUBSET Nat /\ m \in [DOMAIN m -> Byte]
           /\ \A a : ByteAt(m, a) \in Byte
           /\ \A a \in DOMAIN m : ByteAt(m, a) = m[a]
  <1>1. PICK S \in SUBSET Nat : m \in [S -> Byte]
    BY DEF Memories
  <1>2. DOMAIN m = S
    BY <1>1
  <1>3. \A a \in S : m[a] \in Byte
    BY <1>1
  <1>4. 0 \in Byte
    BY DEF Byte
  <1> QED BY <1>1, <1>2, <1>3, <1>4 DEF ByteAt

LEMMA BytesAre ==
    ASSUME NEW m \in Memories, NEW s \in Seq(Nat)
    PROVE  /\ BytesAt(m, s) \in Seq(Byte) /\ BytesAt(m, s) \in Seq(Nat)
           /\ Len(BytesAt(m, s)) = Len(s) /\ DOMAIN BytesAt(m, s) = 1..Len(s)
           /\ \A i \in 1..Len(s) : BytesAt(m, s)[i] = ByteAt(m, s[i])
  <1>1. Len(s) \in Nat /\ DOMAIN s = 1..Len(s)
    OBVIOUS
  <1>2. BytesAt(m, s) = [i \in 1..Len(s) |-> ByteAt(m, s[i])]
    BY <1>1 DEF BytesAt
  <1>3. \A a : ByteAt(m, a) \in Byte /\ ByteAt(m, a) \in Nat
    <2>1. Byte \subseteq Nat
      BY DEF Byte
    <2> QED BY <2>1, MemoryIs
  <1>4. BytesAt(m, s) \in Seq(Byte)
    BY <1>1, <1>2, <1>3
  <1>5. BytesAt(m, s) \in Seq(Nat)
    BY <1>1, <1>2, <1>3
  <1> QED BY <1>1, <1>2, <1>4, <1>5

LEMMA NextByte == \A b \in Byte : RK_U8(b + 1) \in Byte /\ RK_U8(b + 1) # b
  BY SMT DEF RK_U8, Byte

LEMMA OtherByte ==
    ASSUME NEW m \in Memories, NEW a \in DOMAIN m
    PROVE  /\ [m EXCEPT ![a] = RK_U8(@ + 1)] \in Memories
           /\ \A b : b # a => ByteAt([m EXCEPT ![a] = RK_U8(@ + 1)], b) = ByteAt(m, b)
           /\ ByteAt([m EXCEPT ![a] = RK_U8(@ + 1)], a) # ByteAt(m, a)
  <1> DEFINE o == [m EXCEPT ![a] = RK_U8(@ + 1)]
  <1>1. PICK S \in SUBSET Nat : m \in [S -> Byte]
    BY DEF Memories
  <1>2. \A b \in Byte : RK_U8(b + 1) \in Byte /\ RK_U8(b + 1) # b
    BY NextByte
  <1>3. o = [m EXCEPT ![a] = RK_U8(m[a] + 1)] /\ DOMAIN m = S /\ m[a] \in Byte
    BY <1>1
  <1>4. o \in [S -> Byte]
    BY <1>1, <1>2, <1>3
  <1>5. DOMAIN o = S /\ o[a] = RK_U8(m[a] + 1) /\ \A b \in S : b # a => o[b] = m[b]
    BY <1>1, <1>3
  <1> HIDE DEF o
  <1>6. o \in Memories
    BY <1>4 DEF Memories
  <1> QED BY <1>2, <1>3, <1>5, <1>6 DEF ByteAt, o

(* A step of less than the modulus shows in what is left of a number.      *)
LEMMA StepShows ==
    ASSUME NEW a \in Nat, NEW b \in Nat, NEW u \in Byte, NEW v \in Byte, u # v, b = a + (v - u)
    PROVE  RK_U32(a) # RK_U32(b)
  <1>1. Modulus \in Nat \ {0} /\ Modulus > 255
    BY FrameAssumption
  <1> DEFINE M == Modulus
             q == a \div M
             r == b \div M
  <1>2. /\ q \in Nat /\ a % M \in 0..(M - 1) /\ a = q * M + (a % M)
        /\ r \in Nat /\ b % M \in 0..(M - 1) /\ b = r * M + (b % M)
    BY <1>1, RowAndColumn
  <1> SUFFICES ASSUME a % M = b % M PROVE FALSE
    BY DEF RK_U32
  <1>3. u \in 0..255 /\ v \in 0..255
    BY DEF Byte
  <1> HIDE DEF q, r
  <1>4. q * M \in Int /\ r * M \in Int /\ (q - r) * M = q * M - r * M
    BY <1>1, <1>2
  <1>5. (q - r) * M = u - v
    <2>1. a - b = q * M - r * M
      BY <1>2, <1>4
    <2> QED BY <2>1, <1>3, <1>4
  <1>6. q # r
    <2>1. q = r => q * M = r * M
      OBVIOUS
    <2> QED BY <2>1, <1>3, <1>4, <1>5
  <1>7. CASE q > r
    <2>1. 1 * M <= (q - r) * M
      BY <1>1, <1>2, <1>7, TimesGrows
    <2> QED BY <2>1, <1>1, <1>3, <1>5
  <1>8. CASE q < r
    <2>1. 1 * M <= (r - q) * M
      BY <1>1, <1>2, <1>8, TimesGrows
    <2>2. (r - q) * M = v - u
      <3>1. (r - q) * M = r * M - q * M
        BY <1>1, <1>2
      <3> QED BY <3>1, <1>3, <1>4, <1>5
    <2> QED BY <2>1, <2>2, <1>1, <1>3
  <1> QED BY <1>2, <1>6, <1>7, <1>8

(* The sum of the rows of a plane, added to another, tells of each byte in *)
(* them.                                                                   *)
LEMMA RowsTell ==
    ASSUME NEW p \in Planes, p.step = 1, p.cols <= p.pitch, NEW m \in Memories, NEW o \in Memories,
           NEW i \in 1..Len(Rows(p)), ByteAt(o, Rows(p)[i]) # ByteAt(m, Rows(p)[i]),
           \A b : b # Rows(p)[i] => ByteAt(o, b) = ByteAt(m, b)
    PROVE  \A c \in Nat : RK_U32(c + SumOf(BytesAt(m, Rows(p)))) # RK_U32(c + SumOf(BytesAt(o, Rows(p))))
  <1> DEFINE r == Rows(p)
             s == BytesAt(m, r)
             t == BytesAt(o, r)
  <1>1. r \in Seq(Nat) /\ Injective(r)
    BY RowsOf, RowsApart
  <1>2. /\ s \in Seq(Nat) /\ Len(s) = Len(r) /\ \A j \in 1..Len(r) : s[j] = ByteAt(m, r[j])
        /\ t \in Seq(Nat) /\ Len(t) = Len(r) /\ \A j \in 1..Len(r) : t[j] = ByteAt(o, r[j])
    BY <1>1, BytesAre
  <1>3. i \in 1..Len(r) /\ s[i] # t[i]
    BY <1>2
  <1>4. \A j \in 1..Len(r) : j # i => s[j] = t[j]
    BY <1>1, <1>2 DEF Injective
  <1>5. s[i] \in Byte /\ t[i] \in Byte
    BY <1>2, MemoryIs
  <1> HIDE DEF s, t, r
  <1>6. SumOf(s) \in Nat /\ SumOf(t) \in Nat /\ SumOf(t) = SumOf(s) + (t[i] - s[i])
    BY <1>2, <1>3, <1>4, SumTells
  <1>7. ASSUME NEW c \in Nat PROVE RK_U32(c + SumOf(s)) # RK_U32(c + SumOf(t))
    <2>1. s[i] \in 0..255 /\ t[i] \in 0..255
      BY <1>5 DEF Byte
    <2> DEFINE u == SumOf(s)
               v == SumOf(t)
               x == s[i]
               y == t[i]
    <2>2. c + u \in Nat /\ c + v \in Nat /\ c + v = (c + u) + (y - x)
      <3>1. u \in Nat /\ v \in Nat /\ v = u + (y - x) /\ x \in 0..255 /\ y \in 0..255
        BY <2>1, <1>6
      <3> HIDE DEF u, v, x, y
      <3> QED BY <3>1
    <2> QED BY <2>2, <1>3, <1>5, StepShows
  <1> QED BY <1>7 DEF s, t, r

LEMMA SumNat ==
    ASSUME NEW s \in Seq(Nat)
    PROVE  SumOf(s) \in Nat
  <1>1. PICK f \in [0..Len(s) -> Nat] : SumOf(s) = f[Len(s)]
    BY SumIs
  <1>2. Len(s) \in 0..Len(s)
    OBVIOUS
  <1> QED BY <1>1, <1>2

LEMMA RowPlace ==
    ASSUME NEW p \in Planes, NEW c, NEW r, NEW n, p.cols = c, p.rows = r, c * r = n,
           NEW x \in 0..(c - 1), NEW y \in 0..(r - 1)
    PROVE  /\ \E i \in 1..n : Rows(p)[i] = At(p, x, y)
           /\ \E i \in 1..Len(Rows(p)) : Rows(p)[i] = At(p, x, y)
  <1>1. /\ y * p.cols + x + 1 \in 1..(p.cols * p.rows) /\ Len(Rows(p)) = p.cols * p.rows
        /\ Rows(p)[y * p.cols + x + 1] = At(p, x, y)
    BY RowsOf
  <1>2. p.cols * p.rows = n
    OBVIOUS
  <1> QED BY <1>1, <1>2

(* Each sample of a semi-planar picture is one of the documented ones.     *)
LEMMA SampledOnto ==
    ASSUME NEW g \in Geometries
    PROVE  /\ \A x \in 0..(g.w - 1), y \in 0..(g.h - 1) :
                 \E j \in 1..(6 * Quarters(g)) : Sampled(g)[j] = LumaAt(g, x, y)
           /\ \A x \in 0..(g.w - 1), y \in 0..(g.h \div 2 - 1) :
                 \E j \in 1..(6 * Quarters(g)) : Sampled(g)[j] = ChromaAt(g, x, y)
  <1> DEFINE q == Quarters(g)
             p == Pixels(g)
             w == g.w
             h == g.h
             a == g.w \div 2
             b == g.h \div 2
             s == Size(g)
             t == Size(g) + 1
  <1>1. /\ w \in Nat /\ h \in Nat /\ a \in Nat /\ b \in Nat /\ q \in Nat /\ p \in Nat /\ p = 4 * q
        /\ p = w * h /\ q = a * b /\ w = 2 * a
    BY Halves, SizeOfPixels DEF Pixels, Quarters
  <1>2. /\ \A i \in 1..p : Sampled(g)[i] = Rows(Luma(g))[i]
        /\ \A i \in 1..q : /\ Sampled(g)[p + i] = Rows(Half(g, s))[i]
                           /\ Sampled(g)[5 * q + i] = Rows(Half(g, t))[i]
    BY SampledWalk
  <1>3. /\ Luma(g) \in Planes /\ Luma(g).cols = w /\ Luma(g).rows = h
        /\ Half(g, s) \in Planes /\ Half(g, s).cols = a /\ Half(g, s).rows = b
        /\ Half(g, t) \in Planes /\ Half(g, t).cols = a /\ Half(g, t).rows = b
    <2>1. s \in Nat /\ t \in Nat
      BY Quarter
    <2> QED BY <2>1, PictureSize
  <1>4. \A x \in Nat, y \in Nat :
           /\ At(Luma(g), x, y) = LumaAt(g, x, y)
           /\ At(Half(g, s), x, y) = ChromaAt(g, 2 * x, y)
           /\ At(Half(g, t), x, y) = ChromaAt(g, 2 * x + 1, y)
    BY PlaceIs
  <1> HIDE DEF p, q, w, h, a, b, s, t
  <1>5. ASSUME NEW x \in 0..(w - 1), NEW y \in 0..(h - 1)
        PROVE  \E j \in 1..(6 * q) : Sampled(g)[j] = LumaAt(g, x, y)
    <2>1. PICK i \in 1..p : Rows(Luma(g))[i] = At(Luma(g), x, y)
      <3>1. Luma(g) \in Planes /\ Luma(g).cols = w /\ Luma(g).rows = h /\ w * h = p
        BY <1>1, <1>3
      <3> QED BY <3>1, RowPlace
    <2>2. x \in Nat /\ y \in Nat
      BY <1>1
    <2>3. i \in 1..(6 * q)
      BY <1>1
    <2> QED BY <2>1, <2>2, <2>3, <1>2, <1>4
  <1>6. ASSUME NEW u \in 0..(a - 1), NEW y \in 0..(b - 1)
        PROVE  /\ \E j \in 1..(6 * q) : Sampled(g)[j] = ChromaAt(g, 2 * u, y)
               /\ \E j \in 1..(6 * q) : Sampled(g)[j] = ChromaAt(g, 2 * u + 1, y)
    <2>0. /\ Half(g, s) \in Planes /\ Half(g, s).cols = a /\ Half(g, s).rows = b
          /\ Half(g, t) \in Planes /\ Half(g, t).cols = a /\ Half(g, t).rows = b /\ a * b = q
      BY <1>1, <1>3
    <2>1. PICK i \in 1..q : Rows(Half(g, s))[i] = At(Half(g, s), u, y)
      BY <2>0, RowPlace
    <2>11. PICK k \in 1..q : Rows(Half(g, t))[k] = At(Half(g, t), u, y)
      BY <2>0, RowPlace
    <2>2. u \in Nat /\ y \in Nat
      BY <1>1
    <2>3. p + i \in 1..(6 * q) /\ 5 * q + k \in 1..(6 * q)
      BY <1>1
    <2>4. Sampled(g)[p + i] = ChromaAt(g, 2 * u, y) /\ Sampled(g)[5 * q + k] = ChromaAt(g, 2 * u + 1, y)
      BY <2>1, <2>11, <2>2, <1>2, <1>4
    <2> QED BY <2>3, <2>4
  <1>7. ASSUME NEW x \in 0..(w - 1), NEW y \in 0..(b - 1)
        PROVE  \E j \in 1..(6 * q) : Sampled(g)[j] = ChromaAt(g, x, y)
    <2>1. \A n \in Nat : n \div 2 \in Nat /\ (n = 2 * (n \div 2) \/ n = 2 * (n \div 2) + 1)
      BY SMT
    <2>2. x \in Nat
      BY <1>1
    <2>3. PICK u \in Nat : x = 2 * u \/ x = 2 * u + 1
      BY <2>1, <2>2
    <2>4. u \in 0..(a - 1)
      BY <2>3, <1>1
    <2> QED BY <2>3, <2>4, <1>6
  <1> QED BY <1>5, <1>7 DEF p, q, w, h, a, b, s, t

LEMMA LumaSees ==
    ASSUME NEW g \in Geometries, NEW m \in Memories, NEW a \in DOMAIN m
    PROVE  (calc_frm_crc(m, g).luma # calc_frm_crc([m EXCEPT ![a] = RK_U8(@ + 1)], g).luma)
              <=> a \in Range(Rows(Luma(g)))
  <1> DEFINE o == [m EXCEPT ![a] = RK_U8(@ + 1)]
             l == Rows(Luma(g))
  <1>1. /\ o \in Memories /\ (\A b : b # a => ByteAt(o, b) = ByteAt(m, b))
        /\ ByteAt(o, a) # ByteAt(m, a)
    BY OtherByte, ZenonT(40)
  <1> HIDE DEF o
  <1>2. /\ Luma(g) \in Planes /\ Luma(g).step = 1 /\ Luma(g).cols <= Luma(g).pitch
        /\ Luma(g).cols = g.w /\ Luma(g).rows = g.h
    BY PictureSize, Halves
  <1>3. l \in Seq(Nat) /\ DOMAIN l = 1..Len(l)
    <2>1. l \in Seq(Nat)
      BY <1>2, RowsOf
    <2> HIDE DEF l
    <2> QED BY <2>1
  <1>4. ASSUME a \notin Range(l) PROVE calc_frm_crc(m, g).luma = calc_frm_crc(o, g).luma
    <2>1. ASSUME NEW x \in 0..(g.w - 1), NEW y \in 0..(g.h - 1) PROVE LumaAt(g, x, y) # a
      <3>1. x \in Nat /\ y \in Nat
        BY Halves
      <3>2. PICK i \in 1..Len(l) : l[i] = At(Luma(g), x, y)
        BY <1>2, RowPlace
      <3>3. At(Luma(g), x, y) = LumaAt(g, x, y)
        BY <3>1, PlaceIs
      <3> HIDE DEF l
      <3> QED BY <3>2, <3>3, <1>3, <1>4 DEF Range
    <2>2. SameLuma(m, g, o, g)
      BY <2>1, <1>1 DEF SameLuma
    <2> QED BY <2>2, SameLumaCrc
  <1>5. ASSUME a \in Range(l) PROVE calc_frm_crc(m, g).luma # calc_frm_crc(o, g).luma
    <2>1. PICK i \in 1..Len(l) : l[i] = a
      <3> HIDE DEF l
      <3> QED BY <1>3, <1>5 DEF Range
    <2>2. RK_U32(0 + SumOf(BytesAt(m, l))) # RK_U32(0 + SumOf(BytesAt(o, l)))
      BY <2>1, <1>1, <1>2, RowsTell
    <2>3. SumOf(BytesAt(m, l)) \in Nat /\ SumOf(BytesAt(o, l)) \in Nat
      BY <1>1, <1>3, BytesAre, SumNat
    <2>4. /\ calc_frm_crc(m, g).luma.sum = RK_U32(SumOf(BytesAt(m, l)))
          /\ calc_frm_crc(o, g).luma.sum = RK_U32(SumOf(BytesAt(o, l)))
      BY CrcWalks DEF calc_frm_crc
    <2> HIDE DEF l
    <2>5. 0 + SumOf(BytesAt(m, l)) = SumOf(BytesAt(m, l)) /\ 0 + SumOf(BytesAt(o, l)) = SumOf(BytesAt(o, l))
      BY <2>3
    <2> QED BY <2>2, <2>4, <2>5
  <1> QED BY <1>4, <1>5 DEF o, l

LEMMA CrcSees ==
    ASSUME NEW g \in Geometries, g.vs = g.h, NEW m \in Memories, NEW a \in DOMAIN m
    PROVE  (calc_frm_crc(m, g) # calc_frm_crc([m EXCEPT ![a] = RK_U8(@ + 1)], g))
              <=> a \in Range(Documented("YUV420SP", g))
  <1> DEFINE o == [m EXCEPT ![a] = RK_U8(@ + 1)]
  <1>1. /\ o \in Memories /\ (\A b : b # a => ByteAt(o, b) = ByteAt(m, b))
        /\ ByteAt(o, a) # ByteAt(m, a)
    BY OtherByte, ZenonT(40)
  <1> HIDE DEF o
  <1>2. Range(Documented("YUV420SP", g)) = {Sampled(g)[j] : j \in 1..(6 * Quarters(g))}
    <2>1. DOMAIN Sampled(g) = 1..(6 * Quarters(g))
      <3>1. \A s \in Seq(Nat) : DOMAIN s = 1..Len(s)
        OBVIOUS
      <3> QED BY <3>1, SampledWalk
    <2> QED BY <2>1, Walked DEF Range
  <1>3. ASSUME a \notin Range(Documented("YUV420SP", g))
        PROVE  calc_frm_crc(m, g) = calc_frm_crc(o, g)
    <2>1. SamePicture(m, g, o, g)
      BY <1>1, <1>2, <1>3, SampledOnto DEF SamePicture
    <2> QED BY <2>1, SameCrc
  <1>4. ASSUME a \in Range(Documented("YUV420SP", g))
        PROVE  calc_frm_crc(m, g) # calc_frm_crc(o, g)
    <2> DEFINE l == Rows(Luma(g))
               c == Rows(UV(g))
    <2>1. /\ calc_frm_crc(m, g).luma.sum = RK_U32(SumOf(BytesAt(m, l)))
          /\ calc_frm_crc(o, g).luma.sum = RK_U32(SumOf(BytesAt(o, l)))
          /\ calc_frm_crc(m, g).chroma.sum = RK_U32(SumOf(BytesAt(m, l)) + SumOf(BytesAt(m, c)))
          /\ calc_frm_crc(o, g).chroma.sum = RK_U32(SumOf(BytesAt(o, l)) + SumOf(BytesAt(o, c)))
      BY CrcWalks DEF calc_frm_crc
    <2>2. /\ Luma(g) \in Planes /\ Luma(g).step = 1 /\ Luma(g).cols <= Luma(g).pitch
          /\ UV(g) \in Planes /\ UV(g).step = 1 /\ UV(g).cols <= UV(g).pitch
      BY PictureSize, Halves
    <2>3. l \in Seq(Nat) /\ c \in Seq(Nat)
      BY <2>2, RowsOf
    <2>4. /\ SumOf(BytesAt(m, l)) \in Nat /\ SumOf(BytesAt(m, c)) \in Nat
          /\ SumOf(BytesAt(o, l)) \in Nat /\ SumOf(BytesAt(o, c)) \in Nat
      BY <2>3, <1>1, BytesAre, SumNat
    <2>5. PICK j \in 1..(6 * Quarters(g)) : a = Sampled(g)[j]
      BY <1>2, <1>4
    <2>6. \/ \E x \in 0..(g.w - 1), y \in 0..(g.h - 1) : a = LumaAt(g, x, y)
          \/ \E x \in 0..(g.w - 1), y \in 0..(g.h \div 2 - 1) : a = ChromaAt(g, x, y)
      BY <2>5, SampledAt
    <2>7. ASSUME NEW i \in 1..Len(l), l[i] = a
          PROVE  calc_frm_crc(m, g) # calc_frm_crc(o, g)
      <3>1. RK_U32(0 + SumOf(BytesAt(m, l))) # RK_U32(0 + SumOf(BytesAt(o, l)))
        BY <2>7, <2>2, <1>1, RowsTell
      <3>2. 0 + SumOf(BytesAt(m, l)) = SumOf(BytesAt(m, l)) /\ 0 + SumOf(BytesAt(o, l)) = SumOf(BytesAt(o, l))
        BY <2>4
      <3> HIDE DEF l, c
      <3> QED BY <3>1, <3>2, <2>1
    <2>8. CASE \E x \in 0..(g.w - 1), y \in 0..(g.h - 1) : a = LumaAt(g, x, y)
      <3>1. PICK x \in 0..(g.w - 1), y \in 0..(g.h - 1) : a = LumaAt(g, x, y)
        BY <2>8
      <3>2. PICK i \in 1..Len(l) : l[i] = a
        <4>1. x \in Nat /\ y \in Nat /\ Luma(g).cols = g.w /\ Luma(g).rows = g.h
          BY Halves, PictureSize
        <4>2. \E i \in 1..Len(Rows(Luma(g))) : Rows(Luma(g))[i] = At(Luma(g), x, y)
          BY <4>1, <2>2, RowPlace
        <4>3. At(Luma(g), x, y) = LumaAt(g, x, y)
          BY <4>1, PlaceIs
        <4> QED BY <3>1, <4>2, <4>3
      <3> QED BY <3>2, <2>7
    <2>9. CASE \E x \in 0..(g.w - 1), y \in 0..(g.h \div 2 - 1) : a = ChromaAt(g, x, y)
      <3>1. PICK x \in 0..(g.w - 1), y \in 0..(g.h \div 2 - 1) : a = ChromaAt(g, x, y)
        BY <2>9
      <3>2. PICK i \in 1..Len(c) : c[i] = a
        <4>1. x \in Nat /\ y \in Nat /\ UV(g).cols = g.w /\ UV(g).rows = g.h \div 2
          BY Halves, PictureSize
        <4>2. \E i \in 1..Len(Rows(UV(g))) : Rows(UV(g))[i] = At(UV(g), x, y)
          BY <4>1, <2>2, RowPlace
        <4>3. At(UV(g), x, y) = ChromaAt(g, x, y)
          BY <4>1, PlaceIs
        <4> QED BY <3>1, <4>2, <4>3
      <3>3. CASE \A e \in 1..Len(l) : l[e] # a
        <4>1. BytesAt(m, l) = BytesAt(o, l)
          <5>1. DOMAIN l = 1..Len(l)
            BY <2>3
          <5>2. \A e \in DOMAIN l : ByteAt(m, l[e]) = ByteAt(o, l[e])
            BY <5>1, <3>3, <1>1
          <5> HIDE DEF l
          <5> QED BY <5>2 DEF BytesAt
        <4>2. \A d \in Nat : RK_U32(d + SumOf(BytesAt(m, c))) # RK_U32(d + SumOf(BytesAt(o, c)))
          BY <3>2, <2>2, <1>1, RowsTell
        <4> HIDE DEF l, c
        <4>3. RK_U32(SumOf(BytesAt(m, l)) + SumOf(BytesAt(m, c))) # RK_U32(SumOf(BytesAt(o, l)) + SumOf(BytesAt(o, c)))
          BY <4>1, <4>2, <2>4
        <4> QED BY <4>3, <2>1
      <3> QED BY <3>3, <2>7
    <2> QED BY <2>6, <2>8, <2>9
  <1> QED BY <1>3, <1>4 DEF o

-----------------------------------------------------------------------------
(* The checksum of a packet.                                               *)
LEMMA BitsOfByte ==
    \A n \in Byte : n = (n % 2) + 2 * ((n \div 2) % 2) + 4 * ((n \div 4) % 2) + 8 * ((n \div 8) % 2)
                        + 16 * ((n \div 16) % 2) + 32 * ((n \div 32) % 2) + 64 * ((n \div 64) % 2)
                        + 128 * ((n \div 128) % 2)
  BY SMT DEF Byte

LEMMA BitsTell ==
    ASSUME NEW b \in Byte, NEW c \in Byte, b # c
    PROVE  \E j \in 0..7 : (b \div 2^j) % 2 # (c \div 2^j) % 2
  <1> SUFFICES ASSUME \A j \in 0..7 : (b \div 2^j) % 2 = (c \div 2^j) % 2 PROVE b = c
    OBVIOUS
  <1>1. /\ (b \div 2^0) % 2 = (c \div 2^0) % 2 /\ (b \div 2^1) % 2 = (c \div 2^1) % 2
        /\ (b \div 2^2) % 2 = (c \div 2^2) % 2 /\ (b \div 2^3) % 2 = (c \div 2^3) % 2
        /\ (b \div 2^4) % 2 = (c \div 2^4) % 2 /\ (b \div 2^5) % 2 = (c \div 2^5) % 2
        /\ (b \div 2^6) % 2 = (c \div 2^6) % 2 /\ (b \div 2^7) % 2 = (c \div 2^7) % 2
    OBVIOUS
  <1>2. b \div 1 = b /\ c \div 1 = c
    BY DEF Byte
  <1>3. /\ b % 2 = c % 2 /\ (b \div 2) % 2 = (c \div 2) % 2
        /\ (b \div 4) % 2 = (c \div 4) % 2 /\ (b \div 8) % 2 = (c \div 8) % 2
        /\ (b \div 16) % 2 = (c \div 16) % 2 /\ (b \div 32) % 2 = (c \div 32) % 2
        /\ (b \div 64) % 2 = (c \div 64) % 2 /\ (b \div 128) % 2 = (c \div 128) % 2
    BY <1>1, <1>2, Powers
  <1>4. /\ b = (b % 2) + 2 * ((b \div 2) % 2) + 4 * ((b \div 4) % 2) + 8 * ((b \div 8) % 2)
                + 16 * ((b \div 16) % 2) + 32 * ((b \div 32) % 2) + 64 * ((b \div 64) % 2)
                + 128 * ((b \div 128) % 2)
        /\ c = (c % 2) + 2 * ((c \div 2) % 2) + 4 * ((c \div 4) % 2) + 8 * ((c \div 8) % 2)
                + 16 * ((c \div 16) % 2) + 32 * ((c \div 32) % 2) + 64 * ((c \div 64) % 2)
                + 128 * ((c \div 128) % 2)
    BY BitsOfByte
  <1> QED BY <1>3, <1>4

LEMMA OtherWord ==
    ASSUME NEW m \in Memories, NEW o \in Memories, NEW a \in Nat, NEW d \in 0..3,
           ByteAt(m, a + d) # ByteAt(o, a + d)
    PROVE  Word(m, a) # Word(o, a)
  <1>1. ByteAt(m, a + d) \in Byte /\ ByteAt(o, a + d) \in Byte
    BY MemoryIs
  <1>2. PICK j \in 0..7 : (ByteAt(m, a + d) \div 2^j) % 2 # (ByteAt(o, a + d) \div 2^j) % 2
    BY <1>1, BitsTell
  <1> DEFINE k == 8 * d + j
  <1>3. k \in 0..31 /\ k \div 8 = d /\ k % 8 = j
    BY SMT
  <1>4. \A n \in Nat : n % 2 \in {0, 1}
    BY SMT
  <1>5. ByteAt(m, a + d) \div 2^j \in Nat /\ ByteAt(o, a + d) \div 2^j \in Nat
    <2>2. 2^j \in {1, 2, 4, 8, 16, 32, 64, 128}
      BY BytePowers
    <2>3. \A n \in Byte, e \in {1, 2, 4, 8, 16, 32, 64, 128} : n \div e \in Nat
      BY SMT DEF Byte
    <2> QED BY <1>1, <2>2, <2>3, ZenonT(40)
  <1> HIDE DEF k
  <1>6. (k \in Word(m, a)) = ((ByteAt(m, a + d) \div 2^j) % 2 = 1)
    BY <1>3 DEF Word
  <1>7. (k \in Word(o, a)) = ((ByteAt(o, a + d) \div 2^j) % 2 = 1)
    BY <1>3 DEF Word
  <1>8. (k \in Word(m, a)) # (k \in Word(o, a))
    <2> DEFINE u == (ByteAt(m, a + d) \div 2^j) % 2
               v == (ByteAt(o, a + d) \div 2^j) % 2
    <2>1. u \in {0, 1} /\ v \in {0, 1} /\ u # v
      BY <1>2, <1>4, <1>5
    <2>2. (k \in Word(m, a)) = (u = 1) /\ (k \in Word(o, a)) = (v = 1)
      BY <1>6, <1>7
    <2> HIDE DEF u, v
    <2> QED BY <2>1, <2>2
  <1> QED BY <1>8

(* A packet as memory, and its words.                                      *)
PacketMemory(dat) == [a \in 0..(Len(dat) - 1) |-> dat[a + 1]]

LEMMA PacketBytes ==
    ASSUME NEW dat \in Seq(Byte)
    PROVE  /\ PacketMemory(dat) \in Memories
           /\ \A a \in Nat : ByteAt(PacketMemory(dat), a) = IF a + 1 \in 1..Len(dat) THEN dat[a + 1] ELSE 0
  <1>1. Len(dat) \in Nat /\ \A i \in 1..Len(dat) : dat[i] \in Byte
    OBVIOUS
  <1>2. \A a \in 0..(Len(dat) - 1) : a + 1 \in 1..Len(dat) /\ a \in Nat
    BY <1>1
  <1>3. PacketMemory(dat) \in [0..(Len(dat) - 1) -> Byte]
    BY <1>1, <1>2 DEF PacketMemory
  <1>4. PacketMemory(dat) \in Memories
    <2>1. 0..(Len(dat) - 1) \in SUBSET Nat
      BY <1>2
    <2> QED BY <1>3, <2>1 DEF Memories
  <1>5. ASSUME NEW a \in Nat
        PROVE  ByteAt(PacketMemory(dat), a) = IF a + 1 \in 1..Len(dat) THEN dat[a + 1] ELSE 0
    <2>1. a \in 0..(Len(dat) - 1) <=> a + 1 \in 1..Len(dat)
      BY <1>1
    <2> QED BY <2>1 DEF ByteAt, PacketMemory
  <1> QED BY <1>4, <1>5

LEMMA WordsAre ==
    ASSUME NEW m, NEW n \in Nat
    PROVE  /\ WordsAt(m, Words(n)) \in Seq(SUBSET (0..31)) /\ Len(WordsAt(m, Words(n))) = n
           /\ \A k \in 1..n : WordsAt(m, Words(n))[k] = Word(m, 4 * (k - 1))
  <1>1. \A a : Word(m, a) \in SUBSET (0..31)
    BY DEF Word
  <1>2. DOMAIN Words(n) = 1..n /\ \A k \in 1..n : Words(n)[k] = 4 * (k - 1)
    BY DEF Words
  <1>3. WordsAt(m, Words(n)) = [k \in 1..n |-> Word(m, 4 * (k - 1))]
    BY <1>2 DEF WordsAt
  <1> QED BY <1>1, <1>3

LEMMA PacketTells ==
    ASSUME NEW dat \in Seq(Byte), NEW i \in DOMAIN dat
    PROVE  calc_data_crc(dat).vor # calc_data_crc([dat EXCEPT ![i] = RK_U8(@ + 1)]).vor
  <1> DEFINE alt == [dat EXCEPT ![i] = RK_U8(@ + 1)]
             m == PacketMemory(dat)
             o == PacketMemory(alt)
             n == (Len(dat) + 3) \div 4
  <1>1. Len(dat) \in Nat /\ i \in 1..Len(dat) /\ dat[i] \in Byte
    OBVIOUS
  <1>2. \A b \in Byte : RK_U8(b + 1) \in Byte /\ RK_U8(b + 1) # b
    BY NextByte
  <1>3. /\ alt \in Seq(Byte) /\ Len(alt) = Len(dat) /\ alt[i] # dat[i]
        /\ \A j \in 1..Len(dat) : j # i => alt[j] = dat[j]
    <2>1. alt = [dat EXCEPT ![i] = RK_U8(dat[i] + 1)] /\ RK_U8(dat[i] + 1) \in Byte
      BY <1>1, <1>2
    <2> HIDE DEF alt
    <2> QED BY <2>1, <1>1, <1>2
  <1>4. calc_data_crc(dat).vor = XorOf(WordsAt(m, Words(n)))
    BY DEF calc_data_crc, PacketMemory
  <1>5. calc_data_crc(alt).vor = XorOf(WordsAt(o, Words(n)))
    <2> HIDE DEF alt
    <2> QED BY <1>3 DEF calc_data_crc, PacketMemory
  <1> HIDE DEF alt
  <1>6. m \in Memories /\ o \in Memories
    BY <1>3, PacketBytes
  <1>7. ByteAt(m, i - 1) # ByteAt(o, i - 1)
    <2>1. i - 1 \in Nat /\ (i - 1) + 1 = i
      BY <1>1
    <2> QED BY <2>1, <1>1, <1>3, PacketBytes
  <1>8. \A a \in Nat : a # i - 1 => ByteAt(m, a) = ByteAt(o, a)
    <2> TAKE a \in Nat
    <2> HAVE a # i - 1
    <2>1. a + 1 # i
      BY <1>1
    <2> QED BY <2>1, <1>3, PacketBytes
  <1> HIDE DEF m, o
  <1> DEFINE k == (i - 1) \div 4 + 1
             d == (i - 1) % 4
  <1>9. n \in Nat /\ k \in 1..n /\ d \in 0..3 /\ i - 1 = 4 * (k - 1) + d
    <2>1. \A l \in Nat : \A j \in 1..l : /\ (l + 3) \div 4 \in Nat
                                         /\ (j - 1) \div 4 + 1 \in 1..((l + 3) \div 4)
                                         /\ (j - 1) % 4 \in 0..3
                                         /\ j - 1 = 4 * (((j - 1) \div 4 + 1) - 1) + ((j - 1) % 4)
      BY SMT
    <2> QED BY <2>1, <1>1
  <1> HIDE DEF n, k, d
  <1> DEFINE s == WordsAt(m, Words(n))
             t == WordsAt(o, Words(n))
  <1>10. /\ s \in Seq(SUBSET (0..31)) /\ Len(s) = n /\ \A j \in 1..n : s[j] = Word(m, 4 * (j - 1))
         /\ t \in Seq(SUBSET (0..31)) /\ Len(t) = n /\ \A j \in 1..n : t[j] = Word(o, 4 * (j - 1))
    BY <1>9, WordsAre
  <1>11. s[k] # t[k]
    <2>1. 4 * (k - 1) \in Nat
      BY <1>9
    <2>2. ByteAt(m, 4 * (k - 1) + d) # ByteAt(o, 4 * (k - 1) + d)
      BY <1>7, <1>9
    <2>3. Word(m, 4 * (k - 1)) # Word(o, 4 * (k - 1))
      BY <2>1, <2>2, <1>6, <1>9, OtherWord
    <2> QED BY <2>3, <1>9, <1>10
  <1>12. ASSUME NEW j \in 1..n, j # k PROVE s[j] = t[j]
    <2>1. 4 * (j - 1) \in Nat /\ \A e \in 0..3 : 4 * (j - 1) + e # i - 1 /\ 4 * (j - 1) + e \in Nat
      <3>1. j \in Nat /\ k \in Nat
        BY <1>9
      <3> QED BY <3>1, <1>9, <1>12
    <2>2. \A e \in 0..3 : ByteAt(m, 4 * (j - 1) + e) = ByteAt(o, 4 * (j - 1) + e)
      BY <2>1, <1>8
    <2>3. Word(m, 4 * (j - 1)) = Word(o, 4 * (j - 1))
      BY <2>1, <2>2, SameWord
    <2> QED BY <2>3, <1>10
  <1> HIDE DEF s, t
  <1>13. XorOf(s) # XorOf(t)
    <2>1. k \in 1..Len(s) /\ Len(t) = Len(s)
      BY <1>9, <1>10
    <2> QED BY <2>1, <1>10, <1>11, <1>12, XorTells
  <1> QED BY <1>4, <1>5, <1>13 DEF s, t, alt

-----------------------------------------------------------------------------
(* Powers of two, and the bits of numbers put together from fields.        *)
LEMMA NextPower == ASSUME NEW k \in 0..30 PROVE 2^(k + 1) = 2 * 2^k /\ 2^k \in Nat
  <1> DEFINE P(i) == 2^(i + 1) = 2 * 2^i /\ 2^i \in Nat
  <1>1. P(0) /\ P(1) /\ P(2) /\ P(3)
    OBVIOUS
  <1>2. P(4) /\ P(5) /\ P(6) /\ P(7)
    OBVIOUS
  <1>3. P(8) /\ P(9) /\ P(10) /\ P(11)
    OBVIOUS
  <1>4. P(12) /\ P(13) /\ P(14) /\ P(15)
    OBVIOUS
  <1>5. P(16) /\ P(17) /\ P(18) /\ P(19)
    OBVIOUS
  <1>6. P(20) /\ P(21) /\ P(22) /\ P(23)
    OBVIOUS
  <1>7. P(24) /\ P(25) /\ P(26) /\ P(27)
    OBVIOUS
  <1>8. P(28) /\ P(29) /\ P(30)
    OBVIOUS
  <1> HIDE DEF P
  <1>9. k \in 0..15 => P(k)
    BY <1>1, <1>2, <1>3, <1>4
  <1>10. k \in 16..30 => P(k)
    BY <1>5, <1>6, <1>7, <1>8
  <1>11. P(k)
    BY <1>9, <1>10
  <1> QED BY <1>11 DEF P

LEMMA PowerNat == ASSUME NEW k \in 0..31 PROVE 2^k \in Nat \ {0}
  <1> DEFINE S == {i \in 0..31 : 2^i \in Nat \ {0}}
  <1>1. 0 \in S
    BY Powers
  <1>2. ASSUME NEW i \in 1..31, i - 1 \in S PROVE i \in S
    <2>1. i - 1 \in 0..30 /\ (i - 1) + 1 = i /\ i \in 0..31
      OBVIOUS
    <2>2. 2^((i - 1) + 1) = 2 * 2^(i - 1) /\ 2^(i - 1) \in Nat \ {0}
      BY <2>1, <1>2, NextPower
    <2>3. 2^i = 2 * 2^(i - 1)
      BY <2>1, <2>2
    <2>4. 2^i \in Nat \ {0}
      BY <2>2, <2>3
    <2> QED BY <2>1, <2>4
  <1>3. S = 0..31
    <2>1. S \in SUBSET (0..31) /\ 31 \in Nat
      OBVIOUS
    <2> HIDE DEF S
    <2> QED BY <2>1, <1>1, <1>2, UpTo
  <1> QED BY <1>3

LEMMA PowersAdd ==
    ASSUME NEW a \in 0..31, NEW b \in 0..31, a + b \in 0..31
    PROVE  2^(a + b) = 2^a * 2^b
  <1> DEFINE S == {i \in 0..b : 2^(a + i) = 2^a * 2^i}
  <1>1. 0 \in S
    <2>1. a + 0 = a /\ 2^0 = 1 /\ 2^a \in Nat /\ 0 \in 0..b
      <3>1. a + 0 = a /\ 0 \in 0..b
        OBVIOUS
      <3>2. 2^a \in Nat
        BY PowerNat
      <3> QED BY <3>1, <3>2, Powers
    <2>2. 2^(a + 0) = 2^a
      BY <2>1
    <2>3. 2^a * 2^0 = 2^a
      BY <2>1
    <2> QED BY <2>1, <2>2, <2>3
  <1>2. ASSUME NEW i \in 1..b, i - 1 \in S PROVE i \in S
    <2> DEFINE j == i - 1
    <2>1. j \in 0..30 /\ a + j \in 0..30 /\ j + 1 = i /\ (a + j) + 1 = a + i /\ i \in 0..b
      OBVIOUS
    <2>2. 2^(a + j) = 2^a * 2^j
      BY <1>2
    <2> HIDE DEF j
    <2>3. /\ 2^(j + 1) = 2 * 2^j /\ 2^j \in Nat
          /\ 2^((a + j) + 1) = 2 * 2^(a + j) /\ 2^(a + j) \in Nat
      BY <2>1, NextPower
    <2>4. 2^i = 2 * 2^j /\ 2^(a + i) = 2 * 2^(a + j)
      BY <2>1, <2>3
    <2>5. 2^a \in Nat
      BY PowerNat
    <2> DEFINE x == 2^a
               y == 2^j
    <2>6. 2 * (x * y) = x * (2 * y)
      <3>1. x \in Nat /\ y \in Nat
        BY <2>3, <2>5
      <3> HIDE DEF x, y
      <3> QED BY <3>1
    <2>7. 2^(a + i) = 2^a * 2^i
      BY <2>2, <2>4, <2>6
    <2> QED BY <2>1, <2>7
  <1>3. S = 0..b
    <2>1. S \in SUBSET (0..b) /\ b \in Nat
      OBVIOUS
    <2> HIDE DEF S
    <2> QED BY <2>1, <1>1, <1>2, UpTo
  <1>4. b \in 0..b
    OBVIOUS
  <1> QED BY <1>3, <1>4

(* The powers by a name: 2^8 is 256 to the provers, and 2^k of no k.       *)
Pow(k) == 2^k

LEMMA PowValues ==
    /\ Pow(0) = 1 /\ Pow(1) = 2 /\ Pow(2) = 4 /\ Pow(3) = 8 /\ Pow(4) = 16 /\ Pow(5) = 32
    /\ Pow(6) = 64 /\ Pow(7) = 128 /\ Pow(8) = 256 /\ Pow(10) = 1024 /\ Pow(11) = 2048
    /\ Pow(16) = 65536 /\ Pow(20) = 1048576 /\ Pow(24) = 16777216
  BY Powers DEF Pow

LEMMA PowNat == ASSUME NEW k \in 0..31 PROVE Pow(k) \in Nat \ {0}
  BY PowerNat DEF Pow

LEMMA PowAdd == ASSUME NEW a \in 0..31, NEW b \in 0..31, a + b \in 0..31
                PROVE  Pow(a + b) = Pow(a) * Pow(b)
  BY PowersAdd DEF Pow

(* Dividing twice is dividing by the product.                              *)
LEMMA DivideTwice ==
    ASSUME NEW n \in Nat, NEW a \in Nat \ {0}, NEW b \in Nat \ {0}
    PROVE  n \div (a * b) = (n \div a) \div b
  <1> DEFINE m == n \div a
             r == n % a
             q == m \div b
             t == m % b
  <1>1. m \in Nat /\ r \in 0..(a - 1) /\ n = m * a + r
    BY RowAndColumn
  <1> HIDE DEF m, r
  <1>2. q \in Nat /\ t \in 0..(b - 1) /\ m = q * b + t
    BY <1>1, RowAndColumn
  <1> HIDE DEF q, t
  <1> DEFINE c == a * b
             x == t * a + r
  <1>3. c \in Nat \ {0}
    <2>1. 1 * b <= a * b
      BY TimesGrows
    <2> QED BY <2>1
  <1>4. x \in 0..(c - 1)
    <2>1. (t + 1) * a <= b * a
      BY <1>2, TimesGrows
    <2>2. (t + 1) * a = t * a + a /\ b * a = c /\ t * a \in Nat
      BY <1>2
    <2> HIDE DEF c
    <2> QED BY <2>1, <2>2, <1>1, <1>3
  <1>5. n = q * c + x
    <2>1. m * a = (q * b) * a + t * a
      BY <1>1, <1>2
    <2>2. (q * b) * a = q * (a * b)
      BY <1>2
    <2>3. (q * b) * a \in Nat /\ t * a \in Nat /\ q * c \in Nat /\ r \in Nat
      BY <1>1, <1>2, <1>3
    <2> HIDE DEF c
    <2> QED BY <2>1, <2>2, <2>3, <1>1 DEF c
  <1> HIDE DEF c, x
  <1>6. n \div c = q
    BY <1>2, <1>3, <1>4, <1>5, PlaceOf
  <1> QED BY <1>6 DEF c, q, m

(* Bit e of a field of n bits, s bits above the end of a number.           *)
LEMMA FieldBit ==
    ASSUME NEW s \in Nat, NEW n \in Nat, s + n <= 32, n <= 31, NEW e \in 0..(n - 1),
           NEW hi \in Nat, NEW f \in Nat, NEW lo \in 0..(Pow(s) - 1)
    PROVE  (((hi * Pow(n) + f) * Pow(s) + lo) \div Pow(s + e)) % 2 = (f \div Pow(e)) % 2
  <1> DEFINE p == Pow(s)
             q == Pow(e)
             m == Pow(n - 1 - e)
             N == Pow(n)
             v == hi * N + f
  <1>1. /\ s \in 0..31 /\ e \in 0..31 /\ s + e \in 0..31 /\ n - 1 - e \in 0..31 /\ n \in 0..31
        /\ 1 \in 0..31 /\ e + 1 \in 0..31 /\ (e + 1) + (n - 1 - e) = n
    OBVIOUS
  <1>2. /\ p \in Nat \ {0} /\ q \in Nat \ {0} /\ m \in Nat \ {0} /\ N \in Nat
    BY <1>1, PowNat
  <1>3. Pow(s + e) = p * q
    BY <1>1, PowAdd
  <1>4. N = (q * 2) * m
    <2>1. Pow(e + 1) = q * Pow(1)
      BY <1>1, PowAdd
    <2>2. Pow((e + 1) + (n - 1 - e)) = Pow(e + 1) * m
      BY <1>1, PowAdd
    <2>3. Pow((e + 1) + (n - 1 - e)) = N
      BY <1>1
    <2> QED BY <2>1, <2>2, <2>3, PowValues
  <1>5. lo \in 0..(p - 1)
    OBVIOUS
  <1> HIDE DEF p, q, m, N
  <1>6. v \in Nat
    BY <1>2
  <1> HIDE DEF v
  <1>7. (v * p + lo) \div p = v /\ v * p + lo \in Nat
    BY <1>2, <1>5, <1>6, PlaceOf
  <1>8. (v * p + lo) \div (p * q) = v \div q
    BY <1>2, <1>7, DivideTwice
  <1> DEFINE g == f \div q
             r == f % q
  <1>9. g \in Nat /\ r \in 0..(q - 1) /\ f = g * q + r
    BY <1>2, RowAndColumn
  <1> HIDE DEF g, r
  <1> DEFINE k == hi * m
  <1>10. k \in Nat
    BY <1>2
  <1>11. hi * N = (2 * k) * q
    <2>1. hi * N = hi * ((q * 2) * m)
      BY <1>4
    <2>2. hi * ((q * 2) * m) = (2 * (hi * m)) * q
      BY <1>2
    <2> QED BY <2>1, <2>2
  <1> HIDE DEF k
  <1>12. v = (2 * k + g) * q + r
    <2>1. (2 * k + g) * q = (2 * k) * q + g * q
      BY <1>2, <1>9, <1>10
    <2>2. (2 * k) * q \in Nat /\ g * q \in Nat /\ r \in Nat
      BY <1>2, <1>9, <1>10
    <2>3. v = (2 * k) * q + (g * q + r)
      BY <1>9, <1>11 DEF v
    <2> QED BY <2>1, <2>2, <2>3
  <1>13. v \div q = 2 * k + g
    <2>1. 2 * k + g \in Nat
      BY <1>9, <1>10
    <2> QED BY <2>1, <1>2, <1>9, <1>12, PlaceOf
  <1>14. (2 * k + g) % 2 = g % 2
    <2>1. \A x, y \in Nat : (2 * x + y) % 2 = y % 2
      BY SMT
    <2> QED BY <2>1, <1>9, <1>10
  <1> QED BY <1>3, <1>8, <1>13, <1>14 DEF p, q, N, v, g

(* Bit j + e of a number is bit e of the byte that begins at bit j.        *)
LEMMA ByteBit ==
    ASSUME NEW val \in Nat, NEW j \in Nat, j <= 24, NEW e \in 0..7
    PROVE  (((val \div Pow(j)) % 256) \div Pow(e)) % 2 = (val \div Pow(j + e)) % 2
  <1> DEFINE p == Pow(j)
             v == val \div p
             lo == val % p
             f == v % 256
             hi == v \div 256
  <1>1. p \in Nat \ {0}
    <2>1. j \in 0..31
      OBVIOUS
    <2> QED BY <2>1, PowNat
  <1> HIDE DEF p
  <1>2. v \in Nat /\ lo \in 0..(p - 1) /\ val = v * p + lo
    BY <1>1, RowAndColumn
  <1> HIDE DEF v, lo
  <1>3. hi \in Nat /\ f \in 0..255 /\ v = hi * 256 + f
    <2>1. 256 \in Nat \ {0}
      OBVIOUS
    <2> QED BY <2>1, <1>2, RowAndColumn
  <1>4. f \in Nat /\ Pow(8) = 256
    BY <1>3, PowValues
  <1> HIDE DEF f, hi
  <1>5. (((hi * Pow(8) + f) * Pow(j) + lo) \div Pow(j + e)) % 2 = (f \div Pow(e)) % 2
    <2> DEFINE n == 8
    <2>1. lo \in 0..(Pow(j) - 1) /\ n \in Nat /\ j + n <= 32 /\ n <= 31 /\ e \in 0..(n - 1)
      BY <1>2 DEF p
    <2> HIDE DEF n
    <2>2. (((hi * Pow(n) + f) * Pow(j) + lo) \div Pow(j + e)) % 2 = (f \div Pow(e)) % 2
      BY <2>1, <1>3, <1>4, FieldBit
    <2> QED BY <2>2 DEF n
  <1>6. val = (hi * Pow(8) + f) * Pow(j) + lo
    BY <1>2, <1>3, <1>4 DEF p
  <1> QED BY <1>5, <1>6 DEF f, v, p

LEMMA BitIs ==
    ASSUME NEW pixel, NEW k \in Nat, NEW j, NEW e, k \div 8 + 1 = j, 7 - (k % 8) = e
    PROVE  Bit(pixel, k) = (pixel[j] \div Pow(e)) % 2
  BY DEF Bit, Pow

LEMMA BitOfTwo ==
    ASSUME NEW val \in Nat, NEW pixel, pixel[1] = Bytes2(val)[1], pixel[2] = Bytes2(val)[2],
           NEW k \in 0..15
    PROVE  Bit(pixel, k) = (val \div Pow(15 - k)) % 2
  <1>1. pixel[1] = (val \div Pow(8)) % 256 /\ pixel[2] = val % 256
    BY PowValues DEF Bytes2
  <1>2. val \div Pow(0) = val
    <2>1. val \div 1 = val
      BY SMT
    <2> QED BY <2>1, PowValues
  <1>3. CASE k \in 0..7
    <2>1. k \div 8 + 1 = 1 /\ 7 - (k % 8) = 7 - k /\ 7 - k \in 0..7 /\ 8 + (7 - k) = 15 - k
      BY <1>3
    <2>2. (((val \div Pow(8)) % 256) \div Pow(7 - k)) % 2 = (val \div Pow(8 + (7 - k))) % 2
      BY <2>1, ByteBit
    <2>3. Bit(pixel, k) = (pixel[1] \div Pow(7 - k)) % 2
      BY <2>1, BitIs
    <2> QED BY <2>1, <2>2, <2>3, <1>1
  <1>4. CASE k \in 8..15
    <2>1. k \div 8 + 1 = 2 /\ 7 - (k % 8) = 15 - k /\ 15 - k \in 0..7 /\ 0 + (15 - k) = 15 - k
      BY <1>4
    <2>2. (((val \div Pow(0)) % 256) \div Pow(15 - k)) % 2 = (val \div Pow(0 + (15 - k))) % 2
      BY <2>1, ByteBit
    <2>3. Bit(pixel, k) = (pixel[2] \div Pow(15 - k)) % 2
      BY <2>1, BitIs
    <2> QED BY <2>1, <2>2, <2>3, <1>1, <1>2
  <1> QED BY <1>3, <1>4

LEMMA BitOfFour ==
    ASSUME NEW val \in Nat, NEW pixel, \A i \in 1..4 : pixel[i] = Bytes4(val)[i], NEW k \in 0..31
    PROVE  Bit(pixel, k) = (val \div Pow(31 - k)) % 2
  <1>1. /\ pixel[1] = (val \div Pow(24)) % 256 /\ pixel[2] = (val \div Pow(16)) % 256
        /\ pixel[3] = (val \div Pow(8)) % 256 /\ pixel[4] = val % 256
    <2>1. Bytes4(val) = <<(val \div 16777216) % 256, (val \div 65536) % 256>>
                           \o <<(val \div 256) % 256, val % 256>>
      BY Powers DEF Bytes4, Bytes2
    <2> QED BY <2>1, PowValues
  <1>2. val \div Pow(0) = val
    <2>1. val \div 1 = val
      BY SMT
    <2> QED BY <2>1, PowValues
  <1>3. CASE k \in 0..7
    <2>1. k \div 8 + 1 = 1 /\ 7 - (k % 8) = 7 - k /\ 7 - k \in 0..7 /\ 24 + (7 - k) = 31 - k
      BY <1>3
    <2>2. (((val \div Pow(24)) % 256) \div Pow(7 - k)) % 2 = (val \div Pow(24 + (7 - k))) % 2
      BY <2>1, ByteBit
    <2>3. Bit(pixel, k) = (pixel[1] \div Pow(7 - k)) % 2
      BY <2>1, BitIs
    <2> QED BY <2>1, <2>2, <2>3, <1>1
  <1>4. CASE k \in 8..15
    <2>1. k \div 8 + 1 = 2 /\ 7 - (k % 8) = 15 - k /\ 15 - k \in 0..7 /\ 16 + (15 - k) = 31 - k
      BY <1>4
    <2>2. (((val \div Pow(16)) % 256) \div Pow(15 - k)) % 2 = (val \div Pow(16 + (15 - k))) % 2
      BY <2>1, ByteBit
    <2>3. Bit(pixel, k) = (pixel[2] \div Pow(15 - k)) % 2
      BY <2>1, BitIs
    <2> QED BY <2>1, <2>2, <2>3, <1>1
  <1>5. CASE k \in 16..23
    <2>1. k \div 8 + 1 = 3 /\ 7 - (k % 8) = 23 - k /\ 23 - k \in 0..7 /\ 8 + (23 - k) = 31 - k
      BY <1>5
    <2>2. (((val \div Pow(8)) % 256) \div Pow(23 - k)) % 2 = (val \div Pow(8 + (23 - k))) % 2
      BY <2>1, ByteBit
    <2>3. Bit(pixel, k) = (pixel[3] \div Pow(23 - k)) % 2
      BY <2>1, BitIs
    <2> QED BY <2>1, <2>2, <2>3, <1>1
  <1>6. CASE k \in 24..31
    <2>1. k \div 8 + 1 = 4 /\ 7 - (k % 8) = 31 - k /\ 31 - k \in 0..7 /\ 0 + (31 - k) = 31 - k
      BY <1>6
    <2>2. (((val \div Pow(0)) % 256) \div Pow(31 - k)) % 2 = (val \div Pow(0 + (31 - k))) % 2
      BY <2>1, ByteBit
    <2>3. Bit(pixel, k) = (pixel[4] \div Pow(31 - k)) % 2
      BY <2>1, BitIs
    <2> QED BY <2>1, <2>2, <2>3, <1>1, <1>2
  <1> QED BY <1>3, <1>4, <1>5, <1>6

(* A field of n bits of a number, s bits above its end, is x.              *)
Field(val, s, n, x) == \A e \in 0..(n - 1) : (val \div Pow(s + e)) % 2 = (x \div Pow(e)) % 2

(* Three fields of l, m and n bits, put together into one number.          *)
LEMMA ThreeFields ==
    ASSUME NEW l \in 1..10, NEW m \in 1..10, NEW n \in 1..10,
           NEW a \in Nat, NEW b \in 0..(Pow(m) - 1), NEW c \in 0..(Pow(n) - 1),
           NEW val, val = a * Pow(m + n) + b * Pow(n) + c
    PROVE  Field(val, m + n, l, a) /\ Field(val, n, m, b) /\ Field(val, 0, n, c)
  <1> DEFINE M == Pow(m)
             N == Pow(n)
  <1>1. /\ M \in Nat \ {0} /\ N \in Nat \ {0} /\ Pow(m + n) = M * N /\ Pow(0) = 1
        /\ M * N \in Nat \ {0}
    <2>1. m \in 0..31 /\ n \in 0..31 /\ m + n \in 0..31
      OBVIOUS
    <2>2. M \in Nat \ {0} /\ N \in Nat \ {0}
      BY <2>1, PowNat
    <2>3. Pow(m + n) = M * N
      BY <2>1, PowAdd
    <2>4. Pow(m + n) \in Nat \ {0}
      BY <2>1, PowNat
    <2> QED BY <2>2, <2>3, <2>4, PowValues
  <1>2. b \in 0..(M - 1) /\ c \in 0..(N - 1) /\ val = a * (M * N) + b * N + c
    BY <1>1
  <1> DEFINE low == b * N + c
  <1>3. low \in 0..(M * N - 1)
    <2> HIDE DEF M, N
    <2>1. (b + 1) * N <= M * N
      BY <1>1, <1>2, TimesGrows
    <2>2. (b + 1) * N = b * N + N /\ b * N \in Nat
      BY <1>1, <1>2
    <2> QED BY <2>1, <2>2, <1>1, <1>2
  <1>4. ASSUME NEW e \in 0..(l - 1)
        PROVE  (val \div Pow(m + n + e)) % 2 = (a \div Pow(e)) % 2
    <2>1. m + n \in Nat /\ l \in Nat /\ (m + n) + l <= 32 /\ l <= 31 /\ low \in 0..(Pow(m + n) - 1)
      BY <1>1, <1>3
    <2> HIDE DEF low
    <2>2. (((0 * Pow(l) + a) * Pow(m + n) + low) \div Pow((m + n) + e)) % 2 = (a \div Pow(e)) % 2
      BY <2>1, FieldBit
    <2>3. (0 * Pow(l) + a) * Pow(m + n) + low = val
      <3>1. Pow(l) \in Nat
        BY PowNat
      <3>2. 0 * Pow(l) + a = a
        BY <3>1
      <3>3. a * (M * N) \in Nat /\ b * N \in Nat
        BY <1>1, <1>2
      <3>4. a * (M * N) + (b * N + c) = val
        BY <3>3, <1>2
      <3> QED BY <3>2, <3>4, <1>1 DEF low
    <2> QED BY <2>2, <2>3
  <1>5. ASSUME NEW e \in 0..(m - 1)
        PROVE  (val \div Pow(n + e)) % 2 = (b \div Pow(e)) % 2
    <2>1. n \in Nat /\ m \in Nat /\ n + m <= 32 /\ m <= 31 /\ b \in Nat
      OBVIOUS
    <2>2. (((a * Pow(m) + b) * Pow(n) + c) \div Pow(n + e)) % 2 = (b \div Pow(e)) % 2
      BY <2>1, FieldBit
    <2>3. (a * M + b) * N + c = val
      <3> HIDE DEF M, N
      <3>1. (a * M + b) * N = a * (M * N) + b * N
        BY <1>1, <1>2
      <3> QED BY <3>1, <1>2
    <2> QED BY <2>2, <2>3
  <1>6. ASSUME NEW e \in 0..(n - 1)
        PROVE  (val \div Pow(e)) % 2 = (c \div Pow(e)) % 2
    <2>1. 0 \in Nat /\ n \in Nat /\ 0 + n <= 32 /\ n <= 31 /\ c \in Nat /\ 0 \in 0..(Pow(0) - 1)
      BY <1>1
    <2>2. a * M + b \in Nat
      BY <1>1, <1>2
    <2>3. ((((a * M + b) * Pow(n) + c) * Pow(0) + 0) \div Pow(0 + e)) % 2 = (c \div Pow(e)) % 2
      BY <2>1, <2>2, FieldBit
    <2>4. (a * M + b) * N + c = val
      <3> HIDE DEF M, N
      <3>1. (a * M + b) * N = a * (M * N) + b * N
        BY <1>1, <1>2
      <3> QED BY <3>1, <1>2
    <2>5. (((a * M + b) * Pow(n) + c) * Pow(0) + 0) = val /\ 0 + e = e
      <3>1. val \in Nat
        BY <2>2, <2>4, <1>1, <1>2
      <3> QED BY <2>4, <3>1, <1>1
    <2> QED BY <2>3, <2>5
  <1>7. Field(val, m + n, l, a) /\ Field(val, n, m, b)
    BY <1>4, <1>5 DEF Field
  <1>8. Field(val, 0, n, c)
    <2>1. \A e \in 0..(n - 1) : 0 + e = e
      OBVIOUS
    <2> QED BY <2>1, <1>6 DEF Field
  <1> QED BY <1>7, <1>8

(* The T bits of a pixel are those of a number; a field of n bits of it, s *)
(* bits above its end, is x; a pixel shows x in n bits from a place on.    *)
ReadsAs(pixel, T, val)    == \A k \in 0..(T - 1) : Bit(pixel, k) = (val \div Pow(T - 1 - k)) % 2
Shown(pixel, place, n, x) == \A k \in 0..(n - 1) : Bit(pixel, place + k) = BitOf(x, n, k)

(* A colour that fills a field of n bits, s bits above the end.            *)
LEMMA FieldShown ==
    ASSUME NEW T \in Nat, NEW pixel, NEW val, ReadsAs(pixel, T, val),
           NEW place \in Nat, NEW n \in Nat, NEW s \in Nat, place + n + s = T, NEW x,
           Field(val, s, n, x)
    PROVE  Shown(pixel, place, n, x)
  <1> SUFFICES ASSUME NEW k \in 0..(n - 1)
               PROVE  Bit(pixel, place + k) = BitOf(x, n, k)
    BY DEF Shown
  <1> DEFINE e == n - 1 - k
             at == place + k
  <1>1. e \in 0..(n - 1) /\ at \in 0..(T - 1) /\ T - 1 - at = s + e
    OBVIOUS
  <1>2. BitOf(x, n, k) = (x \div Pow(e)) % 2
    BY DEF BitOf, Pow
  <1> HIDE DEF e, at
  <1>3. Bit(pixel, at) = (val \div Pow(T - 1 - at)) % 2
    BY <1>1 DEF ReadsAs
  <1>4. (val \div Pow(s + e)) % 2 = (x \div Pow(e)) % 2
    BY <1>1 DEF Field
  <1> QED BY <1>1, <1>2, <1>3, <1>4 DEF at

(* A number made of three, the last of n bits and the middle one of m.     *)
Three(val, a, b, c, m, n) == val = a * Pow(m + n) + b * Pow(n) + c

(* Three colours side by side at the end of a pixel.                       *)
LEMMA ThreeShown ==
    ASSUME NEW T \in Nat, NEW pixel, NEW val, ReadsAs(pixel, T, val),
           NEW l \in 1..10, NEW m \in 1..10, NEW n \in 1..10, l + m + n <= T,
           NEW a \in Nat, NEW b \in 0..(Pow(m) - 1), NEW c \in 0..(Pow(n) - 1),
           Three(val, a, b, c, m, n),
           NEW p, NEW q, NEW r, p = T - l - m - n, q = T - m - n, r = T - n
    PROVE  Shown(pixel, p, l, a) /\ Shown(pixel, q, m, b) /\ Shown(pixel, r, n, c)
  <1>1. /\ Field(val, m + n, l, a) /\ Field(val, n, m, b) /\ Field(val, 0, n, c)
    BY ThreeFields DEF Three
  <1>2. Shown(pixel, p, l, a)
    <2> DEFINE s == m + n
    <2>1. s \in Nat /\ p \in Nat /\ p + l + s = T /\ l \in Nat
      OBVIOUS
    <2>2. Field(val, s, l, a)
      BY <1>1
    <2> HIDE DEF s
    <2> QED BY <2>1, <2>2, FieldShown
  <1>3. Shown(pixel, q, m, b)
    <2>1. n \in Nat /\ q \in Nat /\ q + m + n = T /\ m \in Nat
      OBVIOUS
    <2> QED BY <2>1, <1>1, FieldShown
  <1>4. Shown(pixel, r, n, c)
    <2>1. 0 \in Nat /\ r \in Nat /\ r + n + 0 = T /\ n \in Nat
      OBVIOUS
    <2> QED BY <2>1, <1>1, FieldShown
  <1> QED BY <1>2, <1>3, <1>4

(* A colour in a byte of its own.                                          *)
LEMMA ByteShown ==
    ASSUME NEW pixel, NEW i \in 0..3, NEW place, place = 8 * i
    PROVE  Shown(pixel, place, 8, pixel[i + 1])
  <1> SUFFICES ASSUME NEW k \in 0..7
               PROVE  Bit(pixel, place + k) = BitOf(pixel[i + 1], 8, k)
    BY DEF Shown
  <1>1. place + k \in Nat /\ (place + k) \div 8 + 1 = i + 1 /\ 7 - ((place + k) % 8) = 7 - k
    OBVIOUS
  <1>2. Bit(pixel, place + k) = (pixel[i + 1] \div Pow(7 - k)) % 2
    BY <1>1, BitIs
  <1> QED BY <1>2 DEF BitOf, Pow

LEMMA Tops ==
    ASSUME NEW c \in Byte
    PROVE  /\ Top(c, 4) = c \div 16 /\ Top(c, 5) = c \div 8 /\ Top(c, 6) = c \div 4
           /\ Scaled(c, 4) = Top(c, 4) /\ Scaled(c, 5) = Top(c, 5) /\ Scaled(c, 6) = Top(c, 6)
           /\ Scaled(c, 8) = c /\ Scaled(c, 10) = c * 4
           /\ Scaled(c, 4) \in 0..(Pow(4) - 1) /\ Scaled(c, 5) \in 0..(Pow(5) - 1)
           /\ Scaled(c, 6) \in 0..(Pow(6) - 1) /\ Scaled(c, 10) \in 0..(Pow(10) - 1)
           /\ \A n \in {4, 5, 6, 10} : Scaled(c, n) \in Nat
  <1>1. /\ Top(c, 4) = c \div 16 /\ Top(c, 5) = c \div 8 /\ Top(c, 6) = c \div 4 /\ Top(c, 8) = c
    BY Powers DEF Top, Byte
  <1>2. /\ Scaled(c, 4) = Top(c, 4) /\ Scaled(c, 5) = Top(c, 5) /\ Scaled(c, 6) = Top(c, 6)
        /\ Scaled(c, 8) = Top(c, 8) /\ Scaled(c, 10) = c * 4
    BY Powers DEF Scaled
  <1>3. /\ c \div 16 \in 0..15 /\ c \div 8 \in 0..31 /\ c \div 4 \in 0..63 /\ c * 4 \in 0..1023
    BY DEF Byte
  <1>4. /\ Scaled(c, 4) \in 0..(Pow(4) - 1) /\ Scaled(c, 5) \in 0..(Pow(5) - 1)
        /\ Scaled(c, 6) \in 0..(Pow(6) - 1) /\ Scaled(c, 10) \in 0..(Pow(10) - 1)
    BY <1>1, <1>2, <1>3, PowValues
  <1>5. \A n \in {4, 5, 6, 10} : Scaled(c, n) \in Nat
    BY <1>1, <1>2, <1>3
  <1> QED BY <1>1, <1>2, <1>4, <1>5


LEMMA TwoBytes ==
    ASSUME NEW val \in Nat, NEW pixel, pixel[1] = Bytes2(val)[1], pixel[2] = Bytes2(val)[2]
    PROVE  ReadsAs(pixel, 16, val)
  <1>1. \A k \in 0..15 : Bit(pixel, k) = (val \div Pow(15 - k)) % 2
    BY BitOfTwo
  <1>2. \A k : 16 - 1 - k = 15 - k
    OBVIOUS
  <1> QED BY <1>1 DEF ReadsAs

LEMMA FourBytes ==
    ASSUME NEW val \in Nat, NEW pixel, \A i \in 1..4 : pixel[i] = Bytes4(val)[i]
    PROVE  ReadsAs(pixel, 32, val)
  <1>1. \A k \in 0..31 : Bit(pixel, k) = (val \div Pow(31 - k)) % 2
    BY BitOfFour
  <1> QED BY <1>1 DEF ReadsAs

LEMMA ShowsIf ==
    ASSUME NEW fmt, NEW pixel, NEW c, NEW pr, NEW pg, NEW pb, NEW r, NEW g, NEW b,
           Layout[fmt]["R"] = <<pr, r>>, Layout[fmt]["G"] = <<pg, g>>, Layout[fmt]["B"] = <<pb, b>>,
           Shown(pixel, pr, r, Scaled(c.R, r)), Shown(pixel, pg, g, Scaled(c.G, g)),
           Shown(pixel, pb, b, Scaled(c.B, b))
    PROVE  Shows(fmt, pixel, c)
  BY DEF Shows, Shown

(* What get_rgb_color gives.                                               *)
Colours == [R : Byte, G : Byte, B : Byte]

(* The pixel of a format begins with the bytes.                            *)
Begins(pixel, bytes) == \A i \in DOMAIN bytes : pixel[i] = bytes[i]

(* A number as a pixel of T bits.                                           *)
Stored(T, val) == IF T = 16 THEN Bytes2(val) ELSE Bytes4(val)

(* Three fields of l, m and n bits at the end of T, and where they begin.   *)
Parts(T, l, m, n, p, q, r) ==
    /\ T \in {16, 32} /\ l \in 1..10 /\ m \in 1..10 /\ n \in 1..10 /\ l + m + n <= T
    /\ p = T - l - m - n /\ q = T - m - n /\ r = T - n

LEMMA PackedShown ==
    ASSUME NEW pixel, NEW val, NEW T, NEW l, NEW m, NEW n, NEW p, NEW q, NEW r,
           Parts(T, l, m, n, p, q, r), Begins(pixel, Stored(T, val)),
           NEW a, NEW b, NEW c, a \in Nat, b \in 0..(Pow(m) - 1), c \in 0..(Pow(n) - 1),
           Three(val, a, b, c, m, n)
    PROVE  Shown(pixel, p, l, a) /\ Shown(pixel, q, m, b) /\ Shown(pixel, r, n, c)
  <1>0. /\ T \in {16, 32} /\ l \in 1..10 /\ m \in 1..10 /\ n \in 1..10 /\ l + m + n <= T
        /\ p = T - l - m - n /\ q = T - m - n /\ r = T - n
    BY DEF Parts
  <1> DEFINE P == Pow(m + n)
             N == Pow(n)
  <1>1. val \in Nat
    <2>1. m + n \in 0..31 /\ n \in 0..31 /\ m \in 0..31
      BY <1>0
    <2>2. P \in Nat /\ N \in Nat /\ Pow(m) \in Nat /\ val = a * P + b * N + c
      BY <2>1, PowNat DEF Three
    <2>3. b \in Nat /\ c \in Nat
      BY <2>2
    <2> HIDE DEF P, N
    <2>4. a * P \in Nat /\ b * N \in Nat
      BY <2>2, <2>3
    <2> QED BY <2>2, <2>3, <2>4
  <1>2. ReadsAs(pixel, T, val)
    <2>1. CASE T = 16
      <3>1. pixel[1] = Bytes2(val)[1] /\ pixel[2] = Bytes2(val)[2]
        BY <2>1 DEF Begins, Bytes2, Stored
      <3> QED BY <3>1, <2>1, <1>1, TwoBytes
    <2>2. CASE T = 32
      <3>1. Begins(pixel, Bytes4(val)) /\ DOMAIN Bytes4(val) = 1..4
        BY <2>2 DEF Bytes4, Bytes2, Stored
      <3>2. \A i \in 1..4 : pixel[i] = Bytes4(val)[i]
        BY <3>1 DEF Begins
      <3> QED BY <3>2, <2>2, <1>1, FourBytes
    <2> QED BY <2>1, <2>2, <1>0
  <1>3. T \in Nat
    BY <1>0
  <1> QED BY <1>0, <1>2, <1>3, ThreeShown, ZenonT(40)

LEMMA RGB565Shown ==
    ASSUME NEW c \in Colours, NEW pixel, Begins(pixel, fill_MPP_FMT_RGB565(c))
    PROVE  Shows("RGB565", pixel, c)
  <1> DEFINE x == Scaled(c.R, 5)
             y == Scaled(c.G, 6)
             z == Scaled(c.B, 5)
             val == x * Pow(11) + y * Pow(5) + z
  <1>1. /\ x \in 0..(Pow(5) - 1) /\ y \in 0..(Pow(6) - 1) /\ z \in 0..(Pow(5) - 1)
        /\ x = Top(c.R, 5) /\ y = Top(c.G, 6) /\ z = Top(c.B, 5)
    BY Tops DEF Colours
  <1>2. x \in Nat /\ y \in Nat /\ z \in Nat
    BY <1>1, PowValues
  <1>3. fill_MPP_FMT_RGB565(c) = Bytes2(val)
    <2> HIDE DEF x, y, z
    <2>1. val = x * 2^11 + y * 2^5 + z
      BY <1>2, PowValues, Powers
    <2> QED BY <2>1, <1>1 DEF fill_MPP_FMT_RGB565
  <1>4. /\ Begins(pixel, Stored(16, val))
        /\ Three(val, x, y, z, 6, 5)
    BY <1>3 DEF Three, Stored
  <1> HIDE DEF x, y, z, val
  <1>5. Parts(16, 5, 6, 5, 0, 5, 11)
    BY DEF Parts
  <1>6. Shown(pixel, 0, 5, x) /\ Shown(pixel, 5, 6, y) /\ Shown(pixel, 11, 5, z)
    BY <1>1, <1>2, <1>4, <1>5, PackedShown
  <1>7. /\ Layout["RGB565"]["R"] = <<0, 5>> /\ Layout["RGB565"]["G"] = <<5, 6>>
        /\ Layout["RGB565"]["B"] = <<11, 5>>
    BY DEF Layout
  <1> QED BY <1>6, <1>7, ShowsIf DEF x, y, z

LEMMA BGR565Shown ==
    ASSUME NEW c \in Colours, NEW pixel, Begins(pixel, fill_MPP_FMT_BGR565(c))
    PROVE  Shows("BGR565", pixel, c)
  <1> DEFINE x == Scaled(c.B, 5)
             y == Scaled(c.G, 6)
             z == Scaled(c.R, 5)
             val == x * Pow(11) + y * Pow(5) + z
  <1>1. /\ x \in 0..(Pow(5) - 1) /\ y \in 0..(Pow(6) - 1) /\ z \in 0..(Pow(5) - 1)
        /\ x = Top(c.B, 5) /\ y = Top(c.G, 6) /\ z = Top(c.R, 5)
    BY Tops DEF Colours
  <1>2. x \in Nat /\ y \in Nat /\ z \in Nat
    BY <1>1, PowValues
  <1>3. fill_MPP_FMT_BGR565(c) = Bytes2(val)
    <2> HIDE DEF x, y, z
    <2>1. val = z + y * 2^5 + x * 2^11
      BY <1>2, PowValues, Powers
    <2> QED BY <2>1, <1>1 DEF fill_MPP_FMT_BGR565
  <1>4. /\ Begins(pixel, Stored(16, val))
        /\ Three(val, x, y, z, 6, 5)
    BY <1>3 DEF Three, Stored
  <1> HIDE DEF x, y, z, val
  <1>5. Parts(16, 5, 6, 5, 0, 5, 11)
    BY DEF Parts
  <1>6. Shown(pixel, 0, 5, x) /\ Shown(pixel, 5, 6, y) /\ Shown(pixel, 11, 5, z)
    BY <1>1, <1>2, <1>4, <1>5, PackedShown
  <1>7. /\ Layout["BGR565"]["B"] = <<0, 5>> /\ Layout["BGR565"]["G"] = <<5, 6>>
        /\ Layout["BGR565"]["R"] = <<11, 5>>
    BY DEF Layout
  <1> QED BY <1>6, <1>7, ShowsIf DEF x, y, z

LEMMA RGB555Shown ==
    ASSUME NEW c \in Colours, NEW pixel, Begins(pixel, fill_MPP_FMT_RGB555(c))
    PROVE  Shows("RGB555", pixel, c)
  <1> DEFINE x == Scaled(c.R, 5)
             y == Scaled(c.G, 5)
             z == Scaled(c.B, 5)
             val == x * Pow(10) + y * Pow(5) + z
  <1>1. /\ x \in 0..(Pow(5) - 1) /\ y \in 0..(Pow(5) - 1) /\ z \in 0..(Pow(5) - 1)
        /\ x = Top(c.R, 5) /\ y = Top(c.G, 5) /\ z = Top(c.B, 5)
    BY Tops DEF Colours
  <1>2. x \in Nat /\ y \in Nat /\ z \in Nat
    BY <1>1, PowValues
  <1>3. fill_MPP_FMT_RGB555(c) = Bytes2(val)
    <2> HIDE DEF x, y, z
    <2>1. val = x * 2^10 + y * 2^5 + z
      BY <1>2, PowValues, Powers
    <2> QED BY <2>1, <1>1 DEF fill_MPP_FMT_RGB555
  <1>4. /\ Begins(pixel, Stored(16, val))
        /\ Three(val, x, y, z, 5, 5)
    BY <1>3 DEF Three, Stored
  <1> HIDE DEF x, y, z, val
  <1>5. Parts(16, 5, 5, 5, 1, 6, 11)
    BY DEF Parts
  <1>6. Shown(pixel, 1, 5, x) /\ Shown(pixel, 6, 5, y) /\ Shown(pixel, 11, 5, z)
    BY <1>1, <1>2, <1>4, <1>5, PackedShown
  <1>7. /\ Layout["RGB555"]["R"] = <<1, 5>> /\ Layout["RGB555"]["G"] = <<6, 5>>
        /\ Layout["RGB555"]["B"] = <<11, 5>>
    BY DEF Layout
  <1> QED BY <1>6, <1>7, ShowsIf DEF x, y, z

LEMMA BGR555Shown ==
    ASSUME NEW c \in Colours, NEW pixel, Begins(pixel, fill_MPP_FMT_BGR555(c))
    PROVE  Shows("BGR555", pixel, c)
  <1> DEFINE x == Scaled(c.B, 5)
             y == Scaled(c.G, 5)
             z == Scaled(c.R, 5)
             val == x * Pow(10) + y * Pow(5) + z
  <1>1. /\ x \in 0..(Pow(5) - 1) /\ y \in 0..(Pow(5) - 1) /\ z \in 0..(Pow(5) - 1)
        /\ x = Top(c.B, 5) /\ y = Top(c.G, 5) /\ z = Top(c.R, 5)
    BY Tops DEF Colours
  <1>2. x \in Nat /\ y \in Nat /\ z \in Nat
    BY <1>1, PowValues
  <1>3. fill_MPP_FMT_BGR555(c) = Bytes2(val)
    <2> HIDE DEF x, y, z
    <2>1. val = z + y * 2^5 + x * 2^10
      BY <1>2, PowValues, Powers
    <2> QED BY <2>1, <1>1 DEF fill_MPP_FMT_BGR555
  <1>4. /\ Begins(pixel, Stored(16, val))
        /\ Three(val, x, y, z, 5, 5)
    BY <1>3 DEF Three, Stored
  <1> HIDE DEF x, y, z, val
  <1>5. Parts(16, 5, 5, 5, 1, 6, 11)
    BY DEF Parts
  <1>6. Shown(pixel, 1, 5, x) /\ Shown(pixel, 6, 5, y) /\ Shown(pixel, 11, 5, z)
    BY <1>1, <1>2, <1>4, <1>5, PackedShown
  <1>7. /\ Layout["BGR555"]["B"] = <<1, 5>> /\ Layout["BGR555"]["G"] = <<6, 5>>
        /\ Layout["BGR555"]["R"] = <<11, 5>>
    BY DEF Layout
  <1> QED BY <1>6, <1>7, ShowsIf DEF x, y, z

LEMMA RGB444Shown ==
    ASSUME NEW c \in Colours, NEW pixel, Begins(pixel, fill_MPP_FMT_RGB444(c))
    PROVE  Shows("RGB444", pixel, c)
  <1> DEFINE x == Scaled(c.R, 4)
             y == Scaled(c.G, 4)
             z == Scaled(c.B, 4)
             val == x * Pow(8) + y * Pow(4) + z
  <1>1. /\ x \in 0..(Pow(4) - 1) /\ y \in 0..(Pow(4) - 1) /\ z \in 0..(Pow(4) - 1)
        /\ x = Top(c.R, 4) /\ y = Top(c.G, 4) /\ z = Top(c.B, 4)
    BY Tops DEF Colours
  <1>2. x \in Nat /\ y \in Nat /\ z \in Nat
    BY <1>1, PowValues
  <1>3. fill_MPP_FMT_RGB444(c) = Bytes2(val)
    <2> HIDE DEF x, y, z
    <2>1. val = x * 2^8 + y * 2^4 + z
      BY <1>2, PowValues, Powers
    <2> QED BY <2>1, <1>1 DEF fill_MPP_FMT_RGB444
  <1>4. /\ Begins(pixel, Stored(16, val))
        /\ Three(val, x, y, z, 4, 4)
    BY <1>3 DEF Three, Stored
  <1> HIDE DEF x, y, z, val
  <1>5. Parts(16, 4, 4, 4, 4, 8, 12)
    BY DEF Parts
  <1>6. Shown(pixel, 4, 4, x) /\ Shown(pixel, 8, 4, y) /\ Shown(pixel, 12, 4, z)
    BY <1>1, <1>2, <1>4, <1>5, PackedShown
  <1>7. /\ Layout["RGB444"]["R"] = <<4, 4>> /\ Layout["RGB444"]["G"] = <<8, 4>>
        /\ Layout["RGB444"]["B"] = <<12, 4>>
    BY DEF Layout
  <1> QED BY <1>6, <1>7, ShowsIf DEF x, y, z

LEMMA BGR444Shown ==
    ASSUME NEW c \in Colours, NEW pixel, Begins(pixel, fill_MPP_FMT_BGR444(c))
    PROVE  Shows("BGR444", pixel, c)
  <1> DEFINE x == Scaled(c.B, 4)
             y == Scaled(c.G, 4)
             z == Scaled(c.R, 4)
             val == x * Pow(8) + y * Pow(4) + z
  <1>1. /\ x \in 0..(Pow(4) - 1) /\ y \in 0..(Pow(4) - 1) /\ z \in 0..(Pow(4) - 1)
        /\ x = Top(c.B, 4) /\ y = Top(c.G, 4) /\ z = Top(c.R, 4)
    BY Tops DEF Colours
  <1>2. x \in Nat /\ y \in Nat /\ z \in Nat
    BY <1>1, PowValues
  <1>3. fill_MPP_FMT_BGR444(c) = Bytes2(val)
    <2> HIDE DEF x, y, z
    <2>1. val = z + y * 2^4 + x * 2^8
      BY <1>2, PowValues, Powers
    <2> QED BY <2>1, <1>1 DEF fill_MPP_FMT_BGR444
  <1>4. /\ Begins(pixel, Stored(16, val))
        /\ Three(val, x, y, z, 4, 4)
    BY <1>3 DEF Three, Stored
  <1> HIDE DEF x, y, z, val
  <1>5. Parts(16, 4, 4, 4, 4, 8, 12)
    BY DEF Parts
  <1>6. Shown(pixel, 4, 4, x) /\ Shown(pixel, 8, 4, y) /\ Shown(pixel, 12, 4, z)
    BY <1>1, <1>2, <1>4, <1>5, PackedShown
  <1>7. /\ Layout["BGR444"]["B"] = <<4, 4>> /\ Layout["BGR444"]["G"] = <<8, 4>>
        /\ Layout["BGR444"]["R"] = <<12, 4>>
    BY DEF Layout
  <1> QED BY <1>6, <1>7, ShowsIf DEF x, y, z

LEMMA RGB101010Shown ==
    ASSUME NEW c \in Colours, NEW pixel, Begins(pixel, fill_MPP_FMT_RGB101010(c))
    PROVE  Shows("RGB101010", pixel, c)
  <1> DEFINE x == Scaled(c.R, 10)
             y == Scaled(c.G, 10)
             z == Scaled(c.B, 10)
             val == x * Pow(20) + y * Pow(10) + z
  <1>1. /\ x \in 0..(Pow(10) - 1) /\ y \in 0..(Pow(10) - 1) /\ z \in 0..(Pow(10) - 1)
        /\ x = c.R * 4 /\ y = c.G * 4 /\ z = c.B * 4
    BY Tops DEF Colours
  <1>2. x \in Nat /\ y \in Nat /\ z \in Nat
    BY <1>1, PowValues
  <1>3. fill_MPP_FMT_RGB101010(c) = Bytes4(val)
    <2> HIDE DEF x, y, z
    <2>1. val = x * 2^20 + y * 2^10 + z
      BY <1>2, PowValues, Powers
    <2> QED BY <2>1, <1>1 DEF fill_MPP_FMT_RGB101010
  <1>4. /\ Begins(pixel, Stored(32, val))
        /\ Three(val, x, y, z, 10, 10)
    BY <1>3 DEF Three, Stored
  <1> HIDE DEF x, y, z, val
  <1>5. Parts(32, 10, 10, 10, 2, 12, 22)
    BY DEF Parts
  <1>6. Shown(pixel, 2, 10, x) /\ Shown(pixel, 12, 10, y) /\ Shown(pixel, 22, 10, z)
    BY <1>1, <1>2, <1>4, <1>5, PackedShown
  <1>7. /\ Layout["RGB101010"]["R"] = <<2, 10>> /\ Layout["RGB101010"]["G"] = <<12, 10>>
        /\ Layout["RGB101010"]["B"] = <<22, 10>>
    BY DEF Layout
  <1> QED BY <1>6, <1>7, ShowsIf DEF x, y, z

LEMMA BGR101010Shown ==
    ASSUME NEW c \in Colours, NEW pixel, Begins(pixel, fill_MPP_FMT_BGR101010(c))
    PROVE  Shows("BGR101010", pixel, c)
  <1> DEFINE x == Scaled(c.B, 10)
             y == Scaled(c.G, 10)
             z == Scaled(c.R, 10)
             val == x * Pow(20) + y * Pow(10) + z
  <1>1. /\ x \in 0..(Pow(10) - 1) /\ y \in 0..(Pow(10) - 1) /\ z \in 0..(Pow(10) - 1)
        /\ x = c.B * 4 /\ y = c.G * 4 /\ z = c.R * 4
    BY Tops DEF Colours
  <1>2. x \in Nat /\ y \in Nat /\ z \in Nat
    BY <1>1, PowValues
  <1>3. fill_MPP_FMT_BGR101010(c) = Bytes4(val)
    <2> HIDE DEF x, y, z
    <2>1. val = z + y * 2^10 + x * 2^20
      BY <1>2, PowValues, Powers
    <2> QED BY <2>1, <1>1 DEF fill_MPP_FMT_BGR101010
  <1>4. /\ Begins(pixel, Stored(32, val))
        /\ Three(val, x, y, z, 10, 10)
    BY <1>3 DEF Three, Stored
  <1> HIDE DEF x, y, z, val
  <1>5. Parts(32, 10, 10, 10, 2, 12, 22)
    BY DEF Parts
  <1>6. Shown(pixel, 2, 10, x) /\ Shown(pixel, 12, 10, y) /\ Shown(pixel, 22, 10, z)
    BY <1>1, <1>2, <1>4, <1>5, PackedShown
  <1>7. /\ Layout["BGR101010"]["B"] = <<2, 10>> /\ Layout["BGR101010"]["G"] = <<12, 10>>
        /\ Layout["BGR101010"]["R"] = <<22, 10>>
    BY DEF Layout
  <1> QED BY <1>6, <1>7, ShowsIf DEF x, y, z

LEMMA ARGB8888Shown ==
    ASSUME NEW c \in Colours, NEW pixel, Begins(pixel, fill_MPP_FMT_ARGB8888(c))
    PROVE  Shows("ARGB8888", pixel, c)
  <1>1. pixel[2] = c.R /\ pixel[3] = c.G /\ pixel[4] = c.B
    BY DEF Begins, fill_MPP_FMT_ARGB8888
  <1>2. Scaled(c.R, 8) = c.R /\ Scaled(c.G, 8) = c.G /\ Scaled(c.B, 8) = c.B
    BY Tops DEF Colours
  <1>3. Shown(pixel, 8, 8, c.R) /\ Shown(pixel, 16, 8, c.G) /\ Shown(pixel, 24, 8, c.B)
    BY <1>1, ByteShown
  <1>4. /\ Layout["ARGB8888"]["R"] = <<8, 8>> /\ Layout["ARGB8888"]["G"] = <<16, 8>>
        /\ Layout["ARGB8888"]["B"] = <<24, 8>>
    BY DEF Layout
  <1> QED BY <1>2, <1>3, <1>4, ShowsIf

LEMMA ABGR8888Shown ==
    ASSUME NEW c \in Colours, NEW pixel, Begins(pixel, fill_MPP_FMT_ABGR8888(c))
    PROVE  Shows("ABGR8888", pixel, c)
  <1>1. pixel[4] = c.R /\ pixel[3] = c.G /\ pixel[2] = c.B
    BY DEF Begins, fill_MPP_FMT_ABGR8888
  <1>2. Scaled(c.R, 8) = c.R /\ Scaled(c.G, 8) = c.G /\ Scaled(c.B, 8) = c.B
    BY Tops DEF Colours
  <1>3. Shown(pixel, 24, 8, c.R) /\ Shown(pixel, 16, 8, c.G) /\ Shown(pixel, 8, 8, c.B)
    BY <1>1, ByteShown
  <1>4. /\ Layout["ABGR8888"]["R"] = <<24, 8>> /\ Layout["ABGR8888"]["G"] = <<16, 8>>
        /\ Layout["ABGR8888"]["B"] = <<8, 8>>
    BY DEF Layout
  <1> QED BY <1>2, <1>3, <1>4, ShowsIf

LEMMA BGRA8888Shown ==
    ASSUME NEW c \in Colours, NEW pixel, Begins(pixel, fill_MPP_FMT_BGRA8888(c))
    PROVE  Shows("BGRA8888", pixel, c)
  <1>1. pixel[3] = c.R /\ pixel[2] = c.G /\ pixel[1] = c.B
    BY DEF Begins, fill_MPP_FMT_BGRA8888
  <1>2. Scaled(c.R, 8) = c.R /\ Scaled(c.G, 8) = c.G /\ Scaled(c.B, 8) = c.B
    BY Tops DEF Colours
  <1>3. Shown(pixel, 16, 8, c.R) /\ Shown(pixel, 8, 8, c.G) /\ Shown(pixel, 0, 8, c.B)
    BY <1>1, ByteShown
  <1>4. /\ Layout["BGRA8888"]["R"] = <<16, 8>> /\ Layout["BGRA8888"]["G"] = <<8, 8>>
        /\ Layout["BGRA8888"]["B"] = <<0, 8>>
    BY DEF Layout
  <1> QED BY <1>2, <1>3, <1>4, ShowsIf

LEMMA RGBA8888Shown ==
    ASSUME NEW c \in Colours, NEW pixel, Begins(pixel, fill_MPP_FMT_RGBA8888(c))
    PROVE  Shows("RGBA8888", pixel, c)
  <1>1. pixel[1] = c.R /\ pixel[2] = c.G /\ pixel[3] = c.B
    BY DEF Begins, fill_MPP_FMT_RGBA8888
  <1>2. Scaled(c.R, 8) = c.R /\ Scaled(c.G, 8) = c.G /\ Scaled(c.B, 8) = c.B
    BY Tops DEF Colours
  <1>3. Shown(pixel, 0, 8, c.R) /\ Shown(pixel, 8, 8, c.G) /\ Shown(pixel, 16, 8, c.B)
    BY <1>1, ByteShown
  <1>4. /\ Layout["RGBA8888"]["R"] = <<0, 8>> /\ Layout["RGBA8888"]["G"] = <<8, 8>>
        /\ Layout["RGBA8888"]["B"] = <<16, 8>>
    BY DEF Layout
  <1> QED BY <1>2, <1>3, <1>4, ShowsIf

-----------------------------------------------------------------------------
(* Painting.                                                               *)

LEMMA AtPlace ==
    ASSUME NEW p \in Planes
    PROVE  \A x \in Nat, y \in Nat : At(p, x, y) \in Nat
  <1> SUFFICES ASSUME NEW x \in Nat, NEW y \in Nat
               PROVE  At(p, x, y) \in Nat
    OBVIOUS
  <1>1. p.base \in Nat /\ p.pitch \in Nat /\ p.step \in Nat
    BY DEF Planes
  <1>2. y * p.pitch \in Nat /\ x * p.step \in Nat
    BY <1>1
  <1> QED BY <1>1, <1>2 DEF At

LEMMA CellsAre ==
    ASSUME NEW p \in Planes
    PROVE  /\ p.cols \in Nat /\ p.rows \in Nat
           /\ Cells(p) = (0..(p.cols - 1)) \X (0..(p.rows - 1))
           /\ \A c \in Cells(p) : /\ c[1] \in 0..(p.cols - 1) /\ c[2] \in 0..(p.rows - 1)
                                  /\ c = <<c[1], c[2]>>
           /\ \A x \in 0..(p.cols - 1), y \in 0..(p.rows - 1) : <<x, y>> \in Cells(p)
  BY DEF Planes, Cells

(* What is painted is bytes at addresses.                                  *)
LEMMA PaintedMemory ==
    ASSUME NEW p \in Planes, NEW v \in [Cells(p) -> Byte]
    PROVE  Painted(p, v) \in Memories
  <1> DEFINE D == {At(p, c[1], c[2]) : c \in Cells(p)}
             here(a) == {c \in Cells(p) : At(p, c[1], c[2]) = a}
             top(a) == CHOOSE c \in here(a) : \A d \in here(a) : d[2] <= c[2]
  <1>1. D \in SUBSET Nat
    <2>1. \A c \in Cells(p) : c[1] \in Nat /\ c[2] \in Nat
      BY CellsAre
    <2> QED BY <2>1, AtPlace
  <1>2. ASSUME NEW a \in D
        PROVE  v[top(a)] \in Byte
    <2> DEFINE H == here(a)
               R == {c[2] : c \in H}
    <2>1. PICK e \in Cells(p) : At(p, e[1], e[2]) = a
      OBVIOUS
    <2>2. e \in H /\ H \subseteq Cells(p)
      BY <2>1
    <2>3. p.rows - 1 \in Nat /\ R \in SUBSET (0..(p.rows - 1)) /\ R # {}
      <3>1. \A c \in H : c[2] \in 0..(p.rows - 1)
        BY <2>2, CellsAre
      <3>2. e[2] \in R
        BY <2>2
      <3> QED BY <3>1, <3>2, CellsAre
    <2> HIDE DEF H
    <2>4. PICK y \in R : \A z \in R : z <= y
      BY <2>3, GreatestOf
    <2>5. PICK c \in H : c[2] = y
      OBVIOUS
    <2>6. \A d \in H : d[2] <= c[2]
      BY <2>4, <2>5
    <2>7. (CHOOSE b \in H : \A d \in H : d[2] <= b[2]) \in H
      BY <2>5, <2>6
    <2>8. top(a) \in H
      BY <2>7 DEF H
    <2>9. top(a) \in Cells(p)
      BY <2>2, <2>8
    <2> QED BY <2>9
  <1>3. Painted(p, v) = [a \in D |-> v[top(a)]]
    BY DEF Painted
  <1> HIDE DEF D, top
  <1>4. Painted(p, v) \in [D -> Byte]
    BY <1>2, <1>3
  <1> QED BY <1>1, <1>4 DEF Memories

(* Rows that do not overlap keep every value.                              *)
LEMMA PaintedAt ==
    ASSUME NEW p \in Planes, p.step = 1, p.cols <= p.pitch, NEW v,
           NEW x \in 0..(p.cols - 1), NEW y \in 0..(p.rows - 1)
    PROVE  /\ At(p, x, y) \in DOMAIN Painted(p, v)
           /\ Painted(p, v)[At(p, x, y)] = v[<<x, y>>]
  <1> DEFINE a == At(p, x, y)
             D == {At(p, c[1], c[2]) : c \in Cells(p)}
             here(b) == {c \in Cells(p) : At(p, c[1], c[2]) = b}
             top(b) == CHOOSE c \in here(b) : \A d \in here(b) : d[2] <= c[2]
             cell == <<x, y>>
  <1>1. cell \in Cells(p) /\ cell[1] = x /\ cell[2] = y
    BY CellsAre
  <1>2. here(a) = {cell}
    <2>1. ASSUME NEW c \in Cells(p), At(p, c[1], c[2]) = a
          PROVE  c = cell
      <3> DEFINE u == c[1]
                 w == c[2]
      <3>1. u \in 0..(p.cols - 1) /\ w \in 0..(p.rows - 1) /\ c = <<u, w>>
        BY CellsAre
      <3>2. p.base \in Nat /\ p.pitch \in Nat /\ p.cols \in Nat /\ p.rows \in Nat
        BY DEF Planes
      <3>3. p.base + w * p.pitch + u * p.step = p.base + y * p.pitch + x * p.step
        BY <2>1 DEF At
      <3> HIDE DEF u, w
      <3>4. w * p.pitch \in Nat /\ y * p.pitch \in Nat /\ u * p.step = u /\ x * p.step = x
        BY <3>1, <3>2
      <3>5. w * p.pitch + u = y * p.pitch + x
        BY <3>1, <3>2, <3>3, <3>4
      <3>6. /\ u \in 0..(p.pitch - 1) /\ x \in 0..(p.pitch - 1) /\ w \in Nat /\ y \in Nat
        BY <3>1, <3>2
      <3>7. u = x /\ w = y
        BY <3>2, <3>5, <3>6, OnePlace
      <3> QED BY <3>1, <3>7
    <2> QED BY <2>1, <1>1
  <1>3. top(a) = cell
    <2>1. cell[2] <= cell[2]
      BY <1>1, CellsAre
    <2> DEFINE H == here(a)
    <2>2. H = {cell}
      BY <1>2
    <2> HIDE DEF H, cell
    <2>3. (CHOOSE c \in H : \A d \in H : d[2] <= c[2]) = cell
      BY <2>1, <2>2
    <2> QED BY <2>3 DEF H
  <1>4. a \in D
    BY <1>1
  <1>5. Painted(p, v) = [b \in D |-> v[top(b)]]
    BY DEF Painted
  <1> HIDE DEF D, top, a
  <1>6. a \in DOMAIN Painted(p, v) /\ Painted(p, v)[a] = v[top(a)]
    BY <1>4, <1>5
  <1> QED BY <1>3, <1>6 DEF a

LEMMA AlignGrows ==
    ASSUME NEW x \in Nat, NEW a \in Nat \ {0}
    PROVE  MPP_ALIGN(x, a) \in Nat /\ MPP_ALIGN(x, a) >= x
  <1> DEFINE n == x + a - 1
             q == n \div a
             r == n % a
  <1>1. n \in Nat
    OBVIOUS
  <1> HIDE DEF n
  <1>2. q \in Nat /\ r \in 0..(a - 1) /\ n = q * a + r
    BY <1>1, RowAndColumn
  <1>3. MPP_ALIGN(x, a) = q * a
    BY DEF MPP_ALIGN, n
  <1> HIDE DEF q, r
  <1>4. q * a \in Nat
    BY <1>2
  <1> QED BY <1>2, <1>3, <1>4 DEF n

-----------------------------------------------------------------------------
(* Colours.                                                                *)
LEMMA ColoursAre ==
    ASSUME NEW x, NEW y, NEW n
    PROVE  x \in Nat /\ y \in Nat /\ n \in Nat => get_rgb_color(x, y, n) \in Colours
  <1> SUFFICES ASSUME x \in Nat, y \in Nat, n \in Nat
               PROVE  get_rgb_color(x, y, n) \in Colours
    OBVIOUS
  <1>1. 0 \in Byte /\ 255 \in Byte
    BY DEF Byte
  <1>2. \A r, g, b \in Byte : Colour(r, g, b) \in Colours
    BY DEF Colour, Colours
  <1>3. \A i \in Int : MPP_CLIP3(0, 255, i) \in Byte
    BY DEF MPP_CLIP3, Byte
  <1>4. ColourBar(x, y, n) \in Colours
    <2> DEFINE Y  == RK_U8(x + y + n * 3)
               dU == RK_U8(128 + (y \div 2) + n * 2) - 128
               dV == RK_U8(64 + (x \div 2) + n * 5) - 128
    <2>1. Y \in Int /\ dU \in Int /\ dV \in Int
      BY DEF RK_U8
    <2>2. ColourBar(x, y, n) = Colour(MPP_CLIP3(0, 255, Y + (360 * dV) \div 256),
                                      MPP_CLIP3(0, 255, Y - (88 * dU + 184 * dV) \div 256),
                                      MPP_CLIP3(0, 255, Y + (455 * dU) \div 256))
      BY DEF ColourBar
    <2> HIDE DEF Y, dU, dV
    <2>3. /\ Y + (360 * dV) \div 256 \in Int /\ Y - (88 * dU + 184 * dV) \div 256 \in Int
          /\ Y + (455 * dU) \div 256 \in Int
      BY <2>1
    <2> QED BY <2>2, <2>3, <1>2, <1>3
  <1> QED BY <1>1, <1>2, <1>4 DEF get_rgb_color

(* The formats fill_rgb paints.                                            *)
Rgb == Rgb16 \cup Rgb32

(* A pixel of so many bytes whose layout shows a colour.                   *)
PixelOf(fmt, bytes, c) ==
    /\ DOMAIN bytes = 1..pix_w(fmt) /\ \A i \in 1..pix_w(fmt) : bytes[i] \in Byte
    /\ \A pixel : Begins(pixel, bytes) => Shows(fmt, pixel, c)

LEMMA TwoAre == ASSUME NEW val \in Nat
                PROVE  DOMAIN Bytes2(val) = 1..2 /\ \A i \in 1..2 : Bytes2(val)[i] \in Byte
  <1>1. (val \div 2^8) % 256 \in 0..255 /\ val % 256 \in 0..255
    BY Powers
  <1> QED BY <1>1 DEF Bytes2, Byte

LEMMA FourAre == ASSUME NEW val \in Nat
                 PROVE  DOMAIN Bytes4(val) = 1..4 /\ \A i \in 1..4 : Bytes4(val)[i] \in Byte
  <1>1. /\ (val \div 2^24) % 256 \in 0..255 /\ (val \div 2^16) % 256 \in 0..255
        /\ (val \div 2^8) % 256 \in 0..255 /\ val % 256 \in 0..255
    BY Powers
  <1> QED BY <1>1, SMTT(30) DEF Bytes4, Bytes2, Byte

LEMMA TopNat == ASSUME NEW c \in Byte
                PROVE  Top(c, 4) \in Nat /\ Top(c, 5) \in Nat /\ Top(c, 6) \in Nat /\ c * 4 \in Nat
  BY Tops DEF Byte

(* Every function of the table stores a pixel as it documents.             *)
LEMMA FunctionsShow ==
    ASSUME NEW c \in Colours
    PROVE  /\ PixelOf("RGB565", fill_MPP_FMT_RGB565(c), c)
           /\ PixelOf("BGR565", fill_MPP_FMT_BGR565(c), c)
           /\ PixelOf("RGB555", fill_MPP_FMT_RGB555(c), c)
           /\ PixelOf("BGR555", fill_MPP_FMT_BGR555(c), c)
           /\ PixelOf("RGB444", fill_MPP_FMT_RGB444(c), c)
           /\ PixelOf("BGR444", fill_MPP_FMT_BGR444(c), c)
           /\ PixelOf("RGB101010", fill_MPP_FMT_RGB101010(c), c)
           /\ PixelOf("BGR101010", fill_MPP_FMT_BGR101010(c), c)
           /\ PixelOf("ARGB8888", fill_MPP_FMT_ARGB8888(c), c)
           /\ PixelOf("ABGR8888", fill_MPP_FMT_ABGR8888(c), c)
           /\ PixelOf("BGRA8888", fill_MPP_FMT_BGRA8888(c), c)
           /\ PixelOf("RGBA8888", fill_MPP_FMT_RGBA8888(c), c)
  <1>1. c.R \in Byte /\ c.G \in Byte /\ c.B \in Byte
    BY DEF Colours
  <1>2. pix_w("RGB565") = 2 /\ pix_w("BGR565") = 2 /\ pix_w("RGB555") = 2
        /\ pix_w("BGR555") = 2 /\ pix_w("RGB444") = 2 /\ pix_w("BGR444") = 2
    BY DEF pix_w, Rgb16
  <1>3. pix_w("RGB101010") = 4 /\ pix_w("BGR101010") = 4 /\ pix_w("ARGB8888") = 4
        /\ pix_w("ABGR8888") = 4 /\ pix_w("BGRA8888") = 4 /\ pix_w("RGBA8888") = 4
    BY DEF pix_w, Rgb16
  <1>4. ASSUME NEW t, \E val \in Nat : t = Bytes2(val)
        PROVE  DOMAIN t = 1..2 /\ \A i \in 1..2 : t[i] \in Byte
    BY <1>4, TwoAre
  <1>5. ASSUME NEW t, \E val \in Nat : t = Bytes4(val)
        PROVE  DOMAIN t = 1..4 /\ \A i \in 1..4 : t[i] \in Byte
    BY <1>5, FourAre
  <1> DEFINE x == Top(c.R, 5)
             y == Top(c.G, 6)
             z == Top(c.B, 5)
             u == Top(c.G, 5)
             r == Top(c.R, 4)
             g == Top(c.G, 4)
             b == Top(c.B, 4)
             X == c.R * 4
             Y == c.G * 4
             Z == c.B * 4
  <1>6. /\ x \in Nat /\ y \in Nat /\ z \in Nat /\ u \in Nat /\ r \in Nat /\ g \in Nat /\ b \in Nat
        /\ X \in Nat /\ Y \in Nat /\ Z \in Nat
    BY <1>1, TopNat
  <1>7. /\ x * 2^11 + y * 2^5 + z \in Nat /\ x + y * 2^5 + z * 2^11 \in Nat
        /\ x * 2^10 + u * 2^5 + z \in Nat /\ x + u * 2^5 + z * 2^10 \in Nat
        /\ r * 2^8 + g * 2^4 + b \in Nat /\ r + g * 2^4 + b * 2^8 \in Nat
        /\ X * 2^20 + Y * 2^10 + Z \in Nat /\ X + Y * 2^10 + Z * 2^20 \in Nat
    <2> HIDE DEF x, y, z, u, r, g, b, X, Y, Z
    <2> QED BY <1>6, Powers
  <1>8. PixelOf("RGB565", fill_MPP_FMT_RGB565(c), c)
    <2>1. \E val \in Nat : fill_MPP_FMT_RGB565(c) = Bytes2(val)
      BY <1>7 DEF fill_MPP_FMT_RGB565
    <2> QED BY <2>1, <1>2, <1>4, RGB565Shown DEF PixelOf
  <1>9. PixelOf("BGR565", fill_MPP_FMT_BGR565(c), c)
    <2>1. \E val \in Nat : fill_MPP_FMT_BGR565(c) = Bytes2(val)
      BY <1>7 DEF fill_MPP_FMT_BGR565
    <2> QED BY <2>1, <1>2, <1>4, BGR565Shown DEF PixelOf
  <1>10. PixelOf("RGB555", fill_MPP_FMT_RGB555(c), c)
    <2>1. \E val \in Nat : fill_MPP_FMT_RGB555(c) = Bytes2(val)
      BY <1>7 DEF fill_MPP_FMT_RGB555
    <2> QED BY <2>1, <1>2, <1>4, RGB555Shown DEF PixelOf
  <1>11. PixelOf("BGR555", fill_MPP_FMT_BGR555(c), c)
    <2>1. \E val \in Nat : fill_MPP_FMT_BGR555(c) = Bytes2(val)
      BY <1>7 DEF fill_MPP_FMT_BGR555
    <2> QED BY <2>1, <1>2, <1>4, BGR555Shown DEF PixelOf
  <1>12. PixelOf("RGB444", fill_MPP_FMT_RGB444(c), c)
    <2>1. \E val \in Nat : fill_MPP_FMT_RGB444(c) = Bytes2(val)
      BY <1>7 DEF fill_MPP_FMT_RGB444
    <2> QED BY <2>1, <1>2, <1>4, RGB444Shown DEF PixelOf
  <1>13. PixelOf("BGR444", fill_MPP_FMT_BGR444(c), c)
    <2>1. \E val \in Nat : fill_MPP_FMT_BGR444(c) = Bytes2(val)
      BY <1>7 DEF fill_MPP_FMT_BGR444
    <2> QED BY <2>1, <1>2, <1>4, BGR444Shown DEF PixelOf
  <1>14. PixelOf("RGB101010", fill_MPP_FMT_RGB101010(c), c)
    <2>1. \E val \in Nat : fill_MPP_FMT_RGB101010(c) = Bytes4(val)
      BY <1>7 DEF fill_MPP_FMT_RGB101010
    <2> QED BY <2>1, <1>3, <1>5, RGB101010Shown DEF PixelOf
  <1>15. PixelOf("BGR101010", fill_MPP_FMT_BGR101010(c), c)
    <2>1. \E val \in Nat : fill_MPP_FMT_BGR101010(c) = Bytes4(val)
      BY <1>7 DEF fill_MPP_FMT_BGR101010
    <2> QED BY <2>1, <1>3, <1>5, BGR101010Shown DEF PixelOf
  <1>16. \A a \in Byte, d \in Byte, e \in Byte, f \in Byte :
             /\ DOMAIN <<a, d, e, f>> = 1..4
             /\ \A i \in 1..4 : <<a, d, e, f>>[i] \in Byte
    OBVIOUS
  <1>17. 255 \in Byte
    BY DEF Byte
  <1>18. PixelOf("ARGB8888", fill_MPP_FMT_ARGB8888(c), c)
    BY <1>1, <1>3, <1>16, <1>17, ARGB8888Shown DEF PixelOf, fill_MPP_FMT_ARGB8888
  <1>19. PixelOf("ABGR8888", fill_MPP_FMT_ABGR8888(c), c)
    BY <1>1, <1>3, <1>16, <1>17, ABGR8888Shown DEF PixelOf, fill_MPP_FMT_ABGR8888
  <1>20. PixelOf("BGRA8888", fill_MPP_FMT_BGRA8888(c), c)
    BY <1>1, <1>3, <1>16, <1>17, BGRA8888Shown DEF PixelOf, fill_MPP_FMT_BGRA8888
  <1>21. PixelOf("RGBA8888", fill_MPP_FMT_RGBA8888(c), c)
    BY <1>1, <1>3, <1>16, <1>17, RGBA8888Shown DEF PixelOf, fill_MPP_FMT_RGBA8888
  <1> QED BY <1>8, <1>9, <1>10, <1>11, <1>12, <1>13, <1>14, <1>15, <1>18, <1>19, <1>20, <1>21

(* The place of a format in the table of functions.                        *)
LEMMA PlacesOf ==
    /\ \A i \in 1..14 : MppFrameFormat[RgbFormats[i]] - MPP_FRAME_FMT_RGB = i - 1
    /\ \A f \in Rgb : \E i \in (1..14) \ {7, 8} : f = RgbFormats[i]
  <1>1. ASSUME NEW i \in 1..14
        PROVE  MppFrameFormat[RgbFormats[i]] - MPP_FRAME_FMT_RGB = i - 1
    <2>1. RgbFormats[i] \in DOMAIN Plain /\ Plain[RgbFormats[i]] = 65535 + i
      BY PlainNumbers
    <2>2. MppFrameFormat[RgbFormats[i]] = 65535 + i
      BY <2>1, FormatNumbers
    <2>3. MPP_FRAME_FMT_RGB = 65536
      BY Powers DEF MPP_FRAME_FMT_RGB
    <2> QED BY <2>2, <2>3
  <1>2. \A f \in Rgb : \E i \in (1..14) \ {7, 8} : f = RgbFormats[i]
    BY DEF Rgb, Rgb16, Rgb32, RgbFormats
  <1> QED BY <1>1, <1>2

LEMMA FormatShows ==
    ASSUME NEW fmt \in Rgb, NEW c \in Colours
    PROVE  PixelOf(fmt, fill_rgb_funcs(MppFrameFormat[fmt] - MPP_FRAME_FMT_RGB, c), c)
  <1>1. PICK i \in (1..14) \ {7, 8} : fmt = RgbFormats[i]
    BY PlacesOf
  <1>2. MppFrameFormat[fmt] - MPP_FRAME_FMT_RGB = i - 1
    BY <1>1, PlacesOf
  <1>3. PixelOf(RgbFormats[i], fill_rgb_funcs(i - 1, c), c)
    <2>1. i \in {1, 2, 3, 4, 5, 6, 9, 10, 11, 12, 13, 14}
      OBVIOUS
    <2>2. CASE i \in {1, 2, 3, 4}
      BY <2>2, FunctionsShow DEF fill_rgb_funcs, RgbFormats
    <2>3. CASE i \in {5, 6, 9, 10}
      BY <2>3, FunctionsShow DEF fill_rgb_funcs, RgbFormats
    <2>4. CASE i \in {11, 12, 13, 14}
      BY <2>4, FunctionsShow DEF fill_rgb_funcs, RgbFormats
    <2> QED BY <2>1, <2>2, <2>3, <2>4
  <1> QED BY <1>1, <1>2, <1>3

(* What is needed of a geometry to find a pixel.                           *)
GeometryAssumption(g) == /\ g.w \in Nat /\ g.h \in Nat /\ g.hs \in Nat /\ g.vs \in Nat /\ g.hs >= g.w

LEMMA GeometryIs == ASSUME NEW g \in Geometries PROVE GeometryAssumption(g)
  BY FrameAssumption DEF GeometryAssumption

(* The stride of a test picture, whatever the static flags say.            *)
LEMMA StrideIs ==
    ASSUME NEW fmt \in Rgb, NEW g \in Geometries
    PROVE  /\ pix_w(fmt) \in {2, 4}
           /\ byteStride(fmt, g) \in Nat
           /\ rgbStride(fmt, g) = MPP_ALIGN(byteStride(fmt, g), 8 * pix_w(fmt))
           /\ rgbStride(fmt, g) \in Nat /\ g.w * pix_w(fmt) <= rgbStride(fmt, g)
           /\ (is_pixel_stride => MeansPixels(fmt, g)) =>
                  byteStride(fmt, g) = IF MeansPixels(fmt, g) THEN g.hs * pix_w(fmt) ELSE g.hs
  <1> DEFINE size == pix_w(fmt)
             b == byteStride(fmt, g)
  <1>1. size \in {2, 4}
    BY DEF pix_w
  <1>2. g.w \in Nat /\ g.hs \in Nat /\ g.hs >= g.w
    BY GeometryIs DEF GeometryAssumption
  <1>3. b = IF byPixel(fmt, g) THEN g.hs * size ELSE g.hs
    BY DEF byteStride
  <1>4. byPixel(fmt, g) <=> (is_pixel_stride \/ MeansPixels(fmt, g))
    BY DEF byPixel, util_check_stride_by_pixel, MeansPixels
  <1>5. ~byPixel(fmt, g) => g.w * size <= g.hs
    <2>1. ~byPixel(fmt, g) => ~(g.hs < g.w * size)
      BY <1>4 DEF MeansPixels
    <2> QED BY <2>1, <1>1, <1>2
  <1> HIDE DEF size
  <1>6. b \in Nat /\ g.w * size <= b
    <2>1. CASE byPixel(fmt, g)
      <3>1. g.w * size <= g.hs * size /\ g.hs * size \in Nat
        BY <1>1, <1>2, TimesGrows
      <3> HIDE DEF b
      <3> QED BY <3>1, <2>1, <1>3
    <2>2. CASE ~byPixel(fmt, g)
      BY <2>2, <1>2, <1>3, <1>5
    <2> QED BY <2>1, <2>2
  <1>7. rgbStride(fmt, g) = MPP_ALIGN(b, 8 * size)
    BY DEF rgbStride, notAligned, util_check_8_pixel_aligned, size
  <1> HIDE DEF b
  <1>8. 8 * size \in Nat \ {0}
    BY <1>1
  <1>9. MPP_ALIGN(b, 8 * size) \in Nat /\ MPP_ALIGN(b, 8 * size) >= b
    BY <1>6, <1>8, AlignGrows
  <1>10. g.w * size \in Nat
    BY <1>1, <1>2
  <1>11. g.w * size <= rgbStride(fmt, g) /\ rgbStride(fmt, g) \in Nat
    BY <1>6, <1>7, <1>9, <1>10
  <1>12. (is_pixel_stride => MeansPixels(fmt, g)) => b = IF MeansPixels(fmt, g) THEN g.hs * size ELSE g.hs
    BY <1>3, <1>4
  <1> QED BY <1>1, <1>6, <1>7, <1>11, <1>12 DEF size, b

(* What fill_image writes of an RGB picture.                               *)
RgbPlane(fmt, g) == Plane(0, rgbStride(fmt, g), 1, g.w * pix_w(fmt), g.h)
RgbByte(fmt, n, c) ==
    fill_rgb_funcs(MppFrameFormat[fmt] - MPP_FRAME_FMT_RGB,
                   get_rgb_color(c[1] \div pix_w(fmt), c[2], n))[(c[1] % pix_w(fmt)) + 1]

LEMMA RgbIs ==
    ASSUME NEW fmt \in Rgb, NEW g \in Geometries, NEW n \in Nat
    PROVE  /\ fill_rgb(fmt, g, n)
                = Painted(RgbPlane(fmt, g), [c \in Cells(RgbPlane(fmt, g)) |-> RgbByte(fmt, n, c)])
           /\ RgbPlane(fmt, g) \in Planes
           /\ [c \in Cells(RgbPlane(fmt, g)) |-> RgbByte(fmt, n, c)] \in [Cells(RgbPlane(fmt, g)) -> Byte]
  <1> DEFINE size == pix_w(fmt)
             p == RgbPlane(fmt, g)
             v == [c \in Cells(p) |-> RgbByte(fmt, n, c)]
  <1>1. fill_rgb(fmt, g, n) = Painted(p, v)
    BY DEF fill_rgb, RgbPlane, RgbByte
  <1>2. p \in Planes
    <2>1. g.w \in Nat /\ g.h \in Nat /\ size \in Nat
      BY GeometryIs, StrideIs DEF GeometryAssumption
    <2>2. g.w * size \in Nat
      BY <2>1
    <2> QED BY <2>1, <2>2, StrideIs DEF Planes, Plane, RgbPlane
  <1>3. ASSUME NEW c \in Cells(p)
        PROVE  RgbByte(fmt, n, c) \in Byte
    <2> DEFINE x == c[1] \div size
               i == (c[1] % size) + 1
               colour == get_rgb_color(x, c[2], n)
    <2>1. size \in Nat \ {0} /\ c[1] \in Nat /\ c[2] \in Nat
      BY <1>2, CellsAre, StrideIs
    <2>2. x \in Nat /\ i \in 1..size
      <3> HIDE DEF size
      <3> QED BY <2>1
    <2>3. colour \in Colours
      BY <2>1, <2>2, ColoursAre
    <2> HIDE DEF x, i, colour
    <2>4. PixelOf(fmt, fill_rgb_funcs(MppFrameFormat[fmt] - MPP_FRAME_FMT_RGB, colour), colour)
      BY <2>3, FormatShows
    <2>5. fill_rgb_funcs(MppFrameFormat[fmt] - MPP_FRAME_FMT_RGB, colour)[i] \in Byte
      BY <2>2, <2>4 DEF PixelOf
    <2> QED BY <2>5 DEF RgbByte, x, i, colour
  <1> QED BY <1>1, <1>2, <1>3

(* Every pixel of it is where the stride puts it and shows its colour.     *)
LEMMA RgbShows ==
    ASSUME NEW fmt \in Rgb, NEW g \in Geometries, NEW n \in Nat,
           NEW x \in 0..(g.w - 1), NEW y \in 0..(g.h - 1), NEW hs, hs = rgbStride(fmt, g)
    PROVE  Shows(fmt, [i \in 1..pix_w(fmt) |->
                          ByteAt(fill_rgb(fmt, g, n), y * hs + x * pix_w(fmt) + i - 1)],
                 get_rgb_color(x, y, n))
  <1> DEFINE size == pix_w(fmt)
             p == RgbPlane(fmt, g)
             v == [c \in Cells(p) |-> RgbByte(fmt, n, c)]
             m == fill_rgb(fmt, g, n)
             colour == get_rgb_color(x, y, n)
             bytes == fill_rgb_funcs(MppFrameFormat[fmt] - MPP_FRAME_FMT_RGB, colour)
             pixel == [i \in 1..size |-> ByteAt(m, y * hs + x * size + i - 1)]
  <1>1. /\ g.w \in Nat /\ g.h \in Nat /\ size \in Nat \ {0} /\ hs \in Nat
        /\ g.w * size <= hs /\ x \in Nat /\ y \in Nat
    BY GeometryIs, StrideIs DEF GeometryAssumption
  <1>2. colour \in Colours
    BY <1>1, ColoursAre
  <1>3. PixelOf(fmt, bytes, colour)
    <2> HIDE DEF colour
    <2> QED BY <1>2, FormatShows
  <1>4. p \in Planes /\ m = Painted(p, v)
    BY RgbIs
  <1>5. p.base = 0 /\ p.pitch = hs /\ p.step = 1 /\ p.cols = g.w * size /\ p.rows = g.h
    BY DEF RgbPlane, Plane
  <1>6. ASSUME NEW i \in 1..size
        PROVE  ByteAt(m, y * hs + x * size + i - 1) = bytes[i]
    <2> DEFINE s == size
               col == x * s + (i - 1)
               a == y * hs + x * size + i - 1
    <2>1. s \in Nat \ {0} /\ i - 1 \in 0..(s - 1)
      BY <1>1
    <2>2. col \in Nat /\ col \div s = x /\ col % s = i - 1
      <3> DEFINE j == i - 1
      <3>1. j \in 0..(s - 1)
        BY <2>1
      <3> HIDE DEF s, j
      <3>2. x * s + j \in Nat /\ (x * s + j) \div s = x /\ (x * s + j) % s = j
        BY <3>1, <2>1, <1>1, PlaceOf
      <3> QED BY <3>2 DEF j
    <2>3. col \in 0..(p.cols - 1) /\ y \in 0..(p.rows - 1)
      <3>1. (x + 1) * s <= g.w * s
        BY <2>1, <1>1, TimesGrows
      <3>2. (x + 1) * s = x * s + s /\ g.w * s \in Nat
        BY <2>1, <1>1
      <3> HIDE DEF s
      <3>3. x * s \in Nat
        BY <2>1, <1>1
      <3>4. col < g.w * s
        BY <3>1, <3>2, <3>3, <2>1
      <3> HIDE DEF col
      <3>5. col \in 0..(g.w * s - 1)
        BY <3>2, <3>4, <2>2
      <3>6. p.cols = g.w * s
        BY <1>5 DEF s
      <3> QED BY <3>5, <3>6, <1>5
    <2>4. At(p, col, y) = a
      <3>1. At(p, col, y) = 0 + y * hs + col * 1
        BY <1>5 DEF At
      <3> DEFINE yh == y * hs
                 xs == x * s
      <3>2. yh \in Nat /\ xs \in Nat
        <4> HIDE DEF s
        <4> QED BY <2>1, <1>1
      <3>3. col = xs + (i - 1) /\ a = yh + xs + i - 1
        OBVIOUS
      <3> HIDE DEF yh, xs, col, a
      <3> QED BY <3>1, <3>2, <3>3, <2>1 DEF yh
    <2> HIDE DEF col, a
    <2>5. p.step = 1 /\ p.cols <= p.pitch
      BY <1>1, <1>5
    <2>6. /\ At(p, col, y) \in DOMAIN Painted(p, v)
          /\ Painted(p, v)[At(p, col, y)] = v[<<col, y>>]
      <3> HIDE DEF v, p
      <3> QED BY <1>4, <2>3, <2>5, PaintedAt
    <2>7. <<col, y>> \in Cells(p)
      <3> HIDE DEF p
      <3> QED BY <1>4, <2>3, CellsAre
    <2>8. v[<<col, y>>] = RgbByte(fmt, n, <<col, y>>)
      BY <2>7
    <2>9. RgbByte(fmt, n, <<col, y>>) = bytes[i]
      <3>1. (col % size) + 1 = i
        BY <2>1, <2>2
      <3> QED BY <2>2, <3>1 DEF RgbByte
    <2>10. ByteAt(m, a) = v[<<col, y>>]
      <3> HIDE DEF v, p
      <3> QED BY <1>4, <2>4, <2>6 DEF ByteAt
    <2> QED BY <2>8, <2>9, <2>10 DEF a
  <1>7. Begins(pixel, bytes)
    <2>1. DOMAIN bytes = 1..size
      BY <1>3 DEF PixelOf
    <2> HIDE DEF bytes, size
    <2> QED BY <2>1, <1>6 DEF Begins
  <1> HIDE DEF bytes, colour, pixel
  <1>8. Shows(fmt, pixel, colour)
    BY <1>3, <1>7 DEF PixelOf
  <1> QED BY <1>8 DEF pixel, colour

(* PixelsAsDocumented of a frame and its bytes.                            *)
AsDocumented(f, m) ==
    f.fmt # None /\ f.fmt \in Rgb16 \cup Rgb32
    /\ (f.forced => MeansPixels(f.fmt, f.g)) =>
        LET g == f.g
            size == pix_w(f.fmt)
            hs == MPP_ALIGN(IF MeansPixels(f.fmt, g) THEN g.hs * size ELSE g.hs, 8 * size)
        IN  \A x \in 0..g.w - 1, y \in 0..g.h - 1 :
                Shows(f.fmt, [i \in 1..size |-> ByteAt(m, y * hs + x * size + i - 1)],
                      get_rgb_color(x, y, f.n))

LEMMA FilledAsDocumented ==
    ASSUME NEW fmt \in FillFormats, NEW g \in Geometries, NEW n \in Counts, NEW m,
           fmt \in Rgb => m = fill_rgb(fmt, g, n)
    PROVE  AsDocumented([fmt |-> fmt, g |-> g, n |-> n, forced |-> is_pixel_stride], m)
  <1> DEFINE f == [fmt |-> fmt, g |-> g, n |-> n, forced |-> is_pixel_stride]
             size == pix_w(fmt)
             hs == MPP_ALIGN(IF MeansPixels(fmt, g) THEN g.hs * size ELSE g.hs, 8 * size)
  <1>1. f.fmt = fmt /\ f.g = g /\ f.n = n /\ f.forced = is_pixel_stride
    OBVIOUS
  <1> SUFFICES ASSUME fmt \in Rgb, is_pixel_stride => MeansPixels(fmt, g),
                      NEW x \in 0..(g.w - 1), NEW y \in 0..(g.h - 1)
               PROVE  Shows(fmt, [i \in 1..size |-> ByteAt(m, y * hs + x * size + i - 1)],
                            get_rgb_color(x, y, n))
    BY DEF AsDocumented, Rgb
  <1>2. n \in Nat
    BY FrameAssumption
  <1>3. rgbStride(fmt, g) = hs
    BY StrideIs
  <1> HIDE DEF hs
  <1>4. Shows(fmt, [i \in 1..pix_w(fmt) |->
                       ByteAt(fill_rgb(fmt, g, n), y * hs + x * pix_w(fmt) + i - 1)],
              get_rgb_color(x, y, n))
    BY <1>2, <1>3, RgbShows
  <1>5. m = fill_rgb(fmt, g, n)
    OBVIOUS
  <1> QED BY <1>4, <1>5

LEMMA YuvIsNotRgb == Range(YuvFormats) \cap Rgb = {} /\ None \notin Rgb
  BY DEF Range, YuvFormats, Rgb, Rgb16, Rgb32, None

(* Each RGB picture that fill_image makes has, at every pixel, the bits of *)
(* the colour get_rgb_color gives there, in the layout the comment of its  *)
(* fill function documents and at the stride the caller means, unless an   *)
(* earlier picture left the static flag set for a stride that is in bytes. *)
THEOREM FramePixels == Spec => []PixelsAsDocumented
  <1>1. PixelsAsDocumented <=> AsDocumented(frame, mem)
    BY DEF PixelsAsDocumented, AsDocumented
  <1>2. Init => AsDocumented(frame, mem)
    <2>1. Init => frame.fmt = None
      BY DEF Init
    <2> QED BY <2>1 DEF AsDocumented
  <1>3. AsDocumented(frame, mem) /\ [Next]_vars => AsDocumented(frame, mem)'
    <2> SUFFICES ASSUME AsDocumented(frame, mem), [Next]_vars
                 PROVE  AsDocumented(frame', mem')
      BY DEF AsDocumented
    <2>1. CASE UNCHANGED <<frame, mem>>
      BY <2>1
    <2>2. ASSUME NEW fmt \in DumpFormats, NEW g \in Geometries, decode_frame(fmt, g)
          PROVE  AsDocumented(frame', mem')
      <3>1. frame'.fmt = fmt
        BY <2>2 DEF decode_frame
      <3>2. fmt \notin Rgb16 \cup Rgb32
        BY FrameAssumption, YuvIsNotRgb DEF Rgb
      <3> QED BY <3>1, <3>2 DEF AsDocumented
    <2>3. ASSUME NEW fmt \in FillFormats, NEW g \in Geometries, NEW n \in Counts, fill_image(fmt, g, n)
          PROVE  AsDocumented(frame', mem')
      <3>1. frame' = [fmt |-> fmt, g |-> g, n |-> n, forced |-> is_pixel_stride]
        BY <2>3 DEF fill_image
      <3>2. fmt \in Rgb => mem' = fill_rgb(fmt, g, n)
        BY <2>3 DEF fill_image, Rgb
      <3> DEFINE m == mem'
      <3> HIDE DEF m
      <3>3. AsDocumented([fmt |-> fmt, g |-> g, n |-> n, forced |-> is_pixel_stride], m)
        BY <3>2, FilledAsDocumented DEF m
      <3> QED BY <3>1, <3>3 DEF m
    <2> QED BY <2>1, <2>2, <2>3 DEF Next, vars, frameVars, dump_mpp_frame_to_file, read_image,
               write_frm_crc, read_frm_crc, write_data_crc, read_data_crc
  <1>4. PixelsAsDocumented' <=> AsDocumented(frame, mem)'
    BY DEF PixelsAsDocumented, AsDocumented
  <1> QED BY <1>1, <1>2, <1>3, PTL DEF Spec

-----------------------------------------------------------------------------
(* Every walk over a frame is a sequence of addresses.                     *)

LEMMA RowsSeq == ASSUME NEW p \in Planes PROVE Rows(p) \in Seq(Nat) /\ Len(Rows(p)) = p.cols * p.rows
  BY RowsOf

LEMMA RasterSeq ==
    ASSUME NEW p \in Planes, NEW q \in Planes, NEW r \in Planes
    PROVE  /\ Raster(<<>>) \in Seq(Nat) /\ Raster(<<p>>) \in Seq(Nat)
           /\ Raster(<<p, q>>) \in Seq(Nat) /\ Raster(<<p, q, r>>) \in Seq(Nat)
  <1>1. Rows(p) \in Seq(Nat) /\ Rows(q) \in Seq(Nat) /\ Rows(r) \in Seq(Nat)
    BY RowsSeq
  <1>2. \A s, t \in Seq(Nat) : s \o t \in Seq(Nat)
    OBVIOUS
  <1>3. Raster(<<>>) \in Seq(Nat)
    <2>1. <<>> \in Seq(Nat)
      OBVIOUS
    <2> QED BY <2>1, RasterNone, Zenon
  <1>4. Raster(<<p>>) \in Seq(Nat)
    BY <1>1, RasterOne
  <1>5. Raster(<<p, q>>) \in Seq(Nat)
    BY <1>1, <1>2, RasterTwo
  <1>6. Raster(<<p, q, r>>) \in Seq(Nat)
    <2>1. Raster(<<p, q, r>>) = (Rows(p) \o Rows(q)) \o Rows(r)
      BY RasterThree, Zenon
    <2>2. (Rows(p) \o Rows(q)) \o Rows(r) \in Seq(Nat)
      BY <1>1, <1>2
    <2> QED BY <2>1, <2>2
  <1> QED BY <1>3, <1>4, <1>5, <1>6

LEMMA DumpWalk ==
    ASSUME NEW fmt, NEW g \in Geometries
    PROVE  Raster(DumpPlanes(fmt, g)) \in Seq(Nat)
  <1> DEFINE v == Size(g) + (g.h \div 2) * (g.hs \div 2)
             z == Size(g)
             z1 == Size(g) + 1
  <1>1. /\ g.w \in Nat /\ g.h \in Nat /\ g.hs \in Nat /\ 2 * g.hs \in Nat /\ 1 \in Nat /\ 2 \in Nat
        /\ g.w \div 2 \in Nat /\ z \in Nat /\ z1 \in Nat /\ v \in Nat
    <2>1. g.w \in Nat /\ g.h \in Nat /\ g.hs \in Nat /\ g.w \div 2 \in Nat
      BY Halves
    <2>2. Size(g) \in Nat /\ (g.h \div 2) * (g.hs \div 2) \in Nat
      BY Quarter
    <2> QED BY <2>1, <2>2
  <1>2. Luma(g) \in Planes /\ UV(g) \in Planes /\ Chroma(g, z) \in Planes /\ Chroma(g, v) \in Planes
    BY <1>1, PictureSize
  <1>3. /\ DumpPlanes(fmt, g) =
             CASE fmt = "YUV420SP" -> <<Luma(g), UV(g)>>
               [] fmt = "YUV420P"  -> <<Luma(g), Chroma(g, z), Chroma(g, v)>>
               [] fmt = "YUV422SP" -> <<Luma(g), Plane(z, g.hs, 2, g.w \div 2, g.h),
                                        Plane(z1, g.hs, 2, g.w \div 2, g.h)>>
               [] fmt = "YUV444SP" -> <<Luma(g), Plane(z, 2 * g.hs, 2, g.w, g.h),
                                        Plane(z1, 2 * g.hs, 2, g.w, g.h)>>
               [] fmt = "YUV400"   -> <<Luma(g)>>
               [] OTHER            -> <<>>
    BY DEF DumpPlanes, UV
  <1> HIDE DEF v, z, z1
  <1>4. /\ Plane(z, g.hs, 2, g.w \div 2, g.h) \in Planes /\ Plane(z1, g.hs, 2, g.w \div 2, g.h) \in Planes
        /\ Plane(z, 2 * g.hs, 2, g.w, g.h) \in Planes /\ Plane(z1, 2 * g.hs, 2, g.w, g.h) \in Planes
    <2> DEFINE hs == 2 * g.hs
               w == g.w \div 2
    <2>1. hs \in Nat /\ w \in Nat
      BY <1>1
    <2> HIDE DEF hs, w
    <2>2. /\ Plane(z, g.hs, 2, w, g.h) \in Planes /\ Plane(z1, g.hs, 2, w, g.h) \in Planes
          /\ Plane(z, hs, 2, g.w, g.h) \in Planes /\ Plane(z1, hs, 2, g.w, g.h) \in Planes
      BY <1>1, <2>1, PlanePlanes
    <2> QED BY <2>2 DEF hs, w
  <1>5. /\ Raster(<<>>) \in Seq(Nat) /\ Raster(<<Luma(g)>>) \in Seq(Nat)
        /\ Raster(<<Luma(g), UV(g)>>) \in Seq(Nat)
        /\ Raster(<<Luma(g), Chroma(g, z), Chroma(g, v)>>) \in Seq(Nat)
        /\ Raster(<<Luma(g), Plane(z, g.hs, 2, g.w \div 2, g.h),
                    Plane(z1, g.hs, 2, g.w \div 2, g.h)>>) \in Seq(Nat)
        /\ Raster(<<Luma(g), Plane(z, 2 * g.hs, 2, g.w, g.h),
                    Plane(z1, 2 * g.hs, 2, g.w, g.h)>>) \in Seq(Nat)
    BY <1>2, <1>4, RasterSeq
  <1> QED BY <1>3, <1>5

LEMMA AreaNat ==
    ASSUME NEW g \in Geometries, NEW area,
           area = MPP_ALIGN(g.w, Block) * MPP_ALIGN(g.h, Block)
    PROVE  area \in Nat /\ MPP_ALIGN(area \div Block, Page) \in Nat
  <1>1. MPP_ALIGN(g.w, Block) \in Nat /\ MPP_ALIGN(g.h, Block) \in Nat
    BY FrameAssumption, AlignGrows, GeometryIs DEF GeometryAssumption
  <1>2. area \in Nat
    BY <1>1
  <1>3. area \div Block \in Nat
    BY <1>2, FrameAssumption, RowAndColumn
  <1> QED BY <1>2, <1>3, FrameAssumption, AlignGrows

LEMMA FbcNat == ASSUME NEW fmt, NEW g \in Geometries PROVE FbcBytes(fmt, g) \in Nat
  <1> DEFINE area == MPP_ALIGN(g.w, Block) * MPP_ALIGN(g.h, Block)
             header == MPP_ALIGN(area \div Block, Page)
  <1>1. area \in Nat /\ header \in Nat
    BY AreaNat
  <1>2. FbcBytes(fmt, g) \in {header + (area * 3) \div 2, header + area * 2, header}
    BY DEF FbcBytes
  <1> HIDE DEF area, header
  <1>3. /\ header + (area * 3) \div 2 \in Nat /\ header + area * 2 \in Nat
    BY <1>1
  <1> QED BY <1>1, <1>2, <1>3

(* The pixels of a packed format, at a stride at least as long as the row. *)
LEMMA PackedWalk ==
    ASSUME NEW g \in Geometries, NEW size \in {2, 3, 4}
    PROVE  /\ Raster(Packed(g, size)) \in Seq(Nat)
           /\ Len(Raster(Packed(g, size))) = Pixels(g) * size
  <1> DEFINE row == g.w * size
             pitch == IF g.hs < row THEN row ELSE g.hs
             p == Plane(0, pitch, 1, row, g.h)
  <1>1. g.w \in Nat /\ g.h \in Nat /\ g.hs \in Nat /\ row \in Nat /\ pitch \in Nat /\ 0 \in Nat /\ 1 \in Nat
    <2>1. g.w \in Nat /\ g.h \in Nat /\ g.hs \in Nat
      BY Halves
    <2>2. row \in Nat
      BY <2>1
    <2> HIDE DEF row
    <2> QED BY <2>1, <2>2
  <1>2. Packed(g, size) = <<p>>
    BY DEF Packed
  <1> HIDE DEF row, pitch
  <1>3. p \in Planes /\ p.cols = row /\ p.rows = g.h
    BY <1>1 DEF Planes, Plane
  <1> HIDE DEF p
  <1>4. Raster(<<p>>) = Rows(p) /\ Rows(p) \in Seq(Nat) /\ Len(Rows(p)) = row * g.h
    BY <1>3, RasterOne, RowsSeq
  <1>5. (g.w * size) * g.h = (g.w * g.h) * size
    BY <1>1
  <1> QED BY <1>2, <1>4, <1>5 DEF row, Pixels

(* The walks of read_image, and how many bytes they read.                  *)
LEMMA ReadWalk ==
    ASSUME NEW fmt, NEW g \in Geometries
    PROVE  /\ Raster(ReadPlanes(fmt, g)) \in Seq(Nat)
           /\ fmt \notin Fbc => \/ Len(Raster(ReadPlanes(fmt, g))) = 0
                                \/ Len(Raster(ReadPlanes(fmt, g))) = PictureBytes(fmt, g)
  <1> DEFINE n == FbcBytes(fmt, g)
             q == Quarters(g)
             Others == {"YUV422P", "YUV422SP", "YUV422_YUYV", "YUV422_YVYU", "YUV422_UYVY", "YUV422_VYUY"}
  <1>1. g.w * g.h = 4 * q /\ q \in Nat /\ Pixels(g) = 4 * q
    BY SizeOfPixels DEF Pixels
  <1>2. CASE fmt \in Fbc
    <2>1. ReadPlanes(fmt, g) = <<Plane(0, n, 1, n, 1)>>
      BY <1>2, NotCompressed DEF ReadPlanes, Special, Rgb32, Rgb16
    <2>2. n \in Nat /\ 0 \in Nat /\ 1 \in Nat
      BY FbcNat
    <2> HIDE DEF n
    <2>3. Plane(0, n, 1, n, 1) \in Planes
      BY <2>2, PlanePlanes
    <2> QED BY <2>1, <2>3, <1>2, RasterSeq
  <1>3. CASE fmt \notin Fbc /\ fmt \in {"YUV420SP", "YUV420P"}
    <2>1. /\ SemiPlanar(g) \in Seq(Nat) /\ Len(SemiPlanar(g)) = 6 * q
          /\ Planar(g, Size(g) + Size(g) \div 4) \in Seq(Nat)
          /\ Len(Planar(g, Size(g) + Size(g) \div 4)) = 6 * q
      BY SemiPlanarWalk, PlanarWalk
    <2>2. Raster(ReadPlanes(fmt, g)) \in Seq(Nat) /\ Len(Raster(ReadPlanes(fmt, g))) = 6 * q
      BY <1>3, <2>1, Walked
    <2>3. PictureBytes(fmt, g) = ((g.w * g.h) * 3) \div 2
      BY <1>3 DEF PictureBytes, Rgb32
    <2> HIDE DEF q
    <2>4. ((4 * q) * 3) \div 2 = 6 * q
      BY <1>1
    <2> QED BY <2>2, <2>3, <2>4, <1>1
  <1> DEFINE size == CASE fmt \in Rgb32 -> 4 [] fmt \in {"RGB888", "BGR888"} -> 3 [] OTHER -> 2
  <1>4. CASE fmt \notin Fbc /\ fmt \in Rgb32 \cup {"RGB888", "BGR888"} \cup Rgb16 \cup Others
    <2>1. size \in {2, 3, 4}
      OBVIOUS
    <2>2. ReadPlanes(fmt, g) = Packed(g, size)
      BY <1>4 DEF ReadPlanes, Rgb32, Rgb16
    <2>3. PictureBytes(fmt, g) = ((g.w * g.h) * (2 * size)) \div 2
      BY <1>4 DEF PictureBytes, Rgb32, Rgb16
    <2> HIDE DEF size, q
    <2>4. Raster(Packed(g, size)) \in Seq(Nat) /\ Len(Raster(Packed(g, size))) = Pixels(g) * size
      BY <2>1, PackedWalk
    <2>5. ((4 * q) * (2 * size)) \div 2 = (4 * q) * size
      BY <1>1, <2>1
    <2> QED BY <1>1, <2>2, <2>3, <2>4, <2>5
  <1>5. CASE fmt \notin Fbc \cup {"YUV420SP", "YUV420P", "RGB888", "BGR888"} \cup Rgb32 \cup Rgb16 \cup Others
    <2>1. ReadPlanes(fmt, g) = <<>>
      BY <1>5 DEF ReadPlanes
    <2>2. Raster(<<>>) \in Seq(Nat) /\ Len(Raster(<<>>)) = 0
      <3>1. <<>> \in Seq(Nat) /\ Len(<<>>) = 0
        OBVIOUS
      <3> QED BY <3>1, RasterNone, Zenon
    <2> QED BY <2>1, <2>2
  <1> QED BY <1>2, <1>3, <1>4, <1>5

-----------------------------------------------------------------------------
(* Memories.                                                               *)

LEMMA MemoryOver == ASSUME NEW m \in Memories, NEW o \in Memories PROVE m ++ o \in Memories
  <1>1. PICK S \in SUBSET Nat : m \in [S -> Byte]
    BY DEF Memories
  <1>2. PICK T \in SUBSET Nat : o \in [T -> Byte]
    BY DEF Memories
  <1>3. m ++ o = [x \in S \cup T |-> IF x \in S THEN m[x] ELSE o[x]]
    BY <1>1, <1>2 DEF ++
  <1>4. m ++ o \in [S \cup T -> Byte]
    BY <1>1, <1>2, <1>3
  <1> QED BY <1>4 DEF Memories

LEMMA MemoryTyped == ASSUME NEW m \in Memories PROVE IsMemory(m)
  BY DEF IsMemory, Memories

LEMMA Kept == \A d \in Int : RK_U8(d) \in Byte
  BY DEF RK_U8, Byte

LEMMA YuvMemory ==
    ASSUME NEW fmt, NEW g \in Geometries, NEW n \in Nat
    PROVE  fill_yuv(fmt, g, n) \in Memories
  <1> DEFINE half(at) == Plane(at, g.hs, 2, g.w \div 2, g.h \div 2)
             quarter(at) == Plane(at, g.hs, 4, g.w \div 2, g.h)
             Y(p, first, each) == Painted(p, [c \in Cells(p) |-> LumaOf(n, first + each * c[1], c[2])])
             U(p) == Painted(p, [c \in Cells(p) |-> UOf(n, c[2])])
             V(p) == Painted(p, [c \in Cells(p) |-> VOf(n, c[1])])
  <1>1. ASSUME NEW p \in Planes
        PROVE  U(p) \in Memories /\ V(p) \in Memories
    <2>1. \A c \in Cells(p) : c[1] \in Nat /\ c[2] \in Nat
      BY CellsAre
    <2>2. \A x \in Nat : UOf(n, x) \in Byte /\ VOf(n, x) \in Byte
      BY Kept DEF UOf, VOf
    <2>3. /\ [c \in Cells(p) |-> UOf(n, c[2])] \in [Cells(p) -> Byte]
          /\ [c \in Cells(p) |-> VOf(n, c[1])] \in [Cells(p) -> Byte]
      BY <2>1, <2>2
    <2> QED BY <2>3, PaintedMemory
  <1>2. ASSUME NEW p \in Planes, NEW first \in {0, 1}, NEW each \in {1, 2}
        PROVE  Y(p, first, each) \in Memories
    <2>1. \A c \in Cells(p) : c[1] \in Nat /\ c[2] \in Nat
      BY CellsAre
    <2>2. \A x \in Nat, y \in Nat : LumaOf(n, first + each * x, y) \in Byte
      BY Kept DEF LumaOf
    <2>3. [c \in Cells(p) |-> LumaOf(n, first + each * c[1], c[2])] \in [Cells(p) -> Byte]
      BY <2>1, <2>2
    <2> QED BY <2>3, PaintedMemory
  <1>3. /\ g.w \in Nat /\ g.h \in Nat /\ g.hs \in Nat /\ g.w \div 2 \in Nat /\ g.h \div 2 \in Nat
        /\ Size(g) \in Nat /\ Size(g) + 1 \in Nat /\ Size(g) + Size(g) \div 4 \in Nat
    <2>1. g.w \in Nat /\ g.h \in Nat /\ g.hs \in Nat /\ g.w \div 2 \in Nat /\ g.h \div 2 \in Nat
      BY Halves
    <2>2. Size(g) \in Nat /\ Size(g) \div 4 \in Nat
      BY Quarter
    <2> QED BY <2>1, <2>2
  <1>4. /\ Luma(g) \in Planes /\ Chroma(g, Size(g)) \in Planes
        /\ Chroma(g, Size(g) + Size(g) \div 4) \in Planes
        /\ half(Size(g)) \in Planes /\ half(Size(g) + 1) \in Planes
    BY <1>3, PictureSize DEF Half
  <1>5. quarter(0) \in Planes /\ quarter(1) \in Planes /\ quarter(2) \in Planes /\ quarter(3) \in Planes
    <2>1. \A a \in {0, 1, 2, 3} : a \in Nat
      OBVIOUS
    <2>2. 4 \in Nat
      OBVIOUS
    <2> DEFINE w == g.w \div 2
    <2>3. w \in Nat
      BY <1>3
    <2> HIDE DEF w
    <2>4. ASSUME NEW a \in {0, 1, 2, 3} PROVE Plane(a, g.hs, 4, w, g.h) \in Planes
      BY <2>1, <2>2, <2>3, <1>3 DEF Planes, Plane
    <2> QED BY <2>4 DEF w
  <1>6. NoBytes \in Memories
    <2>1. <<>> \in [{} -> Byte] /\ {} \in SUBSET Nat
      OBVIOUS
    <2> QED BY <2>1 DEF Memories, NoBytes
  <1>7. fill_yuv(fmt, g, n) =
          CASE fmt = "YUV420SP" -> Y(Luma(g), 0, 1) ++ U(half(Size(g))) ++ V(half(Size(g) + 1))
            [] fmt = "YUV420P"  -> Y(Luma(g), 0, 1) ++ U(Chroma(g, Size(g)))
                                                    ++ V(Chroma(g, Size(g) + Size(g) \div 4))
            [] fmt = "YUV422_UYVY" -> Y(quarter(1), 0, 2) ++ Y(quarter(3), 1, 2)
                                                          ++ U(quarter(0)) ++ V(quarter(2))
            [] OTHER -> NoBytes
    BY DEF fill_yuv
  <1> HIDE DEF half, quarter, Y, U, V
  <1>8. Y(Luma(g), 0, 1) ++ U(half(Size(g))) ++ V(half(Size(g) + 1)) \in Memories
    BY <1>1, <1>2, <1>4, MemoryOver
  <1>9. Y(Luma(g), 0, 1) ++ U(Chroma(g, Size(g))) ++ V(Chroma(g, Size(g) + Size(g) \div 4)) \in Memories
    BY <1>1, <1>2, <1>4, MemoryOver
  <1>10. Y(quarter(1), 0, 2) ++ Y(quarter(3), 1, 2) ++ U(quarter(0)) ++ V(quarter(2)) \in Memories
    BY <1>1, <1>2, <1>5, MemoryOver
  <1> QED BY <1>6, <1>7, <1>8, <1>9, <1>10

LEMMA RgbMemory ==
    ASSUME NEW fmt \in Rgb, NEW g \in Geometries, NEW n \in Nat
    PROVE  fill_rgb(fmt, g, n) \in Memories
  BY RgbIs, PaintedMemory

LEMMA DecodedMemory ==
    ASSUME NEW g \in Geometries, NEW n \in Nat
    PROVE  [a \in 0..(Size(g) + 2 * g.hs * g.h - 1) |-> RK_U8(n * 100 + a)] \in Memories
  <1> DEFINE D == 0..(Size(g) + 2 * g.hs * g.h - 1)
  <1>1. D \in SUBSET Nat
    OBVIOUS
  <1>2. \A a \in D : RK_U8(n * 100 + a) \in Byte
    BY Kept
  <1> HIDE DEF D
  <1>3. [a \in D |-> RK_U8(n * 100 + a)] \in [D -> Byte]
    BY <1>2
  <1> QED BY <1>1, <1>3 DEF Memories, D

-----------------------------------------------------------------------------
(* What a disk of so much room keeps of a file that grows.                 *)
CutTo(f, b, d, n, g) ==
    /\ g \in Seq(Byte) /\ Len(g) = n
    /\ n \in Nat /\ n <= Len(f) + Len(b) /\ n <= d /\ (n = Len(f) + Len(b) \/ n = d)
    /\ \A i \in 1..n : g[i] = IF i <= Len(f) THEN f[i] ELSE b[i - Len(f)]

LEMMA CutFile ==
    ASSUME NEW f \in Seq(Byte), NEW b \in Seq(Byte), NEW d \in Nat,
           NEW all, all = f \o b, NEW n, n = MPP_MIN(Len(all), d)
    PROVE  CutTo(f, b, d, n, SubSeq(all, 1, n))
  <1>1. /\ all \in Seq(Byte) /\ Len(all) = Len(f) + Len(b) /\ Len(f) \in Nat /\ Len(b) \in Nat
        /\ \A i \in 1..Len(all) : all[i] = IF i <= Len(f) THEN f[i] ELSE b[i - Len(f)]
    OBVIOUS
  <1>2. n \in Nat /\ n <= Len(all) /\ n <= d /\ (n = Len(all) \/ n = d)
    BY <1>1 DEF MPP_MIN
  <1>3. /\ SubSeq(all, 1, n) \in Seq(Byte) /\ Len(SubSeq(all, 1, n)) = n
        /\ \A i \in 1..n : SubSeq(all, 1, n)[i] = all[i]
    BY <1>1, <1>2
  <1> QED BY <1>1, <1>2, <1>3, SMTT(30) DEF CutTo

(* What a read brings into memory.                                         *)
Brought(f, p, got, order, old) ==
    [i \in {order[i] : i \in 1..got} |-> f[p + (CHOOSE k \in 1..got : order[k] = i)]] ++ old

LEMMA Reading ==
    ASSUME NEW f \in Seq(Byte), NEW p \in 0..Len(f), NEW order \in Seq(Nat), NEW old \in Memories,
           NEW got, got = MPP_MIN(Len(f) - p, Len(order))
    PROVE  /\ got \in Nat /\ got <= Len(order) /\ p + got \in p..Len(f)
           /\ got = Len(order) \/ p + got = Len(f)
           /\ Brought(f, p, got, order, old) \in Memories
           /\ Injective(order) =>
                  \A i \in 1..got : ByteAt(Brought(f, p, got, order, old), order[i]) = f[p + i]
  <1> DEFINE D == {order[i] : i \in 1..got}
             at(a) == CHOOSE k \in 1..got : order[k] = a
             new == [a \in D |-> f[p + at(a)]]
  <1>1. Len(f) \in Nat /\ Len(order) \in Nat
    OBVIOUS
  <1>2. /\ got \in Nat /\ got <= Len(order) /\ p + got \in p..Len(f)
        /\ got = Len(order) \/ p + got = Len(f)
    BY <1>1 DEF MPP_MIN
  <1>3. \A i \in 1..got : i \in 1..Len(order) /\ order[i] \in Nat /\ p + i \in 1..Len(f)
    BY <1>1, <1>2
  <1>4. ASSUME NEW a \in D PROVE at(a) \in 1..got /\ order[at(a)] = a
    <2>1. PICK i \in 1..got : order[i] = a
      OBVIOUS
    <2> QED BY <2>1
  <1>5. D \in SUBSET Nat
    BY <1>3
  <1>6. Brought(f, p, got, order, old) = new ++ old
    BY DEF Brought
  <1>7. \A i \in 1..Len(f) : f[i] \in Byte
    OBVIOUS
  <1>8. \A a \in D : f[p + at(a)] \in Byte
    <2> HIDE DEF at, D
    <2> QED BY <1>3, <1>4, <1>7
  <1>9. new \in Memories
    <2> HIDE DEF at, D
    <2>1. new \in [D -> Byte]
      BY <1>8
    <2> QED BY <2>1, <1>5 DEF Memories
  <1>10. new ++ old \in Memories
    BY <1>9, MemoryOver
  <1>11. ASSUME Injective(order), NEW i \in 1..got
         PROVE  ByteAt(new ++ old, order[i]) = f[p + i]
    <2>1. order[i] \in D
      OBVIOUS
    <2>2. at(order[i]) = i
      BY <2>1, <1>3, <1>4, <1>11 DEF Injective
    <2> HIDE DEF at, D
    <2>3. /\ order[i] \in DOMAIN new /\ new[order[i]] = f[p + i]
      BY <2>1, <2>2
    <2> HIDE DEF new
    <2>4. order[i] \in DOMAIN (new ++ old) /\ (new ++ old)[order[i]] = new[order[i]]
      BY <2>3 DEF ++
    <2> QED BY <2>3, <2>4 DEF ByteAt
  <1> QED BY <1>2, <1>6, <1>10, <1>11

-----------------------------------------------------------------------------
(* Checksums have their types.                                             *)
LEMMA XorTyped ==
    ASSUME NEW s \in Seq(SUBSET (0..31))
    PROVE  XorOf(s) \in SUBSET (0..31)
  <1> DEFINE B == 0..31
  <1>1. s \in Seq(SUBSET B) /\ Len(s) \in 0..Len(s)
    OBVIOUS
  <1> HIDE DEF B
  <1>2. PICK f \in [0..Len(s) -> SUBSET B] :
              /\ f[0] = {} /\ \A i \in 1..Len(s) : f[i] = BitXor(f[i - 1], s[i])
              /\ XorOf(s) = f[Len(s)]
    BY <1>1, XorIs, Zenon
  <1>3. f[Len(s)] \in SUBSET B
    BY <1>1
  <1> QED BY <1>2, <1>3 DEF B

LEMMA WordsTyped ==
    ASSUME NEW m, NEW s \in Seq(Nat)
    PROVE  WordsAt(m, s) \in Seq(SUBSET (0..31))
  <1>1. \A a : Word(m, a) \in SUBSET (0..31)
    BY DEF Word
  <1>2. DOMAIN s = 1..Len(s) /\ Len(s) \in Nat
    OBVIOUS
  <1>3. WordsAt(m, s) = [i \in 1..Len(s) |-> Word(m, s[i])]
    BY <1>2 DEF WordsAt
  <1> QED BY <1>1, <1>2, <1>3

LEMMA Wraps == \A n \in Nat : RK_U32(n) \in 0..(Modulus - 1)
  BY FrameAssumption DEF RK_U32

LEMMA DataCrcTyped ==
    ASSUME NEW dat \in Seq(Byte)
    PROVE  calc_data_crc(dat) \in DataCrc
  <1> DEFINE n == (Len(dat) + 3) \div 4
  <1>1. Len(dat) \in Nat /\ n \in Nat /\ dat \in Seq(Nat)
    <2>1. Byte \subseteq Nat
      BY DEF Byte
    <2>2. dat \in Seq(Nat)
      <3>0. \A i \in 1..Len(dat) : dat[i] \in Byte
        OBVIOUS
      <3>1. \A i \in 1..Len(dat) : dat[i] \in Nat
        BY <2>1, <3>0
      <3>2. dat \in [1..Len(dat) -> Nat]
        BY <3>1
      <3> QED BY <3>2
    <2>3. Len(dat) \in Nat
      OBVIOUS
    <2> QED BY <2>2, <2>3
  <1>2. RK_U32(SumOf(dat)) \in 0..(Modulus - 1)
    BY <1>1, SumNat, Wraps
  <1>3. WordsAt(PacketMemory(dat), Words(n)) \in Seq(SUBSET (0..31))
    <2> HIDE DEF n
    <2> QED BY <1>1, WordsAre
  <1>4. XorOf(WordsAt(PacketMemory(dat), Words(n))) \in SUBSET (0..31)
    BY <1>3, XorTyped
  <1>5. calc_data_crc(dat) = [len |-> Len(dat), sum |-> RK_U32(SumOf(dat)),
                              vor |-> XorOf(WordsAt(PacketMemory(dat), Words(n)))]
    BY DEF calc_data_crc, PacketMemory
  <1> QED BY <1>1, <1>2, <1>4, <1>5 DEF DataCrc

LEMMA FrmCrcTyped ==
    ASSUME NEW m \in Memories, NEW g \in Geometries
    PROVE  calc_frm_crc(m, g) \in FrmCrc
  <1> DEFINE half == g.h \div 2
             at == g.h * g.hs
             quarter == g.w \div 4
  <1>1. /\ g.w \in Nat /\ g.h \in Nat /\ g.hs \in Nat /\ half \in Nat /\ at \in Nat /\ quarter \in Nat
        /\ 0 \in Nat /\ 1 \in Nat /\ 4 \in Nat
    BY Halves, Quarter
  <1> HIDE DEF half, at, quarter
  <1>2. ASSUME NEW a \in Nat, NEW rows \in Nat
        PROVE  /\ CrcPlane(g, a, rows) \in Seq(Nat) /\ CrcWords(g, a, rows) \in Seq(Nat)
    <2>1. Plane(a, g.hs, 1, g.w, rows) \in Planes /\ Plane(a, g.hs, 4, quarter, rows) \in Planes
      BY <1>1, PlanePlanes
    <2>2. /\ Raster(<<Plane(a, g.hs, 1, g.w, rows)>>) \in Seq(Nat)
          /\ Raster(<<Plane(a, g.hs, 4, quarter, rows)>>) \in Seq(Nat)
      BY <2>1, RasterSeq
    <2> QED BY <2>2 DEF CrcPlane, CrcWords, quarter
  <1>3. ASSUME NEW a \in Nat, NEW rows \in Nat
        PROVE  /\ SumOf(BytesAt(m, CrcPlane(g, a, rows))) \in Nat
               /\ XorOf(WordsAt(m, CrcWords(g, a, rows))) \in SUBSET (0..31)
    <2>1. BytesAt(m, CrcPlane(g, a, rows)) \in Seq(Nat)
      BY <1>2, BytesAre
    <2>2. WordsAt(m, CrcWords(g, a, rows)) \in Seq(SUBSET (0..31))
      BY <1>2, WordsTyped
    <2> QED BY <2>1, <2>2, SumNat, XorTyped
  <1> DEFINE sum == SumOf(BytesAt(m, CrcPlane(g, 0, g.h)))
             vor == XorOf(WordsAt(m, CrcWords(g, 0, g.h)))
             sum2 == SumOf(BytesAt(m, CrcPlane(g, at, half)))
             vor2 == XorOf(WordsAt(m, CrcWords(g, at, half)))
  <1>4. sum \in Nat /\ sum2 \in Nat /\ vor \in SUBSET (0..31) /\ vor2 \in SUBSET (0..31)
    BY <1>1, <1>3
  <1>5. calc_frm_crc(m, g) =
          [luma   |-> [len |-> RK_U32(g.h * g.w), sum |-> RK_U32(sum), vor |-> vor],
           chroma |-> [len |-> RK_U32(g.h * g.w) \div 2, sum |-> RK_U32(sum + sum2),
                       vor |-> BitXor(vor, vor2)]]
    BY DEF calc_frm_crc, half, at
  <1> HIDE DEF sum, sum2, vor, vor2
  <1>6. BitXor(vor, vor2) \in SUBSET (0..31)
    BY <1>4 DEF BitXor
  <1>7. /\ RK_U32(g.h * g.w) \in Nat /\ RK_U32(g.h * g.w) \div 2 \in Nat
        /\ RK_U32(sum) \in 0..(Modulus - 1) /\ RK_U32(sum + sum2) \in 0..(Modulus - 1)
    <2>1. g.h * g.w \in Nat /\ sum + sum2 \in Nat
      BY <1>1, <1>4
    <2>2. \A n \in 0..(Modulus - 1) : n \in Nat /\ n \div 2 \in Nat
      BY FrameAssumption
    <2> QED BY <2>1, <2>2, <1>4, Wraps
  <1>8. [len |-> RK_U32(g.h * g.w), sum |-> RK_U32(sum), vor |-> vor] \in DataCrc
    BY <1>4, <1>7 DEF DataCrc
  <1>9. [len |-> RK_U32(g.h * g.w) \div 2, sum |-> RK_U32(sum + sum2), vor |-> BitXor(vor, vor2)] \in DataCrc
    BY <1>6, <1>7 DEF DataCrc
  <1> QED BY <1>5, <1>8, <1>9 DEF FrmCrc

-----------------------------------------------------------------------------
(* Types.                                                                  *)
Formats == DumpFormats \cup FillFormats
Dumps   == [fmt : Formats, g : Geometries, mem : Memories]
Crcs    == DataCrc \cup FrmCrc

(* The types, by the parts of the state; memories and dumps as sets of     *)
(* functions, for what a step makes of them.                               *)
FrameTypes == /\ frame.fmt # None => frame.fmt \in Formats /\ frame.g \in Geometries
              /\ mem \in Memories /\ made \in 0..Frames
              /\ is_pixel_stride \in BOOLEAN /\ not_8_pixel \in BOOLEAN
FileTypes  == /\ disk \in Disks /\ torn \in BOOLEAN /\ file \in Seq(Byte)
              /\ dumped \in Seq(Dumps) /\ Len(dumped) <= made
ReadTypes  == /\ pos \in 0..Len(file) /\ from \in 0..pos /\ (reads = 0 => pos = 0 /\ ret = None)
              /\ reads \in 0..Frames /\ img \in Memories
              /\ ret \in {None, "MPP_OK", "MPP_NOK", "MPP_ERR_VALUE"}
CrcTypes   == /\ crcs \in Seq(Crcs) /\ (Len(crcs) <= made \/ Len(crcs) <= 1)
              /\ crc \in {NoBytes} \cup ToSet(crcs)
              /\ crcreads \in 0..Frames
Types == FrameTypes /\ FileTypes /\ ReadTypes /\ CrcTypes

LEMMA NothingWritten == NoBytes \in Memories
  <1>1. <<>> \in [{} -> Byte] /\ {} \in SUBSET Nat
    OBVIOUS
  <1> QED BY <1>1 DEF Memories, NoBytes

LEMMA TypesInit == Init => Types
  <1> SUFFICES ASSUME Init PROVE Types
    OBVIOUS
  <1>1. FrameTypes
    <2>1. /\ frame.fmt = None /\ mem = NoBytes /\ made = 0
          /\ is_pixel_stride = FALSE /\ not_8_pixel = FALSE
      BY DEF Init
    <2>2. mem \in Memories /\ made \in 0..Frames
      BY <2>1, NothingWritten, FrameAssumption
    <2> QED BY <2>1, <2>2 DEF FrameTypes
  <1>2. FileTypes
    <2>1. PICK n \in Foreign \cup {0} : file = [i \in 1..n |-> i]
      BY DEF Init
    <2>2. n \in 0..255
      BY FrameAssumption DEF Byte
    <2>3. file \in Seq(Byte)
      BY <2>1, <2>2 DEF Byte
    <2>4. dumped \in Seq(Dumps) /\ Len(dumped) = 0
      BY DEF Init
    <2>5. disk \in Disks /\ torn = FALSE
      BY DEF Init
    <2>6. torn \in BOOLEAN
      BY <2>5
    <2> QED BY <2>3, <2>4, <2>5, <2>6 DEF Init, FileTypes
  <1>3. ReadTypes
    <2>1. Len(file) \in Nat
      BY <1>2 DEF FileTypes
    <2>2. /\ pos = 0 /\ from = 0 /\ reads = 0 /\ img = NoBytes /\ ret = None
      BY DEF Init
    <2>3. img \in Memories /\ reads \in 0..Frames
      BY <2>2, NothingWritten, FrameAssumption
    <2> QED BY <2>1, <2>2, <2>3 DEF ReadTypes
  <1>4. CrcTypes
    <2>1. crcs \in Seq(Crcs) /\ Len(crcs) = 0
      BY DEF Init
    <2> QED BY <2>1, FrameAssumption DEF Init, CrcTypes
  <1> QED BY <1>1, <1>2, <1>3, <1>4 DEF Types

LEMMA TypesMade ==
    ASSUME Types, frame'.fmt \in Formats, frame'.g \in Geometries, mem' \in Memories,
           made < Frames, made' = made + 1,
           is_pixel_stride' \in BOOLEAN, not_8_pixel' \in BOOLEAN,
           UNCHANGED <<disk, torn, file, dumped, readVars, crcVars>>
    PROVE  Types'
  <1>1. FrameTypes'
    BY FrameAssumption DEF Types, FrameTypes
  <1>2. Len(dumped) \in Nat /\ Len(crcs) \in Nat /\ made \in Nat
    BY FrameAssumption DEF Types, FileTypes, CrcTypes, FrameTypes
  <1>3. FileTypes'
    BY <1>2 DEF Types, FileTypes
  <1>4. ReadTypes'
    BY DEF Types, ReadTypes, readVars
  <1>5. CrcTypes'
    BY <1>2 DEF Types, CrcTypes, crcVars
  <1> QED BY <1>1, <1>3, <1>4, <1>5 DEF Types

(* Whatever the disk has room for, and when, the file has bytes.           *)
LEMMA DumpTypes ==
    ASSUME FrameTypes, FileTypes, dump_mpp_frame_to_file
    PROVE  file' \in Seq(Byte) /\ disk' \in Disks /\ torn' \in BOOLEAN
  <1> DEFINE bytes == BytesAt(mem, Raster(DumpPlanes(frame.fmt, frame.g)))
  <1>1. /\ frame.fmt # None
        /\ \/ file' = OnDisk(file, bytes, disk) /\ UNCHANGED <<disk, torn>>
           \/ \E room \in Disks, n \in 0..Len(bytes) :
                 /\ file' = OnDisk(OnDisk(file, SubSeq(bytes, 1, n), disk),
                                   SubSeq(bytes, n + 1, Len(bytes)), room)
                 /\ disk' = room /\ torn' = TRUE
    BY DEF dump_mpp_frame_to_file
  <1>2. bytes \in Seq(Byte)
    <2>1. frame.fmt \in Formats /\ frame.g \in Geometries /\ mem \in Memories
      BY <1>1 DEF FrameTypes
    <2> QED BY <2>1, DumpWalk, BytesAre
  <1> HIDE DEF bytes
  <1>3. file \in Seq(Byte) /\ disk \in Disks /\ torn \in BOOLEAN /\ Disks \subseteq Nat
    BY FrameAssumption DEF FileTypes
  <1>4. ASSUME NEW f \in Seq(Byte), NEW b \in Seq(Byte), NEW d \in Nat
        PROVE  OnDisk(f, b, d) \in Seq(Byte)
    <2> DEFINE all == f \o b
               n == MPP_MIN(Len(all), d)
    <2>1. CutTo(f, b, d, n, SubSeq(all, 1, n))
      <3> HIDE DEF n
      <3>1. all = f \o b /\ n = MPP_MIN(Len(all), d)
        BY DEF n
      <3> HIDE DEF all
      <3> QED BY <3>1, CutFile
    <2> QED BY <2>1 DEF CutTo, OnDisk
  <1>5. CASE file' = OnDisk(file, bytes, disk) /\ UNCHANGED <<disk, torn>>
    BY <1>2, <1>3, <1>4, <1>5
  <1>6. ASSUME NEW room \in Disks, NEW n \in 0..Len(bytes), disk' = room, torn' = TRUE,
               file' = OnDisk(OnDisk(file, SubSeq(bytes, 1, n), disk),
                              SubSeq(bytes, n + 1, Len(bytes)), room)
        PROVE  file' \in Seq(Byte) /\ disk' \in Disks /\ torn' \in BOOLEAN
    <2>1. SubSeq(bytes, 1, n) \in Seq(Byte) /\ SubSeq(bytes, n + 1, Len(bytes)) \in Seq(Byte)
      BY <1>2
    <2>2. OnDisk(file, SubSeq(bytes, 1, n), disk) \in Seq(Byte)
      BY <1>3, <1>4, <2>1
    <2>3. file' \in Seq(Byte)
      BY <1>3, <1>4, <1>6, <2>1, <2>2
    <2> QED BY <2>3, <1>6
  <1> QED BY <1>1, <1>5, <1>6

LEMMA TypesNext == Types /\ [Next]_vars => Types'
  <1> SUFFICES ASSUME Types, [Next]_vars PROVE Types'
    OBVIOUS
  <1>0. /\ FrameTypes /\ FileTypes /\ ReadTypes /\ CrcTypes
        /\ Frames \in Nat /\ made \in Nat /\ reads \in Nat /\ crcreads \in Nat
        /\ Len(file) \in Nat /\ Len(dumped) \in Nat /\ Len(crcs) \in Nat /\ disk \in Nat
    BY FrameAssumption DEF Types, FrameTypes, FileTypes, ReadTypes, CrcTypes
  <1>1. CASE UNCHANGED vars
    BY <1>1, <1>0 DEF vars, frameVars, readVars, crcVars, Types, FrameTypes, FileTypes,
       ReadTypes, CrcTypes
  <1>2. ASSUME NEW fmt \in DumpFormats, NEW g \in Geometries, decode_frame(fmt, g)
        PROVE  Types'
    <2>1. frame'.fmt \in Formats /\ frame'.g \in Geometries
      BY <1>2 DEF decode_frame, Formats
    <2>2. mem' \in Memories
      <3>1. mem' = [a \in 0..(Size(g) + 2 * g.hs * g.h - 1) |-> RK_U8(made * 100 + a)]
        BY <1>2 DEF decode_frame
      <3> QED BY <3>1, <1>0, DecodedMemory
    <2>3. /\ made < Frames /\ made' = made + 1
          /\ UNCHANGED <<is_pixel_stride, not_8_pixel, disk, torn, file, dumped, readVars, crcVars>>
      BY <1>2 DEF decode_frame, Fits
    <2>4. is_pixel_stride' \in BOOLEAN /\ not_8_pixel' \in BOOLEAN
      BY <2>3, <1>0 DEF FrameTypes
    <2> QED BY <2>1, <2>2, <2>3, <2>4, TypesMade
  <1>3. ASSUME NEW fmt \in FillFormats, NEW g \in Geometries, NEW n \in Counts, fill_image(fmt, g, n)
        PROVE  Types'
    <2>1. frame'.fmt \in Formats /\ frame'.g \in Geometries
      BY <1>3 DEF fill_image, Formats
    <2>2. n \in Nat
      BY FrameAssumption
    <2>3. mem' \in Memories /\ is_pixel_stride' \in BOOLEAN /\ not_8_pixel' \in BOOLEAN
      <3>1. CASE fmt \in Rgb
        <4>1. /\ mem' = fill_rgb(fmt, g, n) /\ is_pixel_stride' = byPixel(fmt, g)
              /\ not_8_pixel' = notAligned(fmt, g)
          BY <1>3, <3>1 DEF fill_image, Rgb
        <4>2. byPixel(fmt, g) \in BOOLEAN /\ notAligned(fmt, g) \in BOOLEAN
          BY DEF byPixel, notAligned, util_check_stride_by_pixel, util_check_8_pixel_aligned
        <4>3. fill_rgb(fmt, g, n) \in Memories
          BY <3>1, <2>2, RgbMemory
        <4> QED BY <4>1, <4>2, <4>3
      <3>2. CASE fmt \notin Rgb
        <4>1. mem' = fill_yuv(fmt, g, n) /\ UNCHANGED <<is_pixel_stride, not_8_pixel>>
          BY <1>3, <3>2 DEF fill_image, Rgb
        <4>2. fill_yuv(fmt, g, n) \in Memories
          BY <2>2, YuvMemory
        <4> QED BY <4>1, <4>2, <1>0 DEF FrameTypes
      <3> QED BY <3>1, <3>2
    <2>4. /\ made < Frames /\ made' = made + 1
          /\ UNCHANGED <<disk, torn, file, dumped, readVars, crcVars>>
      BY <1>3 DEF fill_image, Fits
    <2> QED BY <2>1, <2>3, <2>4, TypesMade
  <1>4. ASSUME NEW fmt \in ReadFormats, NEW g \in Geometries, read_image(fmt, g)
        PROVE  Types'
    <2> DEFINE order == Raster(ReadPlanes(fmt, g))
               got == MPP_MIN(Len(file) - pos, Len(order))
    <2>1. order \in Seq(Nat)
      BY ReadWalk
    <2>2. /\ img' = Brought(file, pos, got, order, img) /\ pos' = pos + got
          /\ ret' = ReadResult(got, Len(order)) /\ reads' = reads + 1 /\ reads < Frames
          /\ from' = pos /\ UNCHANGED <<frameVars, disk, torn, file, dumped, crcVars>>
      BY <1>4 DEF read_image, Brought
    <2> HIDE DEF order
    <2>3. /\ got \in Nat /\ pos + got \in pos..Len(file) /\ pos \in 0..Len(file)
          /\ Brought(file, pos, got, order, img) \in Memories
      <3>1. file \in Seq(Byte) /\ pos \in 0..Len(file) /\ img \in Memories
        BY <1>0 DEF FileTypes, ReadTypes
      <3> QED BY <2>1, <3>1, Reading
    <2>4. ret' \in {"MPP_OK", "MPP_NOK", "MPP_ERR_VALUE"}
      BY <2>2 DEF ReadResult
    <2> HIDE DEF got
    <2>5. ReadTypes'
      <3>1. pos' \in 0..Len(file) /\ pos \in 0..pos' /\ reads + 1 \in 0..Frames /\ reads + 1 # 0
        BY <2>2, <2>3, <1>0
      <3> QED BY <2>2, <2>3, <2>4, <3>1 DEF ReadTypes
    <2> QED BY <2>2, <2>5, <1>0 DEF Types, FrameTypes, FileTypes, CrcTypes, frameVars, crcVars
  <1>5. CASE dump_mpp_frame_to_file
    <2> DEFINE d == [fmt |-> frame.fmt, g |-> frame.g, mem |-> mem]
    <2>1. /\ frame.fmt # None /\ reads = 0 /\ Len(dumped) < made
          /\ dumped' = Append(dumped, d) /\ UNCHANGED <<frameVars, readVars, crcVars>>
      BY <1>5 DEF dump_mpp_frame_to_file
    <2>2. frame.fmt \in Formats /\ frame.g \in Geometries /\ mem \in Memories
      BY <2>1, <1>0 DEF FrameTypes
    <2>4. file' \in Seq(Byte) /\ disk' \in Disks /\ torn' \in BOOLEAN
      BY <1>0, <1>5, DumpTypes
    <2>5. d \in Dumps
      BY <2>2 DEF Dumps
    <2> HIDE DEF d
    <2>6. Append(dumped, d) \in Seq(Dumps) /\ Len(Append(dumped, d)) = Len(dumped) + 1
      BY <2>5, <1>0 DEF FileTypes
    <2>7. FileTypes'
      <3>1. made' = made
        BY <2>1 DEF frameVars
      <3> QED BY <3>1, <2>1, <2>4, <2>6, <1>0 DEF FileTypes
    <2>8. ReadTypes'
      <3>1. UNCHANGED <<pos, reads, from, img, ret>>
        BY <2>1 DEF readVars
      <3>2. pos = 0 /\ Len(file') \in Nat
        BY <2>1, <2>7, <1>0 DEF FileTypes, ReadTypes
      <3> QED BY <3>1, <3>2, <1>0 DEF ReadTypes
    <2> QED BY <2>1, <2>7, <2>8, <1>0 DEF Types, FrameTypes, CrcTypes, frameVars, crcVars
  <1>6. CASE write_frm_crc
    <2> DEFINE c == calc_frm_crc(mem, frame.g)
    <2>1. /\ frame.fmt = "YUV420SP" /\ Len(crcs) = made - 1 /\ crcs' = Append(crcs, c)
          /\ UNCHANGED <<frameVars, disk, torn, file, dumped, readVars, crc, crcreads>>
      BY <1>6 DEF write_frm_crc
    <2>2. c \in Crcs
      BY <2>1, <1>0, FrmCrcTyped DEF FrameTypes, Crcs, None
    <2> HIDE DEF c
    <2>3. /\ Append(crcs, c) \in Seq(Crcs) /\ Len(Append(crcs, c)) = Len(crcs) + 1
          /\ \A x \in ToSet(crcs) : x \in ToSet(Append(crcs, c))
      <3>1. crcs \in Seq(Crcs)
        BY <1>0 DEF CrcTypes
      <3>2. Append(crcs, c) \in Seq(Crcs) /\ Len(Append(crcs, c)) = Len(crcs) + 1
        BY <3>1, <2>2
      <3>3. \A i \in 1..Len(crcs) : Append(crcs, c)[i] = crcs[i] /\ i \in 1..Len(Append(crcs, c))
        BY <3>1, <2>2
      <3>4. DOMAIN crcs = 1..Len(crcs) /\ DOMAIN Append(crcs, c) = 1..Len(Append(crcs, c))
        BY <3>1, <3>2
      <3> QED BY <3>2, <3>3, <3>4 DEF ToSet
    <2>4. CrcTypes'
      BY <2>1, <2>3, <1>0 DEF CrcTypes, frameVars
    <2> QED BY <2>1, <2>4, <1>0 DEF Types, FrameTypes, FileTypes, ReadTypes, frameVars, readVars
  <1>7. CASE write_data_crc
    <2> DEFINE c == calc_data_crc(file)
    <2>1. /\ crcs = <<>> /\ crcs' = <<c>>
          /\ UNCHANGED <<frameVars, disk, torn, file, dumped, readVars, crc, crcreads>>
      BY <1>7 DEF write_data_crc
    <2>2. c \in Crcs
      BY <1>0, DataCrcTyped DEF FileTypes, Crcs
    <2> HIDE DEF c
    <2>3. <<c>> \in Seq(Crcs) /\ Len(<<c>>) = 1 /\ ToSet(crcs) = {}
      <3>1. ToSet(<<>>) = {}
        BY DEF ToSet
      <3> QED BY <2>1, <2>2, <3>1
    <2>4. CrcTypes'
      BY <2>1, <2>3, <1>0 DEF CrcTypes
    <2> QED BY <2>1, <2>4, <1>0 DEF Types, FrameTypes, FileTypes, ReadTypes, frameVars, readVars
  <1>8. ASSUME crcreads < Frames, crc' = NextCrc, crcreads' = crcreads + 1,
               UNCHANGED <<frameVars, disk, torn, file, dumped, readVars, crcs>>
        PROVE  Types'
    <2>1. NextCrc \in {NoBytes} \cup ToSet(crcs)
      <3>1. CASE crcreads < Len(crcs)
        <4>1. crcreads + 1 \in 1..Len(crcs) /\ DOMAIN crcs = 1..Len(crcs)
          BY <3>1, <1>0 DEF CrcTypes
        <4> QED BY <4>1, <3>1 DEF NextCrc, ToSet
      <3>2. CASE ~(crcreads < Len(crcs))
        BY <3>2, <1>0 DEF NextCrc, CrcTypes
      <3> QED BY <3>1, <3>2
    <2>2. CrcTypes'
      <3>1. made' = made
        BY <1>8 DEF frameVars
      <3> QED BY <3>1, <2>1, <1>8, <1>0 DEF CrcTypes
    <2> QED BY <1>8, <2>2, <1>0 DEF Types, FrameTypes, FileTypes, ReadTypes, frameVars, readVars
  <1>9. CASE read_frm_crc
    <2>1. crcreads < Frames
      BY <1>9, <1>0 DEF read_frm_crc, ReadTypes
    <2> QED BY <2>1, <1>8, <1>9 DEF read_frm_crc
  <1>10. CASE read_data_crc
    BY <1>8, <1>10 DEF read_data_crc
  <1> QED BY <1>1, <1>2, <1>3, <1>4, <1>5, <1>6, <1>7, <1>9, <1>10 DEF Next

LEMMA TypesTell == Types => TypeOK
  <1> SUFFICES ASSUME Types PROVE TypeOK
    OBVIOUS
  <1>1. IsMemory(mem) /\ IsMemory(img)
    BY MemoryTyped DEF Types, FrameTypes, ReadTypes
  <1>2. frame.fmt = None \/ (frame.fmt \in DumpFormats \cup FillFormats /\ frame.g \in Geometries)
    BY DEF Types, FrameTypes, Formats
  <1>3. Len(dumped) \in 0..made /\ Len(crcs) <= Frames
    <2>1. Len(dumped) \in Nat /\ Len(crcs) \in Nat
      BY DEF Types, FileTypes, CrcTypes
    <2> QED BY <2>1, FrameAssumption DEF Types, FileTypes, CrcTypes, FrameTypes
  <1>4. \A k \in DOMAIN crcs : crcs[k] \in DataCrc \cup FrmCrc
    BY DEF Types, CrcTypes, Crcs
  <1> QED BY <1>1, <1>2, <1>3, <1>4 DEF TypeOK, Types, FrameTypes, FileTypes, ReadTypes, CrcTypes

(* Whatever fill_image paints, the disk keeps of a dump and a read_image   *)
(* of any format brings, in any order of calls: memory and files hold      *)
(* bytes, the reader stays in the file, there are never more dumps than    *)
(* frames, and each checksum written has the fields of its structure, the  *)
(* sums cut to 32 bits.                                                    *)
THEOREM FrameTypesOK == Spec => []TypeOK
  <1> QED BY TypesInit, TypesNext, TypesTell, PTL DEF Spec

-----------------------------------------------------------------------------
(* The file: the pictures written, one after the other, and cut where the  *)
(* disk was full, unless room came to it afterwards.                       *)
DumpOrder(fmt, g) == Raster(DumpPlanes(fmt, g))
ReadOrder(fmt, g) == Raster(ReadPlanes(fmt, g))

(* The file f has the walks over the pictures dm, one behind the other, up *)
(* to the room on the disk.                                                *)
Holds(f, dm, order, disk_) ==
    /\ Len(f) = MPP_MIN(Len(dm) * Len(order), disk_)
    /\ \A k \in 1..Len(dm), i \in 1..Len(order) :
          (k - 1) * Len(order) + i <= Len(f) =>
              f[(k - 1) * Len(order) + i] = ByteAt(dm[k].mem, order[i])

(* All pictures of a file are of the format and geometry of the frame in   *)
(* hand.                                                                   *)
Alike(dm, fr) == \A k \in 1..Len(dm) : dm[k].fmt = fr.fmt /\ dm[k].g = fr.g

Written ==
    /\ (made = 0) <=> (frame.fmt = None)
    /\ frame.fmt # None => /\ torn \/ Holds(file, dumped, DumpOrder(frame.fmt, frame.g), disk)
                           /\ Alike(dumped, frame)

(* The reader: so many pictures on, and the last one in its memory.        *)
Reached(f, order, n, p, start, m, result) ==
    /\ p = MPP_MIN(n * Len(order), Len(f)) /\ start = MPP_MIN((n - 1) * Len(order), Len(f))
    /\ result = ReadResult(p - start, Len(order))
    /\ Injective(order) => \A i \in 1..(p - start) : ByteAt(m, order[i]) = f[start + i]

ReadTo ==
    reads > 0 =>
        /\ read.g \in Geometries
        /\ dumped # <<>> => /\ read.fmt = dumped[1].fmt
                            /\ read.g.w = dumped[1].g.w /\ read.g.h = dumped[1].g.h
        /\ Reached(file, ReadOrder(read.fmt, read.g), reads, pos, from, img, ret)

LEMMA MinGrows ==
    ASSUME NEW a \in Nat, NEW l \in Nat, NEW d \in Nat, NEW F, F = MPP_MIN(a, d),
           NEW n \in Nat, n <= F + l, n <= d, n = F + l \/ n = d
    PROVE  n = MPP_MIN(a + l, d)
  BY DEF MPP_MIN

LEMMA MinReads ==
    ASSUME NEW a \in Nat, NEW l \in Nat, NEW F \in Nat, NEW p, p = MPP_MIN(a, F),
           NEW got, got = MPP_MIN(F - p, l)
    PROVE  p + got = MPP_MIN(a + l, F) /\ (p + got) - p = got
  BY DEF MPP_MIN

(* One more picture in the file.                                           *)
LEMMA OneMore ==
    ASSUME NEW f \in Seq(Byte), NEW dm \in Seq(Dumps), NEW order \in Seq(Nat), NEW d \in Nat,
           Holds(f, dm, order, d), NEW x \in Dumps, NEW b, b = BytesAt(x.mem, order),
           NEW all, all = f \o b, NEW n, n = MPP_MIN(Len(all), d)
    PROVE  Holds(SubSeq(all, 1, n), Append(dm, x), order, d)
  <1> DEFINE N == Len(dm)
             L == Len(order)
             F == Len(f)
             g == SubSeq(all, 1, n)
             e == Append(dm, x)
             P(k) == k * L
  <1>1. N \in Nat /\ L \in Nat /\ F \in Nat
    OBVIOUS
  <1>2. /\ b \in Seq(Byte) /\ Len(b) = L /\ \A i \in 1..L : b[i] = ByteAt(x.mem, order[i])
    BY BytesAre DEF Dumps
  <1>9. CutTo(f, b, d, n, SubSeq(all, 1, n))
    BY <1>2, CutFile
  <1>3. n \in Nat /\ n <= F + L /\ n <= d /\ (n = F + L \/ n = d)
    BY <1>2, <1>9 DEF CutTo
  <1>10. Len(g) = n /\ \A i \in 1..n : g[i] = IF i <= F THEN f[i] ELSE b[i - F]
    BY <1>9 DEF CutTo
  <1>4. /\ Len(e) = N + 1 /\ e[N + 1] = x /\ \A k \in 1..N : e[k] = dm[k]
    OBVIOUS
  <1>5. F = MPP_MIN(P(N), d) /\ P(N) \in Nat /\ P(N + 1) = P(N) + L
    <2>1. F = MPP_MIN(N * L, d)
      BY DEF Holds
    <2> HIDE DEF N, L, F
    <2>2. N * L \in Nat /\ (N + 1) * L = N * L + L
      BY <1>1
    <2> QED BY <2>1, <2>2
  <1>6. n = MPP_MIN(P(N + 1), d)
    <2> HIDE DEF N, L, F, P
    <2> QED BY <1>1, <1>3, <1>5, MinGrows, SMTT(30)
  <1>7. ASSUME NEW k \in 1..Len(e), NEW i \in 1..L, P(k - 1) + i <= n
        PROVE  g[P(k - 1) + i] = ByteAt(e[k].mem, order[i])
    <2> DEFINE at == P(k - 1) + i
    <2>1. k - 1 \in 0..N /\ P(k - 1) \in Nat
      <3>1. k - 1 \in 0..N
        BY <1>1, <1>4
      <3> HIDE DEF N, L
      <3>2. (k - 1) * L \in Nat
        BY <3>1, <1>1
      <3> QED BY <3>1, <3>2
    <2>2. at \in 1..n
      <3>1. i \in Nat /\ i >= 1 /\ P(k - 1) + i <= n
        BY <1>1, <1>7
      <3> HIDE DEF P, g, e
      <3> QED BY <2>1, <3>1, <1>3, SMTT(30)
    <2>3. CASE k = N + 1
      <3>1. at = P(N) + i
        BY <2>3, <1>1
      <3>2. F = P(N)
        <4> HIDE DEF P, F, at, L, N
        <4> QED BY <3>1, <2>2, <1>1, <1>3, <1>5, SMTT(30) DEF MPP_MIN
      <3>3. ~(at <= F) /\ at - F = i
        <4>1. i \in Nat /\ i >= 1
          BY <1>1
        <4> HIDE DEF P, F, at, L, N
        <4> QED BY <3>1, <3>2, <4>1, <1>1, SMTT(30)
      <3>4. g[at] = b[i]
        <4> HIDE DEF g, at, F, P, L
        <4> QED BY <2>2, <3>3, <1>10
      <3>5. g[at] = ByteAt(x.mem, order[i])
        BY <3>4, <1>2
      <3>6. e[k] = x
        BY <2>3, <1>4
      <3> HIDE DEF g, e
      <3> QED BY <3>5, <3>6
    <2>4. CASE k \in 1..N
      <3>1. at <= P(N)
        <4>1. k * L <= N * L /\ k * L = (k - 1) * L + L
          <5> HIDE DEF L, N
          <5>1. k \in Nat /\ k <= N
            BY <2>4
          <5> QED BY <5>1, <1>1, TimesGrows
        <4> DEFINE u == (k - 1) * L
               w == N * L
        <4>2. u \in Nat /\ w \in Nat /\ u + L <= w /\ i \in Nat /\ i <= L
          BY <2>1, <4>1, <1>1, <1>5
        <4> HIDE DEF u, w, L, N
        <4>3. u + i <= w
          BY <4>2, <1>1
        <4> QED BY <4>3 DEF u, w
      <3>2. at <= F
        <4> HIDE DEF P, F, at, L, N
        <4> QED BY <3>1, <2>2, <1>1, <1>3, <1>5 DEF MPP_MIN
      <3>3. g[at] = f[at]
        <4> HIDE DEF g, at, F, P, L
        <4> QED BY <2>2, <3>2, <1>10
      <3>4. f[at] = ByteAt(dm[k].mem, order[i])
        BY <2>4, <3>2 DEF Holds
      <3>5. e[k] = dm[k]
        BY <2>4, <1>4
      <3> HIDE DEF g, e
      <3> QED BY <3>3, <3>4, <3>5
    <2>5. k = N + 1 \/ k \in 1..N
      BY <1>1, <1>4
    <2> QED BY <2>3, <2>4, <2>5
  <1> HIDE DEF g, e
  <1>11. Len(g) = MPP_MIN(Len(e) * Len(order), d)
    BY <1>4, <1>6, <1>10
  <1>12. \A k \in 1..Len(e), i \in 1..Len(order) :
            (k - 1) * Len(order) + i <= Len(g) =>
                g[(k - 1) * Len(order) + i] = ByteAt(e[k].mem, order[i])
    BY <1>7, <1>10
  <1>13. Holds(g, e, order, d)
    BY <1>11, <1>12 DEF Holds
  <1> QED BY <1>13 DEF g, e

(* One more picture read.                                                  *)
LEMMA OneRead ==
    ASSUME NEW f \in Seq(Byte), NEW order \in Seq(Nat), NEW n \in Nat, NEW p, NEW old \in Memories,
           p = MPP_MIN(n * Len(order), Len(f)), NEW got, got = MPP_MIN(Len(f) - p, Len(order))
    PROVE  Reached(f, order, n + 1, p + got, p, Brought(f, p, got, order, old),
                   ReadResult(got, Len(order)))
  <1> DEFINE L == Len(order)
             F == Len(f)
             a == n * L
  <1>1. L \in Nat /\ F \in Nat
    OBVIOUS
  <1>2. a \in Nat /\ (n + 1) * L = a + L
    <2> HIDE DEF L
    <2> QED BY <1>1
  <1>3. p \in 0..F
    <2> HIDE DEF L, F, a
    <2>1. p = MPP_MIN(a, F)
      BY DEF L, F, a
    <2> QED BY <2>1, <1>1, <1>2 DEF MPP_MIN
  <1>4. p + got = MPP_MIN(a + L, F) /\ (p + got) - p = got
    <2>1. p = MPP_MIN(a, F) /\ got = MPP_MIN(F - p, L)
      OBVIOUS
    <2> HIDE DEF L, F, a
    <2> QED BY <2>1, <1>1, <1>2, MinReads
  <1>5. Injective(order) =>
            \A i \in 1..got : ByteAt(Brought(f, p, got, order, old), order[i]) = f[p + i]
    BY <1>3, Reading, SMTT(30)
  <1>6. p = MPP_MIN(((n + 1) - 1) * L, F)
    BY <1>1
  <1>7. p + got = MPP_MIN((n + 1) * L, F)
    BY <1>2, <1>4
  <1> QED BY <1>4, <1>5, <1>6, <1>7 DEF Reached

LEMMA NoneIsNoFormat == None \notin Formats
  <1>1. \A i \in 1..16 : YuvFormats[i] # None
    BY DEF YuvFormats, None
  <1>2. \A i \in 1..14 : RgbFormats[i] # None
    BY DEF RgbFormats, None
  <1>3. None \notin DOMAIN Plain
    BY <1>1, <1>2, PlainNumbers
  <1>4. Range(YuvFormats) \subseteq DOMAIN Plain
    BY PlainNumbers, YuvNames DEF Range
  <1> QED BY <1>3, <1>4, FrameAssumption DEF Formats

LEMMA WrittenMade ==
    ASSUME Types, Written, NEW fmt \in Formats, NEW g \in Geometries, Fits(fmt, g),
           frame'.fmt = fmt, frame'.g = g, made' = made + 1, UNCHANGED <<disk, torn, file, dumped>>
    PROVE  Written'
  <1>1. made' # 0 /\ fmt # None
    <2>1. made \in Nat
      BY FrameAssumption DEF Types, FrameTypes
    <2> QED BY <2>1, NoneIsNoFormat
  <1>2. (torn \/ Holds(file, dumped, DumpOrder(fmt, g), disk)) /\ Alike(dumped, frame')
    <2>1. CASE dumped = <<>>
      <3>1. file = <<>>
        BY <2>1 DEF Fits
      <3>2. Len(DumpOrder(fmt, g)) \in Nat /\ disk \in Nat
        <4>1. DumpOrder(fmt, g) \in Seq(Nat)
          BY DumpWalk DEF DumpOrder
        <4>2. disk \in Nat
          BY FrameAssumption DEF Types, FileTypes
        <4> QED BY <4>1, <4>2
      <3>3. Len(<<>>) = 0 /\ 1..0 = {}
        OBVIOUS
      <3> DEFINE order == DumpOrder(fmt, g)
      <3> HIDE DEF order
      <3>4. 0 = MPP_MIN(0 * Len(order), disk)
        BY <3>2 DEF MPP_MIN, order
      <3>5. Holds(<<>>, <<>>, order, disk)
        BY <3>3, <3>4 DEF Holds
      <3>6. Alike(<<>>, frame')
        BY <3>3 DEF Alike
      <3> QED BY <3>1, <3>5, <3>6, <2>1 DEF order
    <2>2. CASE dumped # <<>>
      <3>1. fmt = frame.fmt /\ g = frame.g
        BY <2>2 DEF Fits
      <3>2. frame.fmt # None
        BY <3>1, <1>1
      <3> QED BY <3>1, <3>2 DEF Written, Alike
    <2> QED BY <2>1, <2>2
  <1> QED BY <1>1, <1>2 DEF Written

LEMMA WrittenNext == Types /\ Written /\ [Next]_vars => Written'
  <1> SUFFICES ASSUME Types, Written, [Next]_vars PROVE Written'
    OBVIOUS
  <1>1. CASE UNCHANGED <<frameVars, disk, torn, file, dumped>>
    BY <1>1 DEF Written, frameVars
  <1>2. ASSUME NEW fmt \in DumpFormats, NEW g \in Geometries, decode_frame(fmt, g)
        PROVE  Written'
    <2>1. /\ fmt \in Formats /\ Fits(fmt, g) /\ frame'.fmt = fmt /\ frame'.g = g
          /\ made' = made + 1 /\ UNCHANGED <<disk, torn, file, dumped>>
      BY <1>2 DEF decode_frame, Formats
    <2> QED BY <2>1, WrittenMade
  <1>3. ASSUME NEW fmt \in FillFormats, NEW g \in Geometries, NEW n \in Counts, fill_image(fmt, g, n)
        PROVE  Written'
    <2>1. /\ fmt \in Formats /\ Fits(fmt, g) /\ frame'.fmt = fmt /\ frame'.g = g
          /\ made' = made + 1 /\ UNCHANGED <<disk, torn, file, dumped>>
      BY <1>3 DEF fill_image, Formats
    <2> QED BY <2>1, WrittenMade
  <1>4. CASE dump_mpp_frame_to_file
    <2> DEFINE order == DumpOrder(frame.fmt, frame.g)
               b == BytesAt(mem, order)
               all == file \o b
               n == MPP_MIN(Len(all), disk)
               x == [fmt |-> frame.fmt, g |-> frame.g, mem |-> mem]
    <2>1. /\ frame.fmt # None /\ dumped' = Append(dumped, x)
          /\ frame' = frame /\ made' = made
          /\ ~torn' => file' = SubSeq(all, 1, n) /\ disk' = disk /\ ~torn
      <3>1. /\ frame.fmt # None /\ dumped' = Append(dumped, x) /\ frame' = frame /\ made' = made
            /\ torn' \/ (file' = OnDisk(file, b, disk) /\ UNCHANGED <<disk, torn>>)
        BY <1>4 DEF dump_mpp_frame_to_file, DumpOrder, frameVars
      <3>2. ASSUME ~torn' PROVE file' = OnDisk(file, b, disk) /\ disk' = disk /\ torn' = torn
        <4> HIDE DEF b, x
        <4> QED BY <3>1, <3>2, Zenon
      <3>3. OnDisk(file, b, disk) = SubSeq(all, 1, n)
        BY DEF OnDisk
      <3> HIDE DEF b, x, all, n
      <3>4. ASSUME ~torn' PROVE file' = SubSeq(all, 1, n) /\ disk' = disk /\ ~torn
        <4>1. file' = SubSeq(all, 1, n) /\ disk' = disk
          BY <3>2, <3>3, <3>4
        <4>2. ~torn
          BY <3>2, <3>4, Zenon
        <4> QED BY <4>1, <4>2
      <3> QED BY <3>1, <3>4, Zenon
    <2>2. /\ x \in Dumps /\ x.mem = mem /\ x.fmt = frame.fmt /\ x.g = frame.g
          /\ frame.g \in Geometries
      BY <2>1 DEF Types, FrameTypes, Dumps
    <2>3. order \in Seq(Nat)
      BY <2>2, DumpWalk DEF DumpOrder
    <2>4. file \in Seq(Byte) /\ dumped \in Seq(Dumps) /\ disk \in Nat
      BY FrameAssumption DEF Types, FileTypes
    <2>5. (torn \/ Holds(file, dumped, order, disk)) /\ Alike(dumped, frame)
      BY <2>1 DEF Written
    <2> HIDE DEF order, x
    <2>6. ASSUME ~torn PROVE Holds(SubSeq(all, 1, n), Append(dumped, x), order, disk)
      <3>1. b = BytesAt(x.mem, order) /\ all = file \o b /\ n = MPP_MIN(Len(all), disk)
        BY <2>2
      <3> HIDE DEF b, all, n
      <3> QED BY <3>1, <2>2, <2>3, <2>4, <2>5, <2>6, OneMore
    <2>7. Alike(Append(dumped, x), frame)
      <3>1. /\ Len(Append(dumped, x)) = Len(dumped) + 1 /\ Len(dumped) \in Nat
            /\ Append(dumped, x)[Len(dumped) + 1] = x
            /\ \A k \in 1..Len(dumped) : Append(dumped, x)[k] = dumped[k]
        BY <2>4
      <3>2. ASSUME NEW k \in 1..Len(Append(dumped, x))
            PROVE  Append(dumped, x)[k].fmt = frame.fmt /\ Append(dumped, x)[k].g = frame.g
        <4>1. k \in 1..Len(dumped) \/ k = Len(dumped) + 1
          BY <3>1
        <4>2. CASE k \in 1..Len(dumped)
          BY <4>2, <3>1, <2>5 DEF Alike
        <4>3. CASE k = Len(dumped) + 1
          BY <4>3, <3>1, <2>2
        <4> QED BY <4>1, <4>2, <4>3
      <3> QED BY <3>2 DEF Alike
    <2>8. (torn' \/ Holds(file', dumped', order, disk')) /\ Alike(dumped', frame)
      BY <2>1, <2>6, <2>7
    <2> QED BY <2>1, <2>8 DEF Written, order
  <1> QED BY <1>1, <1>2, <1>3, <1>4 DEF Next, vars, frameVars, read_image, write_frm_crc, read_frm_crc,
             write_data_crc, read_data_crc

LEMMA ReadToNext == Types /\ ReadTo /\ [Next]_vars => ReadTo'
  <1> SUFFICES ASSUME Types, ReadTo, [Next]_vars PROVE ReadTo'
    OBVIOUS
  <1>1. CASE UNCHANGED <<file, dumped, readVars>>
    BY <1>1 DEF ReadTo, readVars
  <1>2. CASE dump_mpp_frame_to_file
    <2>1. reads' = 0
      BY <1>2 DEF dump_mpp_frame_to_file, readVars
    <2> QED BY <2>1 DEF ReadTo
  <1>3. ASSUME NEW fmt \in ReadFormats, NEW g \in Geometries, read_image(fmt, g)
        PROVE  ReadTo'
    <2> DEFINE order == ReadOrder(fmt, g)
               got == MPP_MIN(Len(file) - pos, Len(order))
    <2>1. order \in Seq(Nat)
      BY ReadWalk DEF ReadOrder
    <2>2. /\ img' = Brought(file, pos, got, order, img) /\ pos' = pos + got
          /\ ret' = ReadResult(got, Len(order)) /\ reads' = reads + 1
          /\ from' = pos /\ read' = [fmt |-> fmt, g |-> g] /\ UNCHANGED <<file, dumped>>
          /\ dumped # <<>> => fmt = dumped[1].fmt /\ g.w = dumped[1].g.w /\ g.h = dumped[1].g.h
          /\ reads > 0 => fmt = read.fmt /\ g = read.g
      BY <1>3 DEF read_image, Brought, ReadOrder
    <2>3. file \in Seq(Byte) /\ img \in Memories /\ reads \in Nat /\ Len(file) \in Nat
      BY FrameAssumption DEF Types, FileTypes, ReadTypes
    <2>4. pos = MPP_MIN(reads * Len(order), Len(file))
      <3>1. CASE reads = 0
        <4>1. pos = 0
          BY <3>1 DEF Types, ReadTypes
        <4>2. Len(order) \in Nat
          <5> HIDE DEF order
          <5> QED BY <2>1
        <4> HIDE DEF order
        <4>3. 0 = MPP_MIN(0 * Len(order), Len(file))
          BY <4>2, <2>3 DEF MPP_MIN
        <4> QED BY <4>1, <4>3, <3>1
      <3>2. CASE reads > 0
        BY <3>2, <2>2 DEF ReadTo, Reached
      <3> QED BY <3>1, <3>2, <2>3
    <2> HIDE DEF order
    <2>5. Reached(file, order, reads + 1, pos + got, pos, Brought(file, pos, got, order, img),
                  ReadResult(got, Len(order)))
      <3>1. got = MPP_MIN(Len(file) - pos, Len(order))
        OBVIOUS
      <3> HIDE DEF got
      <3> QED BY <3>1, <2>1, <2>3, <2>4, OneRead
    <2>6. Reached(file', order, reads', pos', from', img', ret')
      BY <2>2, <2>5
    <2>7. read'.fmt = fmt /\ read'.g = g
      BY <2>2
    <2> QED BY <2>2, <2>6, <2>7 DEF ReadTo, order
  <1> QED BY <1>1, <1>2, <1>3 DEF Next, vars, decode_frame, fill_image, write_frm_crc, read_frm_crc,
             write_data_crc, read_data_crc

(* The frames, their file and its reader: what is inductive of them.       *)
FileInv == Types /\ Written /\ ReadTo

LEMMA FileInit == Init => FileInv
  <1> SUFFICES ASSUME Init PROVE FileInv
    OBVIOUS
  <1>1. Written
    BY DEF Init, Written
  <1>2. ReadTo
    BY DEF Init, ReadTo
  <1> QED BY <1>1, <1>2, TypesInit DEF FileInv

LEMMA FileInvariant == Spec => []FileInv
  <1>1. FileInv /\ [Next]_vars => FileInv'
    BY TypesNext, WrittenNext, ReadToNext DEF FileInv
  <1> QED BY <1>1, FileInit, PTL DEF Spec

-----------------------------------------------------------------------------
(* Pictures read.  A read that is MPP_OK brought a whole picture.          *)
LEMMA WholeRead ==
    ASSUME NEW u \in Nat, NEW l \in Nat, NEW F \in Nat,
           NEW p, p = MPP_MIN(u + l, F), NEW start, start = MPP_MIN(u, F),
           ReadResult(p - start, l) = "MPP_OK"
    PROVE  l # 0 /\ p = u + l /\ start = u /\ p - start = l /\ u + l <= F
  <1>1. p - start \in Int /\ p - start <= l
    BY DEF MPP_MIN
  <1>2. l # 0 /\ ~(p - start < l)
    BY DEF ReadResult
  <1> HIDE DEF ReadResult
  <1> QED BY <1>1, <1>2 DEF MPP_MIN

(* Picture n was in the file as a whole, and the reader passed it.         *)
Whole(f, order, n, p, start) ==
    /\ Len(order) # 0 /\ p - start = Len(order)
    /\ start = (n - 1) * Len(order) /\ start + Len(order) <= Len(f)

LEMMA ReachedWhole ==
    ASSUME NEW f \in Seq(Byte), NEW order \in Seq(Nat), NEW n \in Nat, n # 0, NEW p, NEW start, NEW m,
           Reached(f, order, n, p, start, m, "MPP_OK")
    PROVE  Whole(f, order, n, p, start)
  <1> DEFINE L == Len(order)
             F == Len(f)
             u == (n - 1) * L
  <1>1. L \in Nat /\ F \in Nat /\ n - 1 \in Nat
    OBVIOUS
  <1>2. u \in Nat /\ n * L = u + L
    <2> HIDE DEF L
    <2>1. n * L = ((n - 1) + 1) * L
      OBVIOUS
    <2>2. ((n - 1) + 1) * L = (n - 1) * L + L
      BY <1>1, NextRow
    <2>3. (n - 1) * L \in Nat
      BY <1>1
    <2> QED BY <2>1, <2>2, <2>3
  <1>3. p = MPP_MIN(u + L, F) /\ start = MPP_MIN(u, F) /\ ReadResult(p - start, L) = "MPP_OK"
    BY <1>2 DEF Reached
  <1> HIDE DEF u, L, F
  <1>4. L # 0 /\ start = u /\ p - start = L /\ u + L <= F
    BY <1>1, <1>2, <1>3, WholeRead
  <1> QED BY <1>4 DEF u, L, F, Whole

(* Picture n of the file, brought into memory.                             *)
SameIn(m, s, o, t) == \A i \in 1..Len(s) : ByteAt(m, s[i]) = ByteAt(o, t[i])

LEMMA ReadBack ==
    ASSUME NEW f \in Seq(Byte), NEW dm \in Seq(Dumps), NEW s \in Seq(Nat), NEW t \in Seq(Nat),
           Len(s) = Len(t), NEW n \in 1..Len(dm), NEW p, NEW start, NEW m, NEW d,
           Reached(f, s, n, p, start, m, "MPP_OK"), Injective(s), Holds(f, dm, t, d)
    PROVE  SameIn(m, s, dm[n].mem, t)
  <1> DEFINE L == Len(s)
             F == Len(f)
             u == (n - 1) * L
  <1>1. /\ p - start = L /\ start = u /\ start + L <= F
    <2>1. n \in Nat /\ n # 0
      OBVIOUS
    <2>2. Whole(f, s, n, p, start)
      BY <2>1, ReachedWhole
    <2> QED BY <2>2 DEF Whole
  <1>2. \A i \in 1..(p - start) : ByteAt(m, s[i]) = f[start + i]
    BY DEF Reached
  <1>3. \A i \in 1..Len(t) : (n - 1) * Len(t) + i <= Len(f) =>
              f[(n - 1) * Len(t) + i] = ByteAt(dm[n].mem, t[i])
    BY DEF Holds
  <1>4. \A i \in 1..L : u + i <= F => f[u + i] = ByteAt(dm[n].mem, t[i])
    BY <1>3
  <1>5. \A i \in 1..L : ByteAt(m, s[i]) = f[u + i]
    BY <1>1, <1>2
  <1>6. L \in Nat /\ F \in Nat /\ u \in Nat
    <2>1. L \in Nat /\ F \in Nat /\ n - 1 \in Nat
      OBVIOUS
    <2> HIDE DEF L, F
    <2> QED BY <2>1
  <1>7. \A i \in 1..L : u + i <= F
    <2> HIDE DEF u, L, F
    <2> QED BY <1>1, <1>6
  <1> HIDE DEF u, F
  <1> QED BY <1>4, <1>5, <1>7 DEF SameIn

(* The two walks of a picture in a file.                                   *)
LEMMA FileWalks ==
    ASSUME NEW g \in Geometries, NEW r \in Geometries, g.w = r.w, g.h = r.h,
           NEW fmt \in {"YUV420SP", "YUV420P"}
    PROVE  /\ DumpOrder(fmt, g) \in Seq(Nat) /\ ReadOrder(fmt, r) \in Seq(Nat)
           /\ Len(DumpOrder(fmt, g)) = 6 * Quarters(g) /\ Len(ReadOrder(fmt, r)) = 6 * Quarters(g)
           /\ Injective(ReadOrder(fmt, r))
           /\ fmt = "YUV420SP" => /\ DumpOrder(fmt, g) = SemiPlanar(g)
                                  /\ ReadOrder(fmt, r) = SemiPlanar(r)
           /\ fmt = "YUV420P" =>
                 /\ ReadOrder(fmt, r) = Documented(fmt, r)
                 /\ Documented(fmt, g) \in Seq(Nat) /\ Len(Documented(fmt, g)) = 6 * Quarters(g)
                 /\ \A i \in 1..(5 * Quarters(g)) : DumpOrder(fmt, g)[i] = Documented(fmt, g)[i]
                 /\ g.vs = g.h => DumpOrder(fmt, g) = Documented(fmt, g)
  <1>1. Quarters(r) = Quarters(g)
    BY DEF Quarters
  <1>2. CASE fmt = "YUV420SP"
    <2>1. DumpOrder(fmt, g) = SemiPlanar(g) /\ ReadOrder(fmt, r) = SemiPlanar(r)
      BY <1>2, Walked DEF DumpOrder, ReadOrder
    <2>2. /\ SemiPlanar(g) \in Seq(Nat) /\ SemiPlanar(r) \in Seq(Nat)
          /\ Len(SemiPlanar(g)) = 6 * Quarters(g) /\ Len(SemiPlanar(r)) = 6 * Quarters(r)
          /\ Injective(SemiPlanar(r))
      BY SemiPlanarWalk
    <2> QED BY <1>1, <1>2, <2>1, <2>2
  <1>3. CASE fmt = "YUV420P"
    <2> DEFINE u == Size(g) + (g.h \div 2) * (g.hs \div 2)
               v == Size(g) + Size(g) \div 4
               w == Size(r) + Size(r) \div 4
    <2>1. g.vs = g.h => u = v
      BY Quarter
    <2>2. /\ DumpOrder(fmt, g) = Planar(g, u) /\ ReadOrder(fmt, r) = Planar(r, w)
          /\ Documented(fmt, g) = Planar(g, v) /\ Documented(fmt, r) = Planar(r, w)
      BY <1>3, Walked DEF DumpOrder, ReadOrder
    <2>3. /\ Planar(r, w) \in Seq(Nat) /\ Len(Planar(r, w)) = 6 * Quarters(r)
          /\ Injective(Planar(r, w))
      BY PlanarWalk
    <2>4. u \in Nat /\ v \in Nat
      <3>1. Size(g) \in Nat /\ (g.h \div 2) * (g.hs \div 2) \in Nat /\ Size(g) \div 4 \in Nat
        BY Quarter
      <3> QED BY <3>1
    <2> HIDE DEF u, v, w
    <2>5. /\ Planar(g, u) \in Seq(Nat) /\ Len(Planar(g, u)) = 6 * Quarters(g)
          /\ Planar(g, v) \in Seq(Nat) /\ Len(Planar(g, v)) = 6 * Quarters(g)
      BY <2>4, PlanarBegins
    <2>6. \A i \in 1..(5 * Quarters(g)) : Planar(g, u)[i] = Planar(g, v)[i]
      BY <2>4, PlanarBegins
    <2> QED BY <1>1, <1>3, <2>1, <2>2, <2>3, <2>5, <2>6
  <1> QED BY <1>2, <1>3

(* What read_image brought of picture k is what dump_mpp_frame_to_file     *)
(* wrote of it.                                                            *)
LEMMA PictureRead ==
    ASSUME FileInv, reads > 0, reads <= Len(dumped), ret = "MPP_OK", ~torn,
           read.fmt \in {"YUV420SP", "YUV420P"}
    PROVE  /\ dumped[reads].g \in Geometries /\ read.g \in Geometries
           /\ dumped[reads].fmt = read.fmt /\ dumped[reads].mem \in Memories
           /\ read.g.w = dumped[reads].g.w /\ read.g.h = dumped[reads].g.h
           /\ \A i \in 1..(6 * Quarters(read.g)) :
                 ByteAt(img, ReadOrder(read.fmt, read.g)[i])
                    = ByteAt(dumped[reads].mem, DumpOrder(read.fmt, dumped[reads].g)[i])
  <1>1. /\ Types /\ Written /\ ReadTo /\ file \in Seq(Byte) /\ dumped \in Seq(Dumps)
        /\ made \in Nat /\ Len(dumped) <= made /\ reads \in Nat /\ Len(dumped) \in Nat
    BY FrameAssumption DEF FileInv, Types, FileTypes, FrameTypes, ReadTypes
  <1>2. reads \in 1..Len(dumped) /\ 1 \in 1..Len(dumped) /\ dumped # <<>> /\ made # 0
    BY <1>1
  <1>3. /\ frame.fmt # None /\ Holds(file, dumped, DumpOrder(frame.fmt, frame.g), disk)
        /\ Alike(dumped, frame)
    BY <1>1, <1>2 DEF Written
  <1> DEFINE d == dumped[reads]
  <1>4. d \in Dumps
    BY <1>1, <1>2
  <1>5. /\ d.g \in Geometries /\ d.mem \in Memories /\ d.fmt = frame.fmt /\ d.g = frame.g
        /\ dumped[1].fmt = frame.fmt /\ dumped[1].g = frame.g
    BY <1>2, <1>3, <1>4 DEF Dumps, Alike
  <1>6. /\ read.g \in Geometries /\ read.fmt = d.fmt /\ read.g.w = d.g.w /\ read.g.h = d.g.h
        /\ Reached(file, ReadOrder(read.fmt, read.g), reads, pos, from, img, ret)
    BY <1>1, <1>2, <1>5 DEF ReadTo
  <1> DEFINE s == ReadOrder(read.fmt, read.g)
             t == DumpOrder(read.fmt, d.g)
             fmt == read.fmt
             g == d.g
             r == read.g
  <1>7. /\ t \in Seq(Nat) /\ s \in Seq(Nat) /\ Injective(s)
        /\ Len(t) = 6 * Quarters(g) /\ Len(s) = 6 * Quarters(g)
    <2>1. fmt \in {"YUV420SP", "YUV420P"}
      OBVIOUS
    <2>2. g \in Geometries /\ r \in Geometries /\ g.w = r.w /\ g.h = r.h
      BY <1>5, <1>6
    <2> HIDE DEF g, r, fmt, d
    <2>3. /\ DumpOrder(fmt, g) \in Seq(Nat) /\ ReadOrder(fmt, r) \in Seq(Nat)
          /\ Injective(ReadOrder(fmt, r))
          /\ Len(DumpOrder(fmt, g)) = 6 * Quarters(g) /\ Len(ReadOrder(fmt, r)) = 6 * Quarters(g)
      BY <2>1, <2>2, FileWalks
    <2> QED BY <2>3 DEF g, r, fmt
  <1>8. Holds(file, dumped, t, disk) /\ Reached(file, s, reads, pos, from, img, "MPP_OK")
    BY <1>3, <1>5, <1>6
  <1>9. Quarters(r) = Quarters(g)
    BY <1>6 DEF Quarters
  <1>11. Len(s) = Len(t)
    BY <1>7
  <1> HIDE DEF s, t
  <1>10. \A i \in 1..Len(s) : ByteAt(img, s[i]) = ByteAt(dumped[reads].mem, t[i])
    <2>1. SameIn(img, s, dumped[reads].mem, t)
      BY <1>1, <1>2, <1>7, <1>8, <1>11, ReadBack
    <2> QED BY <2>1 DEF SameIn
  <1> QED BY <1>5, <1>6, <1>7, <1>9, <1>10 DEF s, t

LEMMA FilesInStep == FileInv => InStep
  <1> DEFINE fmt == read.fmt
             r == read.g
             m == dumped[reads].mem
             g == dumped[reads].g
  <1> SUFFICES ASSUME FileInv, reads > 0, reads <= Len(dumped), ret = "MPP_OK", ~torn,
                      fmt \in {"YUV420SP", "YUV420P"}
               PROVE  IF fmt = "YUV420P" /\ g.vs # g.h
                      THEN \A i \in 1..(5 * ((g.w \div 2) * (g.h \div 2))) :
                              Samples(fmt, img, r)[i] = Samples(dumped[reads].fmt, m, g)[i]
                      ELSE Samples(fmt, img, r) = Samples(dumped[reads].fmt, m, g)
    BY DEF InStep
  <1>1. /\ g \in Geometries /\ r \in Geometries /\ dumped[reads].fmt = fmt
        /\ r.w = g.w /\ r.h = g.h
        /\ \A i \in 1..(6 * Quarters(r)) :
              ByteAt(img, ReadOrder(fmt, r)[i]) = ByteAt(m, DumpOrder(fmt, g)[i])
    BY PictureRead
  <1>2. fmt \in {"YUV420SP", "YUV420P"}
    OBVIOUS
  <1>3. Quarters(r) = Quarters(g) /\ Quarters(g) \in Nat
    BY <1>1, SizeOfPixels DEF Quarters
  <1> HIDE DEF fmt, r, m, g
  <1>4. /\ DumpOrder(fmt, g) \in Seq(Nat) /\ Len(DumpOrder(fmt, g)) = 6 * Quarters(g)
        /\ ReadOrder(fmt, r) \in Seq(Nat) /\ Len(ReadOrder(fmt, r)) = 6 * Quarters(g)
        /\ fmt = "YUV420SP" => DumpOrder(fmt, g) = SemiPlanar(g) /\ ReadOrder(fmt, r) = SemiPlanar(r)
        /\ fmt = "YUV420P" =>
              /\ ReadOrder(fmt, r) = Documented(fmt, r)
              /\ Documented(fmt, g) \in Seq(Nat) /\ Len(Documented(fmt, g)) = 6 * Quarters(g)
              /\ \A i \in 1..(5 * Quarters(g)) : DumpOrder(fmt, g)[i] = Documented(fmt, g)[i]
              /\ g.vs = g.h => DumpOrder(fmt, g) = Documented(fmt, g)
    BY <1>1, <1>2, FileWalks
  <1>5. CASE fmt = "YUV420SP"
    <2>1. SamePicture(img, r, m, g)
      BY <1>1, <1>4, <1>5, PictureOfWalk
    <2>2. BytesAt(img, Sampled(r)) = BytesAt(m, Sampled(g))
      BY <1>1, <2>1, SameSamples
    <2>3. Documented(fmt, r) = Sampled(r) /\ Documented(fmt, g) = Sampled(g)
      BY <1>1, <1>5, Walked
    <2>4. Samples(fmt, img, r) = Samples(fmt, m, g)
      BY <2>2, <2>3 DEF Samples
    <2> QED BY <1>1, <1>5, <2>4 DEF fmt, r, m, g
  <1>6. CASE fmt = "YUV420P"
    <2> DEFINE s == ReadOrder(fmt, r)
               t == DumpOrder(fmt, g)
               u == Documented(fmt, g)
               n == 6 * Quarters(g)
               k == 5 * Quarters(g)
    <2>1. /\ s \in Seq(Nat) /\ t \in Seq(Nat) /\ u \in Seq(Nat)
          /\ Len(s) = n /\ Len(t) = n /\ Len(u) = n
      BY <1>4, <1>6
    <2>2. \A i \in 1..n : ByteAt(img, s[i]) = ByteAt(m, t[i])
      BY <1>1, <1>3
    <2>3. Samples(fmt, img, r) = BytesAt(img, s) /\ Samples(fmt, m, g) = BytesAt(m, u)
      BY <1>4, <1>6 DEF Samples
    <2>4. /\ \A i \in 1..k : t[i] = u[i] /\ i \in 1..n
          /\ g.vs = g.h => t = u
      <3>1. \A i \in 1..k : i \in 1..n
        BY <1>3
      <3> QED BY <3>1, <1>4, <1>6
    <2>5. k = 5 * ((g.w \div 2) * (g.h \div 2))
      BY DEF Quarters
    <2> HIDE DEF s, t, u, n, k
    <2>6. DOMAIN s = 1..n /\ DOMAIN t = 1..n /\ DOMAIN u = 1..n
      BY <2>1
    <2>7. CASE g.vs = g.h
      <3>1. DOMAIN s = DOMAIN u /\ \A i \in DOMAIN s : ByteAt(img, s[i]) = ByteAt(m, u[i])
        BY <2>2, <2>4, <2>6, <2>7
      <3>2. BytesAt(img, s) = BytesAt(m, u)
        BY <3>1, SameBytes
      <3>3. Samples(fmt, img, r) = Samples(fmt, m, g)
        BY <2>3, <3>2
      <3> QED BY <1>1, <2>7, <3>3 DEF fmt, r, m, g
    <2>8. CASE g.vs # g.h
      <3>1. ASSUME NEW i \in 1..k PROVE Samples(fmt, img, r)[i] = Samples(fmt, m, g)[i]
        <4>1. i \in DOMAIN s /\ i \in DOMAIN u /\ i \in 1..n /\ t[i] = u[i]
          BY <2>4, <2>6
        <4>2. BytesAt(img, s)[i] = ByteAt(img, s[i]) /\ BytesAt(m, u)[i] = ByteAt(m, u[i])
          BY <4>1 DEF BytesAt
        <4> QED BY <4>1, <4>2, <2>2, <2>3
      <3>2. \A i \in 1..(5 * ((g.w \div 2) * (g.h \div 2))) :
                Samples(fmt, img, r)[i] = Samples(fmt, m, g)[i]
        BY <3>1, <2>5
      <3> QED BY <1>1, <1>6, <2>8, <3>2 DEF fmt, r, m, g
    <2> QED BY <2>7, <2>8
  <1> QED BY <1>2, <1>5, <1>6

LEMMA OkWhole == FileInv => OkIsWhole
  <1> SUFFICES ASSUME FileInv, ret = "MPP_OK", read.fmt \notin Fbc
               PROVE  pos - from = PictureBytes(read.fmt, read.g)
    BY DEF OkIsWhole
  <1>1. reads \in Nat /\ reads # 0 /\ file \in Seq(Byte)
    BY FrameAssumption DEF FileInv, Types, FileTypes, ReadTypes, None
  <1> DEFINE order == ReadOrder(read.fmt, read.g)
  <1>2. read.g \in Geometries /\ Reached(file, order, reads, pos, from, img, "MPP_OK")
    BY <1>1 DEF FileInv, ReadTo
  <1>3. order \in Seq(Nat) /\ (Len(order) = 0 \/ Len(order) = PictureBytes(read.fmt, read.g))
    BY <1>2, ReadWalk DEF ReadOrder
  <1> HIDE DEF order
  <1>4. Len(order) # 0 /\ pos - from = Len(order)
    BY <1>1, <1>2, <1>3, ReachedWhole DEF Whole
  <1> QED BY <1>3, <1>4

(* dump_mpp_frame_to_file and read_image are in step, for every geometry   *)
(* and any strides of the writer and the reader, and wherever the disk was *)
(* full as long as no room comes to it then: a picture k read with MPP_OK  *)
(* has the samples of picture k dumped, all of a semi-planar one and of a  *)
(* planar one without padding rows, and with such rows the luma and U but  *)
(* not V (utils.cpp:109).  MPP_OK always means a whole picture.            *)
THEOREM FrameReads == Spec => []ReadsPictures
  <1> QED BY FileInvariant, FilesInStep, OkWhole, PTL DEF ReadsPictures

-----------------------------------------------------------------------------
(* Checksums.  The last frame dumped is the one in memory; the file of     *)
(* checksums has those of the first frames dumped, or the packet's; and    *)
(* the checksum read last is the one at the reader's place.                *)
LastDumped == made > 0 /\ Len(dumped) = made => dumped[made].mem = mem /\ dumped[made].g = frame.g

(* A checksum for each of the first pictures.                              *)
CrcsOf(cs, dm) == /\ Len(cs) <= Len(dm)
                  /\ \A k \in 1..Len(cs) : cs[k] = calc_frm_crc(dm[k].mem, dm[k].g)

CrcsWritten == /\ made > 0 => CrcsOf(crcs, dumped) /\ crcreads <= reads
               /\ made = 0 => /\ crcs = <<>> \/ (file # <<>> /\ crcs = <<calc_data_crc(file)>>)
                              /\ file = <<>> => crcreads = 0

CrcRead == crcreads > 0 /\ crcs # <<>> => crc = crcs[MPP_MIN(crcreads, Len(crcs))]

LEMMA LastDumpedNext == Types /\ LastDumped /\ [Next]_vars => LastDumped'
  <1> SUFFICES ASSUME Types, LastDumped, [Next]_vars PROVE LastDumped'
    OBVIOUS
  <1>0. made \in Nat /\ Len(dumped) \in Nat /\ Len(dumped) <= made /\ dumped \in Seq(Dumps)
    BY FrameAssumption DEF Types, FrameTypes, FileTypes
  <1>1. CASE UNCHANGED <<frameVars, dumped>>
    BY <1>1 DEF LastDumped, frameVars
  <1>2. ASSUME made' = made + 1, dumped' = dumped PROVE LastDumped'
    BY <1>0, <1>2 DEF LastDumped
  <1>3. CASE dump_mpp_frame_to_file
    <2> DEFINE d == [fmt |-> frame.fmt, g |-> frame.g, mem |-> mem]
    <2>1. dumped' = Append(dumped, d) /\ UNCHANGED <<made, mem, frame>>
      BY <1>3 DEF dump_mpp_frame_to_file, frameVars
    <2>2. d.mem = mem /\ d.g = frame.g
      OBVIOUS
    <2> HIDE DEF d
    <2>3. Len(dumped') = Len(dumped) + 1 /\ dumped'[Len(dumped) + 1] = d
      BY <2>1, <1>0
    <2> QED BY <2>1, <2>2, <2>3, <1>0 DEF LastDumped
  <1> QED BY <1>1, <1>2, <1>3 DEF Next, vars, decode_frame, fill_image, read_image, write_frm_crc,
             read_frm_crc, write_data_crc, read_data_crc

LEMMA OneCrcMore ==
    ASSUME NEW cs \in Seq(Crcs), NEW dm \in Seq(Dumps), CrcsOf(cs, dm), Len(cs) = Len(dm) - 1,
           NEW c, c = calc_frm_crc(dm[Len(dm)].mem, dm[Len(dm)].g)
    PROVE  CrcsOf(Append(cs, c), dm)
  <1>1. Len(cs) \in Nat /\ Len(dm) \in Nat
    OBVIOUS
  <1>2. /\ Len(Append(cs, c)) = Len(cs) + 1 /\ Append(cs, c)[Len(cs) + 1] = c
        /\ \A k \in 1..Len(cs) : Append(cs, c)[k] = cs[k]
    OBVIOUS
  <1> DEFINE e == Append(cs, c)
  <1>3. ASSUME NEW k \in 1..Len(e) PROVE e[k] = calc_frm_crc(dm[k].mem, dm[k].g)
    <2>1. k \in 1..Len(cs) \/ k = Len(cs) + 1
      BY <1>1, <1>2
    <2>2. CASE k \in 1..Len(cs)
      BY <2>2, <1>2 DEF CrcsOf
    <2>3. CASE k = Len(cs) + 1
      <3>1. k = Len(dm)
        BY <2>3, <1>1
      <3> QED BY <3>1, <2>3, <1>2
    <2> QED BY <2>1, <2>2, <2>3
  <1> HIDE DEF e
  <1>4. Len(e) <= Len(dm)
    BY <1>1, <1>2 DEF e
  <1>5. CrcsOf(e, dm)
    BY <1>3, <1>4 DEF CrcsOf
  <1> QED BY <1>5 DEF e

LEMMA CrcsKept ==
    ASSUME NEW cs \in Seq(Crcs), NEW dm \in Seq(Dumps), CrcsOf(cs, dm), NEW d
    PROVE  CrcsOf(cs, Append(dm, d))
  <1>1. Len(cs) \in Nat /\ Len(dm) \in Nat /\ Len(cs) <= Len(dm)
    BY DEF CrcsOf
  <1>2. Len(Append(dm, d)) = Len(dm) + 1 /\ \A k \in 1..Len(dm) : Append(dm, d)[k] = dm[k]
    OBVIOUS
  <1>3. \A k \in 1..Len(cs) : k \in 1..Len(dm)
    BY <1>1
  <1> DEFINE e == Append(dm, d)
  <1>4. \A k \in 1..Len(cs) : cs[k] = calc_frm_crc(dm[k].mem, dm[k].g) /\ e[k] = dm[k]
    BY <1>2, <1>3 DEF CrcsOf
  <1>5. Len(cs) <= Len(e)
    BY <1>1, <1>2
  <1> HIDE DEF e
  <1>6. CrcsOf(cs, e)
    BY <1>4, <1>5 DEF CrcsOf
  <1> QED BY <1>6 DEF e

LEMMA CrcsWrittenNext == Types /\ LastDumped /\ CrcsWritten /\ [Next]_vars => CrcsWritten'
  <1> SUFFICES ASSUME Types, LastDumped, CrcsWritten, [Next]_vars PROVE CrcsWritten'
    OBVIOUS
  <1>0. /\ made \in Nat /\ reads \in Nat /\ crcreads \in Nat /\ dumped \in Seq(Dumps) /\ crcs \in Seq(Crcs)
        /\ Len(dumped) \in Nat /\ Len(dumped) <= made /\ Len(crcs) \in Nat /\ file \in Seq(Byte)
    BY FrameAssumption DEF Types, FrameTypes, FileTypes, ReadTypes, CrcTypes
  <1>1. CASE UNCHANGED vars
    BY <1>1 DEF vars, frameVars, readVars, crcVars, CrcsWritten
  <1>2. ASSUME NEW fmt, NEW g, Fits(fmt, g), made' = made + 1,
               UNCHANGED <<file, dumped, reads, crcs, crcreads>>
        PROVE  CrcsWritten'
    <2>1. CASE made = 0
      <3>1. dumped = <<>> /\ file = <<>>
        BY <2>1, <1>0, <1>2 DEF Fits
      <3>2. crcs = <<>> /\ crcreads = 0
        BY <3>1, <2>1 DEF CrcsWritten
      <3>3. CrcsOf(<<>>, <<>>)
        BY DEF CrcsOf
      <3> QED BY <3>1, <3>2, <3>3, <2>1, <1>0, <1>2 DEF CrcsWritten
    <2>2. CASE made > 0
      <3>1. CrcsOf(crcs, dumped) /\ crcreads <= reads /\ made' > 0 /\ made' # 0
        BY <2>2, <1>0, <1>2 DEF CrcsWritten
      <3> QED BY <3>1, <1>2 DEF CrcsWritten
    <2> QED BY <2>1, <2>2, <1>0
  <1>3. CASE dump_mpp_frame_to_file
    <2>1. PICK d : dumped' = Append(dumped, d)
      BY <1>3 DEF dump_mpp_frame_to_file
    <2>2. made > 0 /\ UNCHANGED <<made, reads, crcs, crcreads>>
      BY <1>3, <1>0 DEF dump_mpp_frame_to_file, frameVars, readVars, crcVars
    <2>3. CrcsOf(crcs, dumped) /\ crcreads <= reads
      BY <2>2 DEF CrcsWritten
    <2>4. CrcsOf(crcs, Append(dumped, d))
      BY <2>3, <1>0, CrcsKept
    <2> QED BY <2>1, <2>2, <2>3, <2>4, <1>0 DEF CrcsWritten
  <1>4. CASE write_frm_crc
    <2> DEFINE c == calc_frm_crc(mem, frame.g)
    <2>1. /\ reads = 0 /\ dumped # <<>> /\ Len(dumped) = made /\ Len(crcs) = made - 1
          /\ crcs' = Append(crcs, c) /\ UNCHANGED <<made, file, dumped, reads, crcreads>>
      BY <1>4 DEF write_frm_crc, frameVars, readVars
    <2>2. made > 0
      BY <2>1, <1>0
    <2>3. CrcsOf(crcs, dumped) /\ crcreads <= reads
      BY <2>2 DEF CrcsWritten
    <2>4. c = calc_frm_crc(dumped[Len(dumped)].mem, dumped[Len(dumped)].g)
      BY <2>1, <2>2 DEF LastDumped
    <2> HIDE DEF c
    <2>5. CrcsOf(Append(crcs, c), dumped)
      BY <2>1, <2>3, <2>4, <1>0, OneCrcMore
    <2> QED BY <2>1, <2>2, <2>3, <2>5, <1>0 DEF CrcsWritten
  <1>5. CASE write_data_crc
    <2>1. /\ made = 0 /\ file # <<>> /\ crcs' = <<calc_data_crc(file)>>
          /\ UNCHANGED <<made, file, crcreads>>
      BY <1>5 DEF write_data_crc, Packet, frameVars
    <2> QED BY <2>1 DEF CrcsWritten
  <1>6. CASE read_data_crc
    <2>1. made = 0 /\ file # <<>> /\ UNCHANGED <<made, file, crcs>>
      BY <1>6 DEF read_data_crc, Packet, frameVars
    <2> QED BY <2>1 DEF CrcsWritten
  <1>7. CASE read_frm_crc
    <2>1. /\ crcreads < reads /\ dumped # <<>> /\ crcreads' = crcreads + 1
          /\ UNCHANGED <<made, dumped, reads, crcs>>
      BY <1>7 DEF read_frm_crc, frameVars, readVars
    <2>2. made > 0
      BY <2>1, <1>0
    <2> QED BY <2>1, <2>2, <1>0 DEF CrcsWritten
  <1>8. ASSUME NEW fmt, NEW g, read_image(fmt, g) PROVE CrcsWritten'
    <2>1. reads' = reads + 1 /\ UNCHANGED <<made, file, dumped, crcs, crcreads>>
      BY <1>8 DEF read_image, frameVars, crcVars
    <2> QED BY <2>1, <1>0 DEF CrcsWritten
  <1>9. ASSUME NEW fmt, NEW g, decode_frame(fmt, g) PROVE CrcsWritten'
    <2>1. Fits(fmt, g) /\ made' = made + 1 /\ UNCHANGED <<file, dumped, reads, crcs, crcreads>>
      BY <1>9 DEF decode_frame, readVars, crcVars
    <2> QED BY <2>1, <1>2
  <1>10. ASSUME NEW fmt, NEW g, NEW n, fill_image(fmt, g, n) PROVE CrcsWritten'
    <2>1. Fits(fmt, g) /\ made' = made + 1 /\ UNCHANGED <<file, dumped, reads, crcs, crcreads>>
      BY <1>10 DEF fill_image, readVars, crcVars
    <2> QED BY <2>1, <1>2
  <1> QED BY <1>1, <1>3, <1>4, <1>5, <1>6, <1>7, <1>8, <1>9, <1>10 DEF Next

LEMMA CrcReadNext == Types /\ CrcsWritten /\ CrcRead /\ [Next]_vars => CrcRead'
  <1> SUFFICES ASSUME Types, CrcsWritten, CrcRead, [Next]_vars PROVE CrcRead'
    OBVIOUS
  <1>0. /\ made \in Nat /\ crcreads \in Nat /\ crcs \in Seq(Crcs) /\ Len(crcs) \in Nat
        /\ Len(dumped) \in Nat /\ Len(dumped) <= made /\ dumped \in Seq(Dumps)
    BY FrameAssumption DEF Types, FrameTypes, FileTypes, CrcTypes
  <1>1. CASE UNCHANGED crcVars
    BY <1>1 DEF CrcRead, crcVars
  <1>2. ASSUME crcreads = 0, crcreads' = crcreads PROVE CrcRead'
    BY <1>2 DEF CrcRead
  <1>3. CASE write_frm_crc
    <2>1. /\ reads = 0 /\ dumped # <<>> /\ crcreads' = crcreads
      BY <1>3 DEF write_frm_crc
    <2>2. made > 0
      BY <2>1, <1>0
    <2>3. crcreads = 0
      BY <2>1, <2>2, <1>0 DEF CrcsWritten
    <2> QED BY <2>1, <2>3, <1>2
  <1>4. CASE write_data_crc
    BY <1>4, <1>2 DEF write_data_crc
  <1>5. ASSUME crc' = NextCrc, crcreads' = crcreads + 1, crcs' = crcs PROVE CrcRead'
    <2> SUFFICES ASSUME crcs # <<>> PROVE crc' = crcs[MPP_MIN(crcreads + 1, Len(crcs))]
      BY <1>5 DEF CrcRead
    <2>1. CASE crcreads < Len(crcs)
      <3>1. MPP_MIN(crcreads + 1, Len(crcs)) = crcreads + 1
        BY <2>1, <1>0 DEF MPP_MIN
      <3> QED BY <3>1, <2>1, <1>5 DEF NextCrc
    <2>2. CASE ~(crcreads < Len(crcs))
      <3>1. Len(crcs) # 0
        BY <1>0
      <3>2. /\ MPP_MIN(crcreads + 1, Len(crcs)) = Len(crcs) /\ crcreads > 0
            /\ MPP_MIN(crcreads, Len(crcs)) = Len(crcs)
        BY <3>1, <2>2, <1>0 DEF MPP_MIN
      <3> QED BY <3>2, <2>2, <1>5 DEF NextCrc, CrcRead
    <2> QED BY <2>1, <2>2
  <1> QED BY <1>1, <1>3, <1>4, <1>5 DEF Next, vars, decode_frame, fill_image, read_image,
             dump_mpp_frame_to_file, read_frm_crc, read_data_crc

(* The same with the checksums and their reader.                           *)
CrcInv == FileInv /\ LastDumped /\ CrcsWritten /\ CrcRead

LEMMA CrcInvariant == Spec => []CrcInv
  <1>2. Init => LastDumped /\ CrcsWritten /\ CrcRead
    BY DEF Init, LastDumped, CrcsWritten, CrcRead
  <1>3. CrcInv /\ [Next]_vars => CrcInv'
    <2> SUFFICES ASSUME CrcInv, [Next]_vars PROVE CrcInv'
      OBVIOUS
    <2>1. Types /\ Written /\ ReadTo /\ LastDumped /\ CrcsWritten /\ CrcRead
      BY DEF CrcInv, FileInv
    <2>2. Types' /\ Written' /\ ReadTo'
      BY <2>1, TypesNext, WrittenNext, ReadToNext
    <2>3. LastDumped' /\ CrcsWritten' /\ CrcRead'
      BY <2>1, LastDumpedNext, CrcsWrittenNext, CrcReadNext
    <2> QED BY <2>2, <2>3 DEF CrcInv, FileInv
  <1> QED BY <1>2, <1>3, FileInit, PTL DEF CrcInv, Spec

LEMMA CrcSeesAll == FileInv => CrcSeesPixels
  <1> SUFFICES ASSUME FileInv, frame.fmt = "YUV420SP", NEW a \in DOMAIN mem
               PROVE  LET this  == calc_frm_crc(mem, frame.g)
                          other == calc_frm_crc([mem EXCEPT ![a] = RK_U8(@ + 1)], frame.g)
                      IN  /\ this.luma # other.luma <=> a \in Range(Rows(Luma(frame.g)))
                          /\ frame.g.vs = frame.g.h =>
                                (this # other <=> a \in Range(Documented(frame.fmt, frame.g)))
    BY DEF CrcSeesPixels
  <1>1. frame.g \in Geometries /\ mem \in Memories
    BY DEF FileInv, Types, FrameTypes, None
  <1> DEFINE g == frame.g
             o == [mem EXCEPT ![a] = RK_U8(@ + 1)]
  <1>2. g \in Geometries
    BY <1>1
  <1> HIDE DEF g
  <1>3. (calc_frm_crc(mem, g).luma # calc_frm_crc(o, g).luma) <=> a \in Range(Rows(Luma(g)))
    BY <1>1, <1>2, LumaSees
  <1>4. ASSUME g.vs = g.h
        PROVE  (calc_frm_crc(mem, g) # calc_frm_crc(o, g)) <=> a \in Range(Documented("YUV420SP", g))
    BY <1>1, <1>2, <1>4, CrcSees
  <1> HIDE DEF o
  <1> QED BY <1>3, <1>4 DEF g, o

LEMMA CrcTellsPicture == CrcInv => CrcTells
  <1> SUFFICES ASSUME CrcInv, crcreads > 0, crcreads = reads, reads <= Len(crcs), dumped # <<>>,
                      ret = "MPP_OK", ~torn, read.fmt = "YUV420SP"
               PROVE  /\ crc.luma = calc_frm_crc(img, read.g).luma
                      /\ read.g.vs = read.g.h /\ dumped[reads].g.vs = dumped[reads].g.h
                            => crc = calc_frm_crc(img, read.g)
    BY DEF CrcTells
  <1>1. /\ FileInv /\ CrcsWritten /\ CrcRead /\ made \in Nat /\ reads \in Nat /\ crcs \in Seq(Crcs)
        /\ dumped \in Seq(Dumps) /\ Len(dumped) <= made /\ Len(dumped) \in Nat /\ Len(crcs) \in Nat
    BY FrameAssumption DEF CrcInv, FileInv, Types, FrameTypes, FileTypes, ReadTypes, CrcTypes
  <1>2. made > 0 /\ crcs # <<>>
    BY <1>1
  <1>3. CrcsOf(crcs, dumped)
    BY <1>1, <1>2 DEF CrcsWritten
  <1>4. reads \in 1..Len(crcs) /\ reads <= Len(dumped) /\ MPP_MIN(reads, Len(crcs)) = reads
    BY <1>1, <1>3 DEF CrcsOf, MPP_MIN
  <1>5. crc = crcs[reads]
    BY <1>1, <1>2, <1>4 DEF CrcRead
  <1> DEFINE r == read.g
             m == dumped[reads].mem
             g == dumped[reads].g
  <1>6. crc = calc_frm_crc(m, g)
    BY <1>3, <1>4, <1>5 DEF CrcsOf
  <1>7. /\ g \in Geometries /\ r \in Geometries /\ r.w = g.w /\ r.h = g.h
        /\ \A i \in 1..(6 * Quarters(r)) :
              ByteAt(img, ReadOrder("YUV420SP", r)[i]) = ByteAt(m, DumpOrder("YUV420SP", g)[i])
    BY <1>1, <1>4, PictureRead
  <1> HIDE DEF r, m, g
  <1>9. ReadOrder("YUV420SP", r) = SemiPlanar(r) /\ DumpOrder("YUV420SP", g) = SemiPlanar(g)
    BY <1>7, Walked DEF ReadOrder, DumpOrder
  <1>10. SamePicture(img, r, m, g)
    BY <1>7, <1>9, PictureOfWalk
  <1>11. SameLuma(img, r, m, g)
    BY <1>10 DEF SamePicture, SameLuma
  <1>12. calc_frm_crc(img, r).luma = calc_frm_crc(m, g).luma
    BY <1>7, <1>11, SameLumaCrc
  <1>13. ASSUME r.vs = r.h, g.vs = g.h PROVE calc_frm_crc(img, r) = calc_frm_crc(m, g)
    BY <1>7, <1>10, <1>13, SameCrc
  <1> QED BY <1>6, <1>12, <1>13 DEF r, g

LEMMA LastCrcKept == CrcInv => LastKept
  <1> SUFFICES ASSUME CrcInv, crcs # <<>>, crcreads >= Len(crcs) PROVE crc = Last(crcs)
    BY DEF LastKept
  <1>1. CrcRead /\ crcreads \in Nat /\ crcs \in Seq(Crcs)
    BY DEF CrcInv, FileInv, Types, CrcTypes
  <1>2. Len(crcs) \in Nat /\ Len(crcs) # 0
    BY <1>1
  <1>3. crcreads > 0 /\ MPP_MIN(crcreads, Len(crcs)) = Len(crcs)
    BY <1>1, <1>2 DEF MPP_MIN
  <1> QED BY <1>1, <1>3 DEF CrcRead, Last

LEMMA PacketCrcKept == CrcInv => DataCrcTells /\ DataCrcKept
  <1> SUFFICES ASSUME CrcInv PROVE DataCrcTells /\ DataCrcKept
    OBVIOUS
  <1>1. file \in Seq(Byte) /\ CrcsWritten /\ CrcRead /\ crcreads \in Nat
    BY FrameAssumption DEF CrcInv, FileInv, Types, FileTypes, CrcTypes
  <1>2. DataCrcTells
    BY <1>1, PacketTells DEF DataCrcTells
  <1>3. ASSUME Packet, crcreads > 0, crcs # <<>> PROVE crc = calc_data_crc(file)
    <2> DEFINE c == calc_data_crc(file)
    <2>1. crcs = <<c>> /\ crc = crcs[MPP_MIN(crcreads, Len(crcs))]
      BY <1>1, <1>3 DEF CrcsWritten, CrcRead, Packet
    <2> HIDE DEF c
    <2>2. Len(<<c>>) = 1 /\ <<c>>[1] = c
      OBVIOUS
    <2>3. MPP_MIN(crcreads, 1) = 1
      BY <1>1, <1>3 DEF MPP_MIN
    <2>4. crc = c
      BY <2>1, <2>2, <2>3
    <2> QED BY <2>4 DEF c
  <1> QED BY <1>2, <1>3 DEF DataCrcKept

(* For every geometry the luma of calc_frm_crc sees each luma sample and   *)
(* nothing else, and what read_frm_crc finds for picture k has the luma of *)
(* the picture read_image brought k-th, the file having been cut or not.   *)
(* The chroma, and with it the whole, is as good only for buffers without  *)
(* padding rows: with them utils.cpp:230 sums these.  A read at the end of *)
(* the file leaves its last checksum.  calc_data_crc sees each byte of a   *)
(* packet, and is read back as written.                                    *)
THEOREM FrameChecksums == Spec => []ChecksumsTell
  <1>1. CrcInv => ChecksumsTell
    BY CrcSeesAll, CrcTellsPicture, LastCrcKept, PacketCrcKept DEF ChecksumsTell, CrcInv
  <1> QED BY <1>1, CrcInvariant, PTL

-----------------------------------------------------------------------------
(* mpp_common.h *)

(* MPP_MAX4 and MPP_MIN4 are extremes of their arguments, and MPP_CLIP3    *)
(* with its bounds in order is the value nearest to v between them, as is  *)
(* mpp_clip.                                                               *)
THEOREM Extremes ==
    ASSUME NEW a \in Int, NEW b \in Int, NEW c \in Int, NEW d \in Int
    PROVE  /\ MPP_MAX4(a, b, c, d) \in {a, b, c, d}
           /\ \A v \in {a, b, c, d} : v <= MPP_MAX4(a, b, c, d) /\ MPP_MIN4(a, b, c, d) <= v
           /\ MPP_MIN4(a, b, c, d) \in {a, b, c, d}
           /\ a <= b => MPP_CLIP3(a, b, c) = MPP_MAX(a, MPP_MIN(b, c))
           /\ MPP_CLIP3(a, b, c) = mpp_clip(c, a, b)
  BY DEF MPP_MAX4, MPP_MAX3, MPP_MAX, MPP_MIN4, MPP_MIN3, MPP_MIN, MPP_CLIP3, mpp_clip

-----------------------------------------------------------------------------
(* A quotient and what remains.                                            *)
LEMMA Division == ASSUME NEW x \in Nat, NEW b \in Nat \ {0}
                  PROVE  /\ x \div b \in Nat
                         /\ b * (x \div b) <= x /\ x < b * (x \div b) + b
  BY SMT

(* MPP_DIV_SIGN rounds to the nearest integer, on either side of zero.     *)
THEOREM Rounds ==
    ASSUME NEW a \in Int, NEW b \in Nat \ {0}
    PROVE  2 * MPP_ABS(b * MPP_DIV_SIGN(a, b) - a) <= b
  <1> DEFINE x == MPP_ABS(a) + b \div 2
             q == x \div b
  <1>1. /\ b \div 2 \in Nat /\ 2 * (b \div 2) <= b /\ b <= 2 * (b \div 2) + 1
        /\ MPP_ABS(a) \in Nat
    BY SMT DEF MPP_ABS
  <1>2. x \in Nat /\ q \in Nat /\ b * q <= x /\ x < b * q + b
    <2>1. x \in Nat
      BY <1>1, SMT
    <2> HIDE DEF x
    <2> QED BY <2>1, Division
  <1>3. Quotient(MPP_SIGN(a) * b, 2) = IF a < 0 THEN -(b \div 2) ELSE b \div 2
    BY SMT DEF Quotient, MPP_SIGN, MPP_ABS
  <1>4. MPP_DIV_SIGN(a, b) = IF a < 0 THEN -q ELSE q
    <2>1. CASE a < 0
      BY <1>1, <1>3, <2>1, SMT DEF MPP_DIV_SIGN, Quotient, MPP_ABS
    <2>2. CASE ~ (a < 0)
      <3>1. a + Quotient(MPP_SIGN(a) * b, 2) = x /\ ~ (x < 0) /\ ~ (b < 0)
        BY <1>1, <1>2, <1>3, <2>2, SMT DEF MPP_ABS
      <3>2. MPP_ABS(x) = x /\ MPP_ABS(b) = b
        BY <3>1, SMT DEF MPP_ABS
      <3> HIDE DEF x
      <3> QED BY <3>1, <3>2, <2>2 DEF MPP_DIV_SIGN, Quotient
    <2> QED BY <2>1, <2>2
  <1> HIDE DEF q
  <1>5. b * q \in Int /\ b * (-q) = -(b * q)
    BY <1>2, SMT
  <1> QED BY <1>1, <1>2, <1>4, <1>5, SMT DEF MPP_ABS

-----------------------------------------------------------------------------
LEMMA XorTwice == ASSUME NEW v, NEW w
                  PROVE  /\ BitXor(w, BitXor(v, w)) = v
                         /\ BitXor(BitXor(v, w), v) = w
                         /\ BitXor(v, v) = {}
  BY DEF BitXor

(* MPP_VSWAP exchanges two objects as MPP_SWAP does, without a third; of   *)
(* an object with itself MPP_SWAP leaves it alone and MPP_VSWAP makes 0.   *)
THEOREM Swaps ==
    ASSUME NEW N, NEW Values, NEW s \in [N -> Values], NEW a \in N, NEW b \in N
    PROVE  /\ a # b => MPP_VSWAP(s, a, b) = MPP_SWAP(s, a, b)
           /\ MPP_VSWAP(s, a, a)[a] = {}
           /\ MPP_SWAP(s, a, a) = s
  <1> DEFINE t == XorInto(s, a, b)
             u == XorInto(t, b, a)
             v == XorInto(u, a, b)
  <1>1. ASSUME a # b PROVE MPP_VSWAP(s, a, b) = MPP_SWAP(s, a, b)
    <2>1. t = [s EXCEPT ![a] = BitXor(s[a], s[b])]
      BY DEF XorInto
    <2>2. u = [t EXCEPT ![b] = s[a]]
      <3>1. BitXor(t[b], t[a]) = s[a]
        BY <1>1, <2>1, XorTwice
      <3> QED BY <3>1 DEF XorInto
    <2>3. v = [u EXCEPT ![a] = s[b]]
      <3>1. u[a] = BitXor(s[a], s[b]) /\ u[b] = s[a]
        BY <1>1, <2>1, <2>2
      <3>2. BitXor(u[a], u[b]) = s[b]
        BY <3>1, XorTwice
      <3> QED BY <3>2 DEF XorInto
    <2>4. v = [s EXCEPT ![b] = s[a], ![a] = s[b]]
      <3> HIDE DEF t, u, v
      <3> QED BY <2>1, <2>2, <2>3, <1>1
    <2> QED BY <2>4 DEF MPP_VSWAP, MPP_SWAP
  <1>2. MPP_VSWAP(s, a, a)[a] = {}
    <2>1. XorInto(s, a, a) = [s EXCEPT ![a] = {}]
      BY XorTwice DEF XorInto
    <2>2. \A r : r = [s EXCEPT ![a] = {}] => XorInto(r, a, a) = r
      BY XorTwice DEF XorInto
    <2> QED BY <2>1, <2>2 DEF MPP_VSWAP
  <1>3. MPP_SWAP(s, a, a) = s
    BY DEF MPP_SWAP
  <1> QED BY <1>1, <1>2, <1>3

-----------------------------------------------------------------------------
(* What n bits hold of a number, and the bytes of a number put together. *)
Unsigned16(d) == d % 65536
Unsigned24(d) == d % 16777216
Unsigned32(d) == d % 4294967296
Unsigned64(d) == d % 18446744073709551616

LEMMA Digits16 == \A d \in Int : Num16(RK_U8(d \div 256), RK_U8(d)) = Unsigned16(d)
  BY SMT DEF RK_U8, Num16, Unsigned16

LEMMA Digits24 ==
    \A d \in Int : Num24(RK_U8(d \div 65536), RK_U8(d \div 256), RK_U8(d)) = Unsigned24(d)
  BY SMT DEF RK_U8, Num24, Unsigned24

LEMMA Digits32 ==
    \A d \in Int : Num32(RK_U8(d \div 16777216), RK_U8(d \div 65536), RK_U8(d \div 256), RK_U8(d))
                   = Unsigned32(d)
  BY SMT DEF RK_U8, Num32, Unsigned32

LEMMA Digits64 ==
    ASSUME NEW d \in Int
    PROVE  Num64(RK_U8(d \div 72057594037927936), RK_U8(d \div 281474976710656),
                 RK_U8(d \div 1099511627776), RK_U8(d \div 4294967296),
                 RK_U8(d \div 16777216), RK_U8(d \div 65536), RK_U8(d \div 256), RK_U8(d))
           = Unsigned64(d)
  <1> DEFINE high == d \div 4294967296
             low4 == RK_U8(d \div 16777216) * 16777216 + RK_U8(d \div 65536) * 65536
                     + RK_U8(d \div 256) * 256 + RK_U8(d)
             high4(h) == RK_U8(h \div 16777216) * 16777216 + RK_U8(h \div 65536) * 65536
                         + RK_U8(h \div 256) * 256 + RK_U8(h)
  <1>1. low4 = d % 4294967296
    BY SMT DEF RK_U8
  <1>2. \A h \in Int : high4(h) = h % 4294967296
    BY SMT DEF RK_U8
  <1>3. high \in Int /\ (high % 4294967296) * 4294967296 + (d % 4294967296) = d % 18446744073709551616
    BY SMT
  <1>4. /\ d \div 1099511627776 = high \div 256
        /\ d \div 281474976710656 = high \div 65536
        /\ d \div 72057594037927936 = high \div 16777216
    BY SMT
  <1>5. high4(high) * 4294967296 + low4 = d % 18446744073709551616
    <2> HIDE DEF high4, low4, high
    <2> QED BY <1>1, <1>2, <1>3, SMT
  <1>6. ASSUME NEW a \in Int, NEW b \in Int, NEW c \in Int, NEW e \in Int
        PROVE  (a * 16777216 + b * 65536 + c * 256 + e) * 4294967296
               = a * 72057594037927936 + b * 281474976710656 + c * 1099511627776 + e * 4294967296
    BY SMT
  <1>7. high4(high) * 4294967296
        = RK_U8(high \div 16777216) * 72057594037927936 + RK_U8(high \div 65536) * 281474976710656
          + RK_U8(high \div 256) * 1099511627776 + RK_U8(high) * 4294967296
    <2>1. /\ RK_U8(high \div 16777216) \in Int /\ RK_U8(high \div 65536) \in Int
          /\ RK_U8(high \div 256) \in Int /\ RK_U8(high) \in Int
      BY <1>3, SMT DEF RK_U8
    <2> QED BY <1>6, <2>1, SMT
  <1>8. /\ RK_U8(d \div 72057594037927936) = RK_U8(high \div 16777216)
        /\ RK_U8(d \div 281474976710656) = RK_U8(high \div 65536)
        /\ RK_U8(d \div 1099511627776) = RK_U8(high \div 256)
        /\ RK_U8(d \div 4294967296) = RK_U8(high)
    BY <1>4, SMT
  <1>9. /\ RK_U8(high \div 16777216) \in Int /\ RK_U8(high \div 65536) \in Int
         /\ RK_U8(high \div 256) \in Int /\ RK_U8(high) \in Int
         /\ RK_U8(d \div 16777216) \in Int /\ RK_U8(d \div 65536) \in Int
         /\ RK_U8(d \div 256) \in Int /\ RK_U8(d) \in Int
    BY <1>3, SMT DEF RK_U8
  <1>10. high4(high) * 4294967296 \in Int
    BY <1>2, <1>3, SMT
  <1> QED BY <1>5, <1>7, <1>8, <1>9, <1>10, SMT DEF Num64, Unsigned64

-----------------------------------------------------------------------------
(* A number written in either byte order is read back in the same order    *)
(* modulo what its bytes hold, and no other byte of the memory changes.    *)
THEOREM ReadBack16 ==
    ASSUME NEW m \in Memory, NEW p \in Nat, NEW d \in Int
    PROVE  /\ MPP_RB16(MPP_WB16(m, p, d), p) = Unsigned16(d)
           /\ MPP_RL16(MPP_WL16(m, p, d), p) = Unsigned16(d)
           /\ \A a \in Nat \ p..(p + 1) : MPP_WB16(m, p, d)[a] = m[a] /\ MPP_WL16(m, p, d)[a] = m[a]
  <1> DEFINE big == MPP_WB16(m, p, d)
             little == MPP_WL16(m, p, d)
  <1>1. /\ big[p + 1] = RK_U8(d)
        /\ big[p] = RK_U8(d \div 256)
    BY SMT DEF MPP_WB16, Memory
  <1>2. /\ little[p] = RK_U8(d)
        /\ little[p + 1] = RK_U8(d \div 256)
    BY SMT DEF MPP_WL16, Memory
  <1>3. MPP_RB16(big, p) = Unsigned16(d)
    <2> HIDE DEF big
    <2> QED BY <1>1, Digits16, SMT DEF MPP_RB16
  <1>4. MPP_RL16(little, p) = Unsigned16(d)
    <2> HIDE DEF little
    <2> QED BY <1>2, Digits16, SMT DEF MPP_RL16
  <1>5. \A a \in Nat \ p..(p + 1) : big[a] = m[a] /\ little[a] = m[a]
    BY SMT DEF MPP_WB16, MPP_WL16, Memory
  <1> QED BY <1>3, <1>4, <1>5, SMT

(* The same for three bytes. *)
THEOREM ReadBack24 ==
    ASSUME NEW m \in Memory, NEW p \in Nat, NEW d \in Int
    PROVE  /\ MPP_RB24(MPP_WB24(m, p, d), p) = Unsigned24(d)
           /\ MPP_RL24(MPP_WL24(m, p, d), p) = Unsigned24(d)
           /\ \A a \in Nat \ p..(p + 2) : MPP_WB24(m, p, d)[a] = m[a] /\ MPP_WL24(m, p, d)[a] = m[a]
  <1> DEFINE big == MPP_WB24(m, p, d)
             little == MPP_WL24(m, p, d)
  <1>1. /\ big[p + 2] = RK_U8(d)
        /\ big[p + 1] = RK_U8(d \div 256)
        /\ big[p] = RK_U8(d \div 65536)
    BY SMT DEF MPP_WB24, Memory
  <1>2. /\ little[p] = RK_U8(d)
        /\ little[p + 1] = RK_U8(d \div 256)
        /\ little[p + 2] = RK_U8(d \div 65536)
    BY SMT DEF MPP_WL24, Memory
  <1>3. MPP_RB24(big, p) = Unsigned24(d)
    <2> HIDE DEF big
    <2> QED BY <1>1, Digits24, SMT DEF MPP_RB24
  <1>4. MPP_RL24(little, p) = Unsigned24(d)
    <2> HIDE DEF little
    <2> QED BY <1>2, Digits24, SMT DEF MPP_RL24
  <1>5. \A a \in Nat \ p..(p + 2) : big[a] = m[a] /\ little[a] = m[a]
    BY SMT DEF MPP_WB24, MPP_WL24, Memory
  <1> QED BY <1>3, <1>4, <1>5, SMT

(* The same for four bytes, which are read as an int: see SignOf32.      *)
THEOREM ReadBack32 ==
    ASSUME NEW m \in Memory, NEW p \in Nat, NEW d \in Int
    PROVE  /\ MPP_RB32(MPP_WB32(m, p, d), p) = Int32(Unsigned32(d))
           /\ MPP_RL32(MPP_WL32(m, p, d), p) = Int32(Unsigned32(d))
           /\ \A a \in Nat \ p..(p + 3) : MPP_WB32(m, p, d)[a] = m[a] /\ MPP_WL32(m, p, d)[a] = m[a]
  <1> DEFINE big == MPP_WB32(m, p, d)
             little == MPP_WL32(m, p, d)
  <1>1. /\ big[p + 3] = RK_U8(d)
        /\ big[p + 2] = RK_U8(d \div 256)
        /\ big[p + 1] = RK_U8(d \div 65536)
        /\ big[p] = RK_U8(d \div 16777216)
    BY SMT DEF MPP_WB32, Memory
  <1>2. /\ little[p] = RK_U8(d)
        /\ little[p + 1] = RK_U8(d \div 256)
        /\ little[p + 2] = RK_U8(d \div 65536)
        /\ little[p + 3] = RK_U8(d \div 16777216)
    BY SMT DEF MPP_WL32, Memory
  <1>3. MPP_RB32(big, p) = Int32(Unsigned32(d))
    <2> HIDE DEF big
    <2> QED BY <1>1, Digits32, SMT DEF MPP_RB32
  <1>4. MPP_RL32(little, p) = Int32(Unsigned32(d))
    <2> HIDE DEF little
    <2> QED BY <1>2, Digits32, SMT DEF MPP_RL32
  <1>5. \A a \in Nat \ p..(p + 3) : big[a] = m[a] /\ little[a] = m[a]
    BY SMT DEF MPP_WB32, MPP_WL32, Memory
  <1> QED BY <1>3, <1>4, <1>5, SMT

(* The same for eight bytes, which are read without a sign. *)
THEOREM ReadBack64 ==
    ASSUME NEW m \in Memory, NEW p \in Nat, NEW d \in Int
    PROVE  /\ MPP_RB64(MPP_WB64(m, p, d), p) = Unsigned64(d)
           /\ MPP_RL64(MPP_WL64(m, p, d), p) = Unsigned64(d)
           /\ \A a \in Nat \ p..(p + 7) : MPP_WB64(m, p, d)[a] = m[a] /\ MPP_WL64(m, p, d)[a] = m[a]
  <1> DEFINE big == MPP_WB64(m, p, d)
             little == MPP_WL64(m, p, d)
  <1>1. /\ big[p + 7] = RK_U8(d)
        /\ big[p + 6] = RK_U8(d \div 256)
        /\ big[p + 5] = RK_U8(d \div 65536)
        /\ big[p + 4] = RK_U8(d \div 16777216)
        /\ big[p + 3] = RK_U8(d \div 4294967296)
        /\ big[p + 2] = RK_U8(d \div 1099511627776)
        /\ big[p + 1] = RK_U8(d \div 281474976710656)
        /\ big[p] = RK_U8(d \div 72057594037927936)
    BY SMT DEF MPP_WB64, Memory
  <1>2. /\ little[p] = RK_U8(d)
        /\ little[p + 1] = RK_U8(d \div 256)
        /\ little[p + 2] = RK_U8(d \div 65536)
        /\ little[p + 3] = RK_U8(d \div 16777216)
        /\ little[p + 4] = RK_U8(d \div 4294967296)
        /\ little[p + 5] = RK_U8(d \div 1099511627776)
        /\ little[p + 6] = RK_U8(d \div 281474976710656)
        /\ little[p + 7] = RK_U8(d \div 72057594037927936)
    BY SMT DEF MPP_WL64, Memory
  <1>3. MPP_RB64(big, p) = Unsigned64(d)
    <2> HIDE DEF big
    <2> QED BY <1>1, Digits64, SMT DEF MPP_RB64
  <1>4. MPP_RL64(little, p) = Unsigned64(d)
    <2> HIDE DEF little
    <2> QED BY <1>2, Digits64, SMT DEF MPP_RL64
  <1>5. \A a \in Nat \ p..(p + 7) : big[a] = m[a] /\ little[a] = m[a]
    BY SMT DEF MPP_WB64, MPP_WL64, Memory
  <1> QED BY <1>3, <1>4, <1>5, SMT

(* MPP_RB32 and MPP_RL32 read back an RK_S32 as it was, and an RK_U32 of   *)
(* 2^31 or more as a negative number: compared with an RK_U64 it differs.  *)
THEOREM SignOf32 ==
    ASSUME NEW m \in Memory, NEW p \in Nat, NEW d \in Int
    PROVE  LET got == MPP_RB32(MPP_WB32(m, p, d), p)
           IN  /\ -2147483648 <= d /\ d < 2147483648 => got = d
               /\ 2147483648 <= d /\ d < 4294967296 => got = d - 4294967296
  <1>1. MPP_RB32(MPP_WB32(m, p, d), p) = Int32(Unsigned32(d))
    BY ReadBack32, SMT
  <1>2. /\ -2147483648 <= d /\ d < 2147483648 => Int32(Unsigned32(d)) = d
        /\ 2147483648 <= d /\ d < 4294967296 => Int32(Unsigned32(d)) = d - 4294967296
    BY SMT DEF Int32, Unsigned32
  <1> QED BY <1>1, <1>2, SMT

-----------------------------------------------------------------------------
(* mpp_list.h: its nodes, its links, and the loop with its two places.     *)

CONSTANT Node
VARIABLES next, prev, list, rank, first, last, how, here, upnext, begun, seen

Li == INSTANCE MppList WITH pos <- here, n <- upnext

(* The ranks tell the nodes of the list apart, and lie between first and   *)
(* last: what is added at either end belongs before or after all others.   *)
Ranked == /\ \A z \in list : first <= rank[z] /\ rank[z] <= last
          /\ \A y, z \in list : rank[y] = rank[z] => y = z

(* A loop at pos that goes on to n has left behind what it has seen, and   *)
(* has all before it that it has not; what was deleted, it has visited.    *)
Ahead == /\ here \in begun \ seen /\ upnext \in list \cup {Li!Head}
         /\ here \in list => upnext = next[here]
         /\ how = "entry" => here \in list
         /\ \A z \in list : z \in seen \cup {here} \/ (upnext # Li!Head /\ rank[upnext] <= rank[z])
         /\ \A z \in seen \cap list : upnext = Li!Head \/ rank[z] < rank[upnext]
         /\ seen \subseteq begun /\ list \subseteq begun
         /\ begun \ list \subseteq seen \cup {here}

(* The reverse loop deletes nothing, and has seen what comes after pos.    *)
Behind == /\ list = begun /\ here \in list
          /\ seen = {z \in list : rank[here] < rank[z]}

InLoop == /\ how \in {"safe", "entry"} => Ahead
          /\ how = "reverse" => Behind

IInv == Li!TypeOK /\ Ranked /\ Li!Linked /\ InLoop

LEMMA HeadApart == Li!Head \notin Node
  BY NoSetContainsEverything DEF Li!Head

LEMMA InitIInv == Li!Init => IInv
  <1> SUFFICES ASSUME Li!Init PROVE IInv
    OBVIOUS
  <1> USE HeadApart
  <1>1. Li!TypeOK
    BY DEF Li!Init, Li!TypeOK, Li!All
  <1>2. Ranked /\ InLoop
    BY DEF Li!Init, Ranked, InLoop
  <1>3. Li!Linked
    BY DEF Li!Init, Li!Linked, Li!Neighbours
  <1> QED BY <1>1, <1>2, <1>3 DEF IInv

-----------------------------------------------------------------------------
(* Linking a node in between neighbours keeps the ring, whatever its rank, *)
(* as long as that lies between theirs.                                    *)
LEMMA AddLinks ==
  ASSUME IInv, NEW new \in Node, new \notin list,
         NEW p \in list \cup {Li!Head}, Li!__list_add(new, p, next[p]),
         list' = list \cup {new}, NEW r \in Int, rank' = [rank EXCEPT ![new] = r],
         p # Li!Head => rank[p] < r, next[p] # Li!Head => r < rank[next[p]]
  PROVE  Li!Linked'
  <1> USE HeadApart
  <1> DEFINE x == next[p]
  <1>1. /\ x \in list \cup {Li!Head} /\ prev[x] = p
        /\ list \subseteq Node /\ p # new /\ x # new
    BY DEF IInv, Li!TypeOK, Li!Linked
  <1>2. \A z \in Li!All : /\ next'[z] = IF z = p THEN new ELSE IF z = new THEN x ELSE next[z]
                       /\ prev'[z] = IF z = x THEN new ELSE IF z = new THEN p ELSE prev[z]
    BY <1>1 DEF IInv, Li!TypeOK, Li!__list_add, Li!All
  <1>3. \A z \in list : rank'[z] = rank[z]
    BY <1>1 DEF IInv, Li!TypeOK
  <1>4. rank'[new] = r
    BY DEF IInv, Li!TypeOK
  <1>5. ASSUME NEW y \in list' \cup {Li!Head}
        PROVE  /\ next'[y] \in list' \cup {Li!Head} /\ prev'[y] \in list' \cup {Li!Head}
               /\ prev'[next'[y]] = y /\ next'[prev'[y]] = y
    BY <1>1, <1>2, <1>5 DEF IInv, Li!Linked, Li!All
  <1>6. ASSUME NEW y \in list' \cup {Li!Head} PROVE Li!Neighbours(y, next[y])'
    <2>1. CASE y = p
      BY <2>1, <1>1, <1>2, <1>3, <1>4 DEF IInv, Li!TypeOK, Li!Linked, Li!Neighbours, Li!All
    <2>2. CASE y = new
      BY <2>2, <1>1, <1>2, <1>3, <1>4 DEF IInv, Li!TypeOK, Li!Linked, Li!Neighbours, Li!All
    <2>3. CASE y # p /\ y # new
      <3>1. /\ y \in list \cup {Li!Head} /\ next'[y] = next[y] /\ next[y] \in list \cup {Li!Head}
            /\ next[y] # new /\ y \in Li!All
        BY <2>3, <1>1, <1>2 DEF IInv, Li!Linked, Li!All
      <3>2. \A z \in list : rank[z] \in Int
        BY <1>1 DEF IInv, Li!TypeOK
      <3>3. Li!Neighbours(y, next[y]) /\ Li!Neighbours(p, x)
        BY <3>1 DEF IInv, Li!Linked
      <3>4. ~ /\ y = Li!Head \/ rank[y] < r
              /\ next[y] = Li!Head \/ r < rank[next[y]]
        BY <3>1, <3>2, <3>3, <2>3, <1>1 DEF IInv, Ranked, Li!Neighbours
      <3> QED BY <3>1, <3>3, <3>4, <2>3, <1>3, <1>4 DEF Li!Neighbours
    <2> QED BY <2>1, <2>2, <2>3
  <1> QED BY <1>5, <1>6 DEF Li!Linked

(* Taking a node out of the ring joins its neighbours. *)
LEMMA DelLinks ==
  ASSUME IInv, NEW entry \in Node, Li!list_del_init(entry)
  PROVE  Li!Linked'
  <1> USE HeadApart
  <1>1. /\ entry \in list /\ list \subseteq Node /\ list' = list \ {entry} /\ rank' = rank
        /\ next[entry] \in list \cup {Li!Head} /\ prev[entry] \in list \cup {Li!Head}
        /\ next[entry] # entry /\ prev[entry] # entry
    BY DEF IInv, Li!TypeOK, Li!Linked, Li!Neighbours, Li!list_del_init
  <1>2. \A z \in Li!All :
          /\ next'[z] = IF z = entry THEN entry ELSE
                        IF z = prev[entry] THEN next[entry] ELSE next[z]
          /\ prev'[z] = IF z = entry THEN entry ELSE
                        IF z = next[entry] THEN prev[entry] ELSE prev[z]
    BY <1>1 DEF IInv, Li!TypeOK, Li!list_del_init, Li!All
  <1>3. ASSUME NEW y \in list' \cup {Li!Head}
        PROVE  /\ next'[y] \in list' \cup {Li!Head} /\ prev'[y] \in list' \cup {Li!Head}
               /\ prev'[next'[y]] = y /\ next'[prev'[y]] = y
    BY <1>1, <1>2, <1>3 DEF IInv, Li!Linked, Li!All
  <1>4. ASSUME NEW y \in list' \cup {Li!Head} PROVE Li!Neighbours(y, next[y])'
    <2>1. /\ y \in list \cup {Li!Head} /\ y \in Li!All /\ y # entry
          /\ Li!Neighbours(y, next[y]) /\ Li!Neighbours(entry, next[entry])
      BY <1>1 DEF IInv, Li!Linked, Li!All
    <2>2. \A z \in list : rank[z] \in Int
      BY <1>1 DEF IInv, Li!TypeOK
    <2>3. CASE y = prev[entry]
      <3>1. next'[y] = next[entry] /\ next[y] = entry
        BY <2>1, <2>3, <1>1, <1>2 DEF IInv, Li!Linked
      <3> QED BY <3>1, <2>1, <2>2, <1>1 DEF Li!Neighbours, IInv, Ranked
    <2>4. CASE y # prev[entry]
      BY <2>1, <2>4, <1>1, <1>2 DEF Li!Neighbours
    <2> QED BY <2>3, <2>4
  <1> QED BY <1>3, <1>4 DEF Li!Linked

-----------------------------------------------------------------------------
LEMMA ListAdd ==
  ASSUME IInv, NEW new \in Node, Li!list_add(new) PROVE IInv'
  <1> USE HeadApart
  <1>1. Li!TypeOK'
    BY DEF IInv, Li!TypeOK, Li!list_add, Li!__list_add, Li!loopVars, Li!Linked, Li!All
  <1>2. \A z \in list : rank'[z] = rank[z] /\ z # new /\ rank[z] \in Int
    BY DEF IInv, Li!TypeOK, Li!list_add
  <1>3. rank'[new] = first - 1 /\ first' = first - 1 /\ last' = last /\ list' = list \cup {new}
    BY DEF IInv, Li!TypeOK, Li!list_add
  <1>4. Ranked'
    BY <1>2, <1>3 DEF IInv, Li!TypeOK, Ranked
  <1>5. Li!Linked'
    <2>1. next[Li!Head] # Li!Head => first - 1 < rank[next[Li!Head]]
      BY <1>2 DEF IInv, Li!TypeOK, Ranked, Li!Linked
    <2>2. first - 1 \in Int
      BY DEF IInv, Li!TypeOK
    <2>3. rank' = [rank EXCEPT ![new] = first - 1] /\ Li!__list_add(new, Li!Head, next[Li!Head])
      BY DEF Li!list_add
    <2> QED BY <2>1, <2>2, <2>3, <1>3, AddLinks DEF Li!list_add
  <1>6. InLoop'
    BY DEF Li!list_add, InLoop, Li!loopVars
  <1> QED BY <1>1, <1>4, <1>5, <1>6 DEF IInv

LEMMA ListAddTail ==
  ASSUME IInv, NEW new \in Node, Li!list_add_tail(new) PROVE IInv'
  <1> USE HeadApart
  <1>1. Li!TypeOK'
    BY DEF IInv, Li!TypeOK, Li!list_add_tail, Li!__list_add, Li!loopVars, Li!Linked, Li!All
  <1>2. \A z \in list : rank'[z] = rank[z] /\ z # new /\ rank[z] \in Int
    BY DEF IInv, Li!TypeOK, Li!list_add_tail
  <1>3. rank'[new] = last + 1 /\ first' = first /\ last' = last + 1 /\ list' = list \cup {new}
    BY DEF IInv, Li!TypeOK, Li!list_add_tail
  <1>4. Ranked'
    BY <1>2, <1>3 DEF IInv, Li!TypeOK, Ranked
  <1>5. Li!Linked'
    <2>1. prev[Li!Head] \in list \cup {Li!Head} /\ next[prev[Li!Head]] = Li!Head
      BY DEF IInv, Li!Linked
    <2>2. prev[Li!Head] # Li!Head => rank[prev[Li!Head]] < last + 1
      BY <2>1, <1>2 DEF IInv, Li!TypeOK, Ranked
    <2>3. last + 1 \in Int
      BY DEF IInv, Li!TypeOK
    <2>4. rank' = [rank EXCEPT ![new] = last + 1] /\ Li!__list_add(new, prev[Li!Head], next[prev[Li!Head]])
      BY <2>1 DEF Li!list_add_tail
    <2> QED BY <2>1, <2>2, <2>3, <2>4, <1>3, AddLinks DEF Li!list_add_tail
  <1>6. InLoop'
    BY DEF Li!list_add_tail, InLoop, Li!loopVars
  <1> QED BY <1>1, <1>4, <1>5, <1>6 DEF IInv

LEMMA ListDel ==
  ASSUME IInv, NEW entry \in Node, Li!list_del_init(entry) PROVE IInv'
  <1> USE HeadApart
  <1>1. Li!TypeOK'
    BY DEF IInv, Li!TypeOK, Li!list_del_init, Li!loopVars, Li!Linked, Li!All
  <1>2. Ranked'
    BY DEF IInv, Ranked, Li!list_del_init
  <1>3. Li!Linked'
    BY DelLinks
  <1>4. InLoop'
    <2>1. CASE how = "no"
      BY <2>1 DEF Li!list_del_init, InLoop, Li!loopVars
    <2>2. CASE how = "safe" /\ entry = here
      <3>1. upnext # here
        BY <2>2 DEF IInv, Li!TypeOK, InLoop, Ahead, Li!Linked, Li!Neighbours, Li!list_del_init
      <3> QED BY <3>1, <2>2 DEF IInv, InLoop, Ahead, Li!list_del_init, Li!loopVars
    <2> QED BY <2>1, <2>2 DEF Li!list_del_init
  <1> QED BY <1>1, <1>2, <1>3, <1>4 DEF IInv

(* The next node of a forward loop is n, whichever loop it is. *)
LEMMA GoesOn == ASSUME IInv, how \in {"safe", "entry"} PROVE Li!Following = upnext
  BY DEF IInv, Li!TypeOK, InLoop, Ahead, Li!Following

LEMMA LoopBegins == ASSUME IInv, Li!loop_begins PROVE IInv'
  <1> USE HeadApart
  <1>1. /\ next[Li!Head] \in list /\ next[next[Li!Head]] \in list \cup {Li!Head}
        /\ Li!Neighbours(Li!Head, next[Li!Head]) /\ Li!Neighbours(next[Li!Head], next[next[Li!Head]])
        /\ next[Li!Head] # next[next[Li!Head]]
    BY DEF IInv, Li!TypeOK, Li!Linked, Li!Neighbours, Li!loop_begins
  <1>2. InLoop'
    BY <1>1 DEF IInv, Li!TypeOK, Ranked, Li!Neighbours, InLoop, Ahead, Li!loop_begins, Li!linkVars, Li!orderVars
  <1>3. (Li!TypeOK /\ Ranked /\ Li!Linked)'
    BY DEF IInv, Li!TypeOK, Ranked, Li!Linked, Li!Neighbours, Li!loop_begins, Li!linkVars, Li!orderVars
  <1> QED BY <1>2, <1>3 DEF IInv

LEMMA LoopBeginsReverse == ASSUME IInv, Li!loop_begins_reverse PROVE IInv'
  <1> USE HeadApart
  <1>1. /\ prev[Li!Head] \in list /\ next[prev[Li!Head]] = Li!Head /\ Li!Neighbours(prev[Li!Head], Li!Head)
        /\ \A z \in list : rank[z] \in Int
    BY DEF IInv, Li!TypeOK, Li!Linked, Li!loop_begins_reverse
  <1>2. InLoop'
    BY <1>1 DEF Li!Neighbours, InLoop, Behind, Li!loop_begins_reverse, Li!linkVars, Li!orderVars
  <1>3. (Li!TypeOK /\ Ranked /\ Li!Linked)'
    BY DEF IInv, Li!TypeOK, Ranked, Li!Linked, Li!Neighbours, Li!loop_begins_reverse, Li!linkVars, Li!orderVars
  <1> QED BY <1>2, <1>3 DEF IInv

LEMMA TurnsForward ==
  ASSUME IInv, Li!loop_turns, how # "reverse" PROVE IInv' /\ here' \in begun \ seen'
  <1> USE HeadApart
  <1>1. /\ how \in {"safe", "entry"} /\ Ahead /\ upnext \in list /\ here' = upnext /\ upnext' = next[upnext] /\ seen' = seen \cup {here}
        /\ list \subseteq Node /\ list' = list /\ begun' = begun /\ how' = how /\ next' = next /\ rank' = rank
    BY GoesOn DEF IInv, Li!TypeOK, InLoop, Ahead, Li!loop_turns, Li!linkVars, Li!orderVars
  <1>2. /\ next[upnext] \in list \cup {Li!Head} /\ Li!Neighbours(upnext, next[upnext])
        /\ \A z \in list : rank[z] \in Int
        /\ here \in list => rank[here] < rank[upnext]
    BY <1>1 DEF IInv, Li!TypeOK, Li!Linked, Li!Neighbours, Ahead
  <1>3. upnext # here /\ upnext \notin seen /\ upnext \in begun
    BY <1>1, <1>2 DEF Ahead
  <1>4. Ahead'
    <2>1. \A z \in list : z \in seen' \cup {here'} \/ (upnext' # Li!Head /\ rank[upnext'] <= rank[z])
      BY <1>1, <1>2 DEF Ahead, Li!Neighbours, IInv, Ranked
    <2>2. \A z \in seen' \cap list : upnext' = Li!Head \/ rank[z] < rank[upnext']
      BY <1>1, <1>2 DEF Ahead, Li!Neighbours
    <2> QED BY <2>1, <2>2, <1>1, <1>2, <1>3 DEF Ahead
  <1>5. (Li!TypeOK /\ Ranked /\ Li!Linked)'
    BY <1>1 DEF IInv, Li!TypeOK, Ranked, Li!Linked, Li!Neighbours, Li!loop_turns, Li!linkVars, Li!orderVars, Ahead
  <1> QED BY <1>1, <1>3, <1>4, <1>5 DEF IInv, InLoop

LEMMA TurnsReverse ==
  ASSUME IInv, Li!loop_turns, how = "reverse" PROVE IInv' /\ here' \in begun \ seen'
  <1> USE HeadApart
  <1>1. /\ Behind /\ here' = prev[here] /\ prev[here] # Li!Head /\ seen' = seen \cup {here}
        /\ list' = list /\ begun' = begun /\ how' = how /\ rank' = rank
    BY DEF IInv, InLoop, Li!Following, Li!loop_turns, Li!orderVars
  <1>2. /\ prev[here] \in list /\ list \subseteq Node /\ Li!Neighbours(prev[here], here)
        /\ \A z \in list : rank[z] \in Int
    BY <1>1 DEF IInv, Li!TypeOK, Li!Linked, Behind
  <1>3. rank[prev[here]] < rank[here] /\ here \in list /\ seen = {z \in list : rank[here] < rank[z]}
    BY <1>1, <1>2 DEF Li!Neighbours, Behind
  <1>4. \A z \in list : rank[prev[here]] < rank[z] <=> z = here \/ rank[here] < rank[z]
    BY <1>1, <1>2, <1>3 DEF Li!Neighbours, IInv, Ranked
  <1>5. seen' = {z \in list : rank[prev[here]] < rank[z]}
    BY <1>1, <1>3, <1>4
  <1>6. Behind' /\ here' \in begun \ seen'
    BY <1>1, <1>2, <1>5 DEF Behind
  <1>7. (Li!TypeOK /\ Ranked /\ Li!Linked)'
    BY <1>1, <1>6 DEF IInv, Li!TypeOK, Ranked, Li!Linked, Li!Neighbours, Behind, Li!loop_turns, Li!linkVars, Li!orderVars
  <1> QED BY <1>1, <1>6, <1>7 DEF IInv, InLoop

LEMMA LoopTurns == ASSUME IInv, Li!loop_turns PROVE IInv' /\ here' \in begun \ seen'
  BY TurnsForward, TurnsReverse

LEMMA LoopEnds == ASSUME IInv, Li!loop_ends PROVE IInv' /\ seen' = begun
  <1> USE HeadApart
  <1>1. (Li!TypeOK /\ Ranked /\ Li!Linked)'
    BY DEF IInv, Li!TypeOK, Ranked, Li!Linked, Li!Neighbours, Li!loop_ends, Li!linkVars, Li!orderVars, InLoop, Ahead, Behind
  <1>2. InLoop'
    BY DEF InLoop, Li!loop_ends
  <1>3. seen' = begun
    <2>1. CASE how # "reverse"
      <3>1. how \in {"safe", "entry"}
        BY <2>1 DEF IInv, Li!TypeOK, Li!loop_ends
      <3> QED BY <3>1, GoesOn DEF IInv, InLoop, Ahead, Li!loop_ends
    <2>2. CASE how = "reverse"
      <3>1. /\ Behind /\ prev[here] = Li!Head /\ next[Li!Head] = here /\ Li!Neighbours(Li!Head, here)
            /\ seen' = seen \cup {here} /\ \A z \in list : rank[z] \in Int
        BY <2>2 DEF IInv, Li!TypeOK, InLoop, Li!Following, Li!Linked, Behind, Li!loop_ends
      <3>2. \A z \in list : z = here \/ rank[here] < rank[z]
        BY <3>1 DEF IInv, Ranked, Li!Neighbours, Behind, Li!TypeOK
      <3> QED BY <3>1, <3>2 DEF Behind
    <2> QED BY <2>1, <2>2
  <1> QED BY <1>1, <1>2, <1>3 DEF IInv

LEMMA NextIInv == IInv /\ [Li!Next]_(Li!vars) => IInv'
  <1> SUFFICES ASSUME IInv, [Li!Next]_(Li!vars) PROVE IInv'
    OBVIOUS
  <1>1. CASE UNCHANGED Li!vars
    BY <1>1 DEF Li!vars, Li!linkVars, Li!orderVars, Li!loopVars, IInv, Li!TypeOK, Ranked, Li!Linked, Li!Neighbours,
                InLoop, Ahead, Behind
  <1> QED BY <1>1, ListAdd, ListAddTail, ListDel, LoopBegins, LoopBeginsReverse, LoopTurns, LoopEnds DEF Li!Next

(* The list_add, list_add_tail, list_del_init and loops of mpp_list.h keep *)
(* the invariant: the ring in the order asked for, and each loop between   *)
(* what it has seen and what it has before it.                             *)
THEOREM Invariance == Li!Spec => []IInv
  BY InitIInv, NextIInv, PTL DEF Li!Spec

-----------------------------------------------------------------------------
(* After any additions, at either end, and any deletions, next goes from   *)
(* the head through the nodes of the list in their order, and prev back.   *)
THEOREM ListLinked == Li!Spec => []Li!Linked
  <1>1. IInv => Li!Linked
    BY DEF IInv
  <1> QED BY <1>1, Invariance, PTL

(* list_empty and list_is_last are true of the empty list and of the node  *)
(* no other comes after, and of no other.                                  *)
THEOREM ListTells == Li!Spec => []Li!Tells
  <1>1. IInv => Li!Tells
    <2> SUFFICES ASSUME IInv PROVE Li!Tells
      OBVIOUS
    <2> USE HeadApart
    <2>1. Li!list_empty <=> list = {}
      BY DEF IInv, Li!TypeOK, Li!Linked, Li!Neighbours, Li!list_empty
    <2>2. ASSUME NEW x \in list
          PROVE  Li!list_is_last(x) <=> \A z \in list : rank[z] <= rank[x]
      <3>1. /\ x # Li!Head /\ next[x] \in list \cup {Li!Head} /\ Li!Neighbours(x, next[x])
            /\ \A z \in list : rank[z] \in Int
        BY <2>2 DEF IInv, Li!TypeOK, Li!Linked
      <3>2. CASE next[x] = Li!Head
        BY <3>1, <3>2, <2>2 DEF Li!Neighbours, Li!list_is_last
      <3>3. CASE next[x] # Li!Head
        BY <3>1, <3>3, <2>2 DEF Li!Neighbours, Li!list_is_last
      <3> QED BY <3>2, <3>3
    <2> QED BY <2>1, <2>2 DEF Li!Tells
  <1> QED BY <1>1, Invariance, PTL

(* A loop visits each node it began with once, and no node it deleted      *)
(* before it came to it; the safe loops keep to it when the body deletes   *)
(* the node it is at, which list_for_each_entry would not.                 *)
THEOREM LoopVisits == Li!Spec => Li!EachOnce
  <1>1. IInv /\ [Li!Next]_(Li!vars) => [Li!VisitsOnce]_(Li!vars)
    BY LoopTurns, LoopEnds DEF Li!VisitsOnce
  <1> QED BY <1>1, Invariance, PTL DEF Li!Spec, Li!EachOnce

-----------------------------------------------------------------------------
(* mpp_thread.h: its state and its constants. *)

CONSTANTS Thread, Waiters
VARIABLES holder, depth, asleep, woken, mStatus, status, meant, nested

Th == INSTANCE MppThread

(* The mutex is held as long as it is locked, and a thread in wait has     *)
(* given back the one lock it had, or one of several.                      *)
Held == /\ holder = Th!Nobody <=> depth = 0
        /\ asleep \cap woken = {}
        /\ \A t \in Th!InWait : \/ holder = t /\ nested[t] = depth + 1
                                \/ holder # t /\ nested[t] = 1

(* The thread that waits knows the status to go back to, until another is  *)
(* set.                                                                    *)
Restores == /\ Th!InWait \subseteq Waiters
            /\ Th!InWait = {} => mStatus = meant
            /\ mStatus \in {"WAITING", meant}
            /\ \A t \in Th!InWait : mStatus = "WAITING" => status[t] = meant

LEMMA NobodyApart == Th!Nobody \notin Thread
  BY NoSetContainsEverything DEF Th!Nobody

LEMMA InitInv == Th!Init => Th!TypeOK /\ Held /\ Restores
  BY NobodyApart DEF Th!Init, Th!TypeOK, Held, Restores, Th!InWait, Th!MppThreadStatus

-----------------------------------------------------------------------------
LEMMA NextType == Th!TypeOK /\ Held /\ [Th!Next]_(Th!vars) => Th!TypeOK'
  <1> SUFFICES ASSUME Th!TypeOK, Held, [Th!Next]_(Th!vars) PROVE Th!TypeOK'
    OBVIOUS
  <1> USE NobodyApart DEF Th!TypeOK
  <1>1. CASE UNCHANGED Th!vars
    BY <1>1 DEF Th!vars, Th!lockVars, Th!condVars, Th!histVars
  <1>2. ASSUME NEW t \in Thread, Th!lock(t) \/ Th!trylock(t) PROVE Th!TypeOK'
    BY <1>2 DEF Th!lock, Th!trylock, Th!Mutex_trylock, Th!Mutex_lock, Th!lockVars, Th!condVars, Th!histVars
  <1>3. ASSUME NEW t \in Thread, Th!unlock(t) PROVE Th!TypeOK'
    BY <1>3 DEF Th!unlock, Th!Mutex_unlock, Held, Th!condVars, Th!histVars
  <1>4. ASSUME NEW t \in Thread, Th!wait(t) PROVE Th!TypeOK'
    BY <1>4 DEF Th!wait, Th!Condition_wait, Th!Mutex_unlock, Held, Th!MppThreadStatus
  <1>5. ASSUME NEW t \in Thread, Th!wait_returns(t) PROVE Th!TypeOK'
    BY <1>5 DEF Th!wait_returns, Th!Condition_woken, Th!Mutex_lock, Th!histVars
  <1>6. CASE Th!signal
    BY <1>6 DEF Th!signal, Th!Condition_signal, Th!lockVars, Th!condVars, Th!histVars
  <1>7. ASSUME NEW t \in Thread, Th!wakes(t) PROVE Th!TypeOK'
    BY <1>7 DEF Th!wakes, Th!lockVars, Th!histVars
  <1>8. ASSUME NEW t \in Thread, NEW s \in Th!MppThreadStatus \ {"WAITING"}, Th!set_status(t, s)
        PROVE  Th!TypeOK'
    BY <1>8 DEF Th!set_status, Th!lockVars, Th!condVars
  <1> QED BY <1>1, <1>2, <1>3, <1>4, <1>5, <1>6, <1>7, <1>8 DEF Th!Next, Th!Calls

LEMMA NextHeld == Th!TypeOK /\ Held /\ [Th!Next]_(Th!vars) => Held'
  <1> SUFFICES ASSUME Th!TypeOK, Held, [Th!Next]_(Th!vars) PROVE Held'
    OBVIOUS
  <1> USE NobodyApart DEF Th!TypeOK, Held, Th!InWait
  <1>1. CASE UNCHANGED Th!vars
    BY <1>1 DEF Th!vars, Th!lockVars, Th!condVars, Th!histVars
  <1>2. ASSUME NEW t \in Thread, t \notin Th!InWait, Th!lock(t) \/ Th!trylock(t) PROVE Held'
    BY <1>2 DEF Th!lock, Th!trylock, Th!Mutex_trylock, Th!Mutex_lock, Th!lockVars, Th!condVars, Th!histVars
  <1>3. ASSUME NEW t \in Thread, t \notin Th!InWait, Th!unlock(t) PROVE Held'
    BY <1>3 DEF Th!unlock, Th!Mutex_unlock, Th!condVars, Th!histVars
  <1>4. ASSUME NEW t \in Thread, t \notin Th!InWait, Th!wait(t) PROVE Held'
    BY <1>4 DEF Th!wait, Th!Condition_wait, Th!Mutex_unlock
  <1>5. ASSUME NEW t \in Thread, Th!wait_returns(t) PROVE Held'
    BY <1>5 DEF Th!wait_returns, Th!Condition_woken, Th!Mutex_lock, Th!histVars
  <1>6. CASE Th!signal
    BY <1>6 DEF Th!signal, Th!Condition_signal, Th!lockVars, Th!condVars, Th!histVars
  <1>7. ASSUME NEW t \in Thread, Th!wakes(t) PROVE Held'
    BY <1>7 DEF Th!wakes, Th!lockVars, Th!histVars
  <1>8. ASSUME NEW t \in Thread, NEW s, Th!set_status(t, s) PROVE Held'
    BY <1>8 DEF Th!set_status, Th!lockVars, Th!condVars
  <1> QED BY <1>1, <1>2, <1>3, <1>4, <1>5, <1>6, <1>7, <1>8 DEF Th!Next, Th!Calls

LEMMA NextRestores ==
  ASSUME \A s, t \in Waiters : s = t
  PROVE  Th!TypeOK /\ Held /\ Restores /\ [Th!Next]_(Th!vars) => Restores'
  <1> SUFFICES ASSUME Th!TypeOK, Held, Restores, [Th!Next]_(Th!vars) PROVE Restores'
    OBVIOUS
  <1> USE DEF Th!TypeOK, Restores, Th!InWait
  <1>1. CASE UNCHANGED Th!vars
    BY <1>1 DEF Th!vars, Th!lockVars, Th!condVars, Th!histVars
  <1>2. ASSUME NEW t \in Thread, Th!lock(t) \/ Th!trylock(t) \/ Th!unlock(t) PROVE Restores'
    BY <1>2 DEF Th!lock, Th!trylock, Th!unlock, Th!condVars, Th!histVars
  <1>3. ASSUME NEW t \in Thread, t \notin Th!InWait, Th!wait(t) PROVE Restores'
    <2>1. Th!InWait = {} /\ Th!InWait' = {t} /\ mStatus = meant
      BY <1>3 DEF Th!wait, Th!Condition_wait
    <2> QED BY <1>3, <2>1 DEF Th!wait
  <1>4. ASSUME NEW t \in Thread, Th!wait_returns(t) PROVE Restores'
    <2>1. Th!InWait' = {} /\ t \in Th!InWait
      BY <1>4 DEF Th!wait_returns, Th!Condition_woken, Held
    <2> QED BY <1>4, <2>1 DEF Th!wait_returns, Th!histVars
  <1>5. CASE Th!signal
    BY <1>5 DEF Th!signal, Th!Condition_signal, Th!condVars, Th!histVars
  <1>6. ASSUME NEW t \in Thread, Th!wakes(t) PROVE Restores'
    BY <1>6 DEF Th!wakes, Th!histVars
  <1>7. ASSUME NEW t \in Thread, NEW s \in Th!MppThreadStatus \ {"WAITING"}, Th!set_status(t, s)
        PROVE  Restores'
    BY <1>7 DEF Th!set_status, Th!condVars
  <1> QED BY <1>1, <1>2, <1>3, <1>4, <1>5, <1>6, <1>7 DEF Th!Next, Th!Calls

-----------------------------------------------------------------------------
(* With one thread that waits for a signal, no status that set_status sets *)
(* is lost in wait, whoever sets it and whenever the thread is woken.      *)
THEOREM StatusNotLost ==
  ASSUME \A s, t \in Waiters : s = t
  PROVE  Th!Spec => []Th!StatusKept
  <1>1. Th!TypeOK /\ Held /\ Restores /\ [Th!Next]_(Th!vars) => (Th!TypeOK /\ Held /\ Restores)'
    BY NextType, NextHeld, NextRestores
  <1>2. Restores => Th!StatusKept
    BY DEF Restores, Th!StatusKept
  <1> QED BY <1>1, <1>2, InitInv, PTL DEF Th!Spec

(* wait gives the lock up and takes it again: on its return the thread has *)
(* it as often as before, any number of threads waiting and locking.       *)
THEOREM LockComesBack == Th!Spec => Th!LockKept
  <1>1. Th!TypeOK /\ Held /\ [Th!Next]_(Th!vars) => (Th!TypeOK /\ Held)'
    BY NextType, NextHeld
  <1>2. Th!TypeOK /\ Held /\ [Th!Next]_(Th!vars) =>
            [\A t \in Thread : Th!wait_returns(t) => holder' = t /\ depth' = nested[t]]_(Th!vars)
    BY NobodyApart DEF Th!TypeOK, Held, Th!InWait, Th!wait_returns, Th!Condition_woken, Th!Mutex_lock
  <1> QED BY <1>1, <1>2, InitInv, PTL DEF Th!Spec, Th!LockKept

(* timedwait gives up exactly timeout milliseconds after ts, and the time  *)
(* it hands to pthread_cond_timedwait is a valid one.                      *)
THEOREM DeadlineValid ==
  ASSUME NEW sec \in Nat, NEW nsec \in Nat, nsec < 1000000000, NEW timeout \in Nat
  PROVE  LET ts == Th!timedwait([sec |-> sec, nsec |-> nsec], timeout)
         IN  /\ ts.nsec \in Nat /\ ts.nsec < 1000000000
             /\ (ts.sec - sec) * 1000000000 + ts.nsec = nsec + timeout * 1000000
  <1> DEFINE ns == nsec + (timeout % 1000) * 1000000
  <1>1. timeout = (timeout \div 1000) * 1000 + (timeout % 1000) /\ timeout \div 1000 \in Nat
        /\ timeout % 1000 \in 0..999
    BY SMT
  <1>2. ns \in Nat
    BY <1>1, SMT
  <1>3. ns = (ns \div 1000000000) * 1000000000 + (ns % 1000000000) /\ ns \div 1000000000 \in Nat
        /\ ns % 1000000000 \in Nat /\ ns % 1000000000 < 1000000000
    BY <1>2, SMT
  <1>4. Th!timedwait([sec |-> sec, nsec |-> nsec], timeout) =
            [sec |-> sec + (timeout \div 1000) + (ns \div 1000000000), nsec |-> ns % 1000000000]
    BY SMT DEF Th!timedwait
  <1> QED BY <1>1, <1>3, <1>4, SMT
=============================================================================
