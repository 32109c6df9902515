---------------------------- MODULE StaticQProofs ----------------------------
(***************************************************************************)
(* The ring of StaticQ keeps its shape and implements BoundedFifo, for     *)
(* every word, set of bytes, set of buffers and set of sizes up to half a  *)
(* word.                                                                   *)
(***************************************************************************)
EXTENDS StaticQ, TLAPS, SequenceTheorems

(* Going round a ring of n cells, an index of less than two turns wraps by *)
(* one subtraction: the only arithmetic the ring needs.                    *)
LEMMA Wrap ==
    ASSUME NEW n \in Nat \ {0}, NEW x \in Nat, x < 2 * n
    PROVE  Mod(x, n) = IF x < n THEN x ELSE x - n
BY DEF Mod

(* An index taken modulo the size is a cell of the ring. *)
LEMMA ModRange ==
    ASSUME NEW n \in Nat \ {0}, NEW x \in Nat
    PROVE  Mod(x, n) \in 0..(n - 1)
BY DEF Mod

(* Removing n of the len bytes moves head towards a tail that stays put.   *)
LEMMA Advance ==
    ASSUME NEW s \in Nat \ {0}, NEW h \in 0..(s - 1), NEW l \in 0..s, NEW n \in 0..l
    PROVE  /\ Mod(h + n, s) \in 0..(s - 1)
           /\ Mod(Mod(h + n, s) + (l - n), s) = Mod(h + l, s)
<1>1. Mod(h + n, s) = IF h + n < s THEN h + n ELSE h + n - s
  BY Wrap
<1>2. Mod(h + l, s) = IF h + l < s THEN h + l ELSE h + l - s
  BY Wrap
<1>3. CASE h + n < s
  BY <1>1, <1>3
<1>4. CASE ~(h + n < s)
  <2>1. h + n - s + (l - n) < s
    OBVIOUS
  <2>2. Mod(h + n - s + (l - n), s) = h + n - s + (l - n)
    BY <2>1, <1>4, Wrap
  <2> QED BY <1>1, <1>2, <1>4, <2>2
<1> QED BY <1>3, <1>4

Shape == TypeOK /\ RingShape

(* Reading cells of an initialised ring gives a sequence of bytes. *)
LEMMA ReadType ==
    ASSUME Shape, size # 0, NEW h \in Nat, NEW n \in Nat
    PROVE  Read(h, n) \in Seq(Byte) /\ Len(Read(h, n)) = n
<1>1. size \in Nat \ {0}
  BY QAssumption DEF Shape, TypeOK
<1>2. ASSUME NEW k \in 1..n PROVE data[Mod(h + (k - 1), size)] \in Byte
  <2>1. Mod(h + (k - 1), size) \in 0..(size - 1)
    BY <1>1, ModRange
  <2> QED BY <2>1 DEF Shape, TypeOK
<1> QED BY <1>2 DEF Read

(* A ring with no bytes in it reads as the empty sequence. *)
LEMMA ReadNone == ASSUME NEW h PROVE Read(h, 0) = <<>>
BY DEF Read

THEOREM ShapeInit == Init => Shape
BY QAssumption DEF Init, Shape, TypeOK, RingShape, Word32, Reply

THEOREM ShapeNext == Shape /\ [Next]_vars => Shape'
<1> SUFFICES ASSUME Shape, [Next]_vars PROVE Shape'
  OBVIOUS
<1>0. /\ Word \in Nat \ {0} /\ 2 * size <= Word /\ size \in Nat
      /\ head \in Nat /\ tail \in Nat /\ len \in Nat /\ len <= size
      /\ size # 0 => /\ size \in Nat \ {0} /\ size >= 2 /\ head < size
                    /\ tail = Mod(head + len, size)
  BY QAssumption DEF Shape, TypeOK, RingShape, Word32
<1>e. <<>> \in Seq(Byte)
  OBVIOUS
<1>a. ASSUME UNCHANGED <<data, size, head, tail, len>>,
             reply'.code \in Int, reply'.bytes \in Seq(Byte)
      PROVE  Shape'
  BY <1>a DEF Shape, TypeOK, RingShape, Mod
<1>b. ASSUME UNCHANGED <<data, size, tail>>, size # 0,
             reply'.code \in Int, reply'.bytes \in Seq(Byte),
             NEW n \in 0..len, head' = Mod(head + n, size), len' = len - n
      PROVE  Shape'
  <2>1. size \in Nat \ {0} /\ head \in 0..(size - 1) /\ len \in 0..size
    BY <1>b, <1>0
  <2>2. head' \in 0..(size - 1) /\ tail = Mod(head' + len', size)
    BY <2>1, <1>b, <1>0, Advance
  <2>3. len' \in 0..size
    BY <2>1, <1>b
  <2>4. TypeOK'
    BY <2>1, <2>2, <2>3, <1>b, <1>0 DEF Shape, TypeOK, Word32
  <2>5. RingShape'
    BY <2>1, <2>2, <2>3, <1>b, <1>0 DEF RingShape
  <2> QED BY <2>4, <2>5 DEF Shape
<1>1. CASE UNCHANGED vars
  BY <1>1 DEF vars, Shape, TypeOK, RingShape, Mod
<1>2. CASE queue_erase
  <2>1. size # 0 => Mod(0, size) = 0
    BY <1>0, Wrap
  <2> QED BY <1>2, <1>0, <2>1 DEF queue_erase, Shape, TypeOK, RingShape, Word32, Reply
<1>3. CASE queue_len \/ NullArgument
  <2>1. UNCHANGED <<data, size, head, tail, len>>
    BY <1>3 DEF queue_len, NullArgument
  <2>2. reply'.code \in Int /\ reply'.bytes = <<>>
    BY <1>3, <1>0 DEF queue_len, NullArgument, Reply
  <2> QED BY <2>1, <2>2, <1>a, <1>e
<1>4. ASSUME NEW n \in Sizes, queue_init(n) PROVE Shape'
  <2>1. n \in Nat /\ 2 * n <= Word /\ (n >= 2 => Mod(0, n) = 0)
    BY QAssumption DEF Mod
  <2>2. CASE n < 2
    <3>1. UNCHANGED <<data, size, head, tail, len>>
      BY <1>4, <2>2 DEF queue_init
    <3>2. reply'.code \in Int /\ reply'.bytes = <<>>
      BY <1>4, <2>2 DEF queue_init, Reply
    <3> QED BY <3>1, <3>2, <1>a, <1>e
  <2>3. CASE ~(n < 2)
    BY <1>4, <1>0, <2>1, <2>3 DEF queue_init, Shape, TypeOK, RingShape, Word32, Reply
  <2> QED BY <2>2, <2>3
<1>5. ASSUME NEW buf \in Bufs, queue_in(buf) PROVE Shape'
  <2> DEFINE n == Len(buf)
  <2>1. n \in Nat /\ buf \in Seq(Byte)
    BY QAssumption
  <2>2. CASE len < size /\ n <= size - len
    <3>1. /\ data' = [i \in DOMAIN data |-> IF Turn(i) < n THEN buf[Turn(i) + 1] ELSE data[i]]
          /\ tail' = Mod(tail + n, size)
          /\ len' = len + n
          /\ reply' = Reply("in", n, 0, <<>>)
          /\ size' = size /\ head' = head
      BY <1>5, <1>0, <2>1, <2>2 DEF queue_in
    <3>2. size \in Nat \ {0} /\ tail < size
      <4>1. size # 0 /\ head + len \in Nat
        BY <1>0, <2>2
      <4>2. Mod(head + len, size) \in 0..(size - 1)
        BY <4>1, <1>0, ModRange
      <4> QED BY <4>1, <4>2, <1>0
    <3>3. data' \in [0..(size - 1) -> Byte]
      <4>1. ASSUME NEW i \in 0..(size - 1), Turn(i) < n PROVE buf[Turn(i) + 1] \in Byte
        <5>0. i + size - tail \in Nat
          BY <1>0, <3>2
        <5>1. Turn(i) \in Nat
          BY <5>0, <3>2, ModRange DEF Turn
        <5> QED BY <5>1, <4>1, <2>1
      <4> QED BY <4>1, <3>1 DEF Shape, TypeOK
    <3>4. tail' = Mod(head' + len', size')
      <4>1. Mod(head + len, size) = IF head + len < size THEN head + len ELSE head + len - size
        BY <1>0, <3>2, Wrap
      <4>2. Mod(tail + n, size) = IF tail + n < size THEN tail + n ELSE tail + n - size
        BY <1>0, <3>2, <2>1, <2>2, Wrap
      <4>3. Mod(head + (len + n), size)
              = IF head + (len + n) < size THEN head + (len + n) ELSE head + (len + n) - size
        BY <1>0, <3>2, <2>1, <2>2, Wrap
      <4> QED BY <4>1, <4>2, <4>3, <3>1, <1>0, <3>2, <2>1, <2>2
    <3>5. tail' \in 0..(size - 1)
      <4>1. tail + n \in Nat
        BY <2>1, <1>0
      <4> QED BY <4>1, <3>1, <3>2, ModRange
    <3> QED BY <3>1, <3>2, <3>3, <3>4, <3>5, <1>0, <2>1, <2>2
            DEF Shape, TypeOK, RingShape, Word32, Reply
  <2>3. CASE ~(len < size /\ n <= size - len)
    <3>1. /\ UNCHANGED <<data, size, head, tail, len>>
          /\ \E code \in {-2, -3} : reply' = Reply("in", n, code, <<>>)
      BY <1>5, <1>0, <2>1, <2>3 DEF queue_in
    <3> QED BY <3>1 DEF Shape, TypeOK, RingShape, Reply, Mod
  <2> QED BY <2>2, <2>3
<1>6. ASSUME NEW want \in Word32, queue_out(want) PROVE Shape'
  <2> DEFINE n == Least(want, len)
  <2>1. n \in Nat /\ n <= len
    BY <1>0 DEF Least, Word32
  <2>2. /\ head' = IF n = 0 THEN head ELSE Mod(head + n, size)
        /\ len' = len - n
        /\ reply' = Reply("out", want, n, Read(head, n))
        /\ UNCHANGED <<data, size, tail>>
    BY <1>6 DEF queue_out
  <2>3. Read(head, n) \in Seq(Byte)
    <3>1. CASE size = 0
      <4>1. n = 0
        BY <3>1, <2>1, <1>0
      <4>2. Read(head, 0) = <<>>
        BY ReadNone
      <4> QED BY <4>1, <4>2, <1>e
    <3>2. CASE size # 0
      BY <3>2, <2>1, <1>0, ReadType
    <3> QED BY <3>1, <3>2
  <2>4. CASE n = 0
    BY <2>4, <2>2, <2>3, <1>0, <1>a DEF Reply
  <2>5. CASE n # 0
    <3>1. size # 0 /\ n \in 0..len
      BY <2>5, <2>1, <1>0
    <3> HIDE DEF n
    <3> QED BY <2>1, <2>2, <2>3, <2>5, <3>1, <1>b DEF Reply
  <2> QED BY <2>4, <2>5
<1>7. ASSUME NEW want \in Word32, queue_delete_data(want) PROVE Shape'
  <2> DEFINE n == Least(want, len)
  <2>1. n \in Nat /\ n <= len
    BY <1>0 DEF Least, Word32
  <2>2. /\ head' = Mod(head + n, size)
        /\ len' = len - n
        /\ reply' = Reply("delete", want, n, <<>>)
        /\ UNCHANGED <<data, size, tail>>
    BY <1>7 DEF queue_delete_data
  <2>3. CASE size = 0
    BY <2>3, <2>1, <2>2, <1>0 DEF Shape, TypeOK, RingShape, Word32, Reply, Mod
  <2>4. CASE size # 0
    <3>1. n \in 0..len
      BY <2>1, <1>0
    <3> HIDE DEF n
    <3> QED BY <2>1, <2>2, <2>4, <3>1, <1>b DEF Reply
  <2> QED BY <2>3, <2>4
<1>8. ASSUME NEW n \in Word32, NEW offset \in Word32, queue_preview(n, offset) PROVE Shape'
  <2>1. /\ UNCHANGED <<data, size, head, tail, len>>
        /\ \/ \E code \in {-2, -3} : reply' = Reply("preview", <<n, offset>>, code, <<>>)
           \/ /\ len # 0
              /\ reply' = Reply("preview", <<n, offset>>, n, Read(Mod((head + offset) % Word, size), n))
    BY <1>8 DEF queue_preview, Word32
  <2>2. len # 0 => Read(Mod((head + offset) % Word, size), n) \in Seq(Byte)
    <3>1. (head + offset) % Word \in Nat
      BY <1>0 DEF Word32
    <3>2. size # 0 => Mod((head + offset) % Word, size) \in Nat
      BY <3>1, <1>0, ModRange
    <3> QED BY <3>2, <1>0, ReadType DEF Word32
  <2>3. reply'.code \in Int /\ reply'.bytes \in Seq(Byte)
    <3>1. CASE \E code \in {-2, -3} : reply' = Reply("preview", <<n, offset>>, code, <<>>)
      BY <3>1 DEF Reply
    <3>2. CASE len # 0 /\ reply' = Reply("preview", <<n, offset>>, n, Read(Mod((head + offset) % Word, size), n))
      BY <3>2, <2>2 DEF Reply, Word32
    <3> QED BY <2>1, <3>1, <3>2
  <2> QED BY <2>1, <2>3, <1>a
<1> QED BY <1>1, <1>2, <1>3, <1>4, <1>5, <1>6, <1>7, <1>8 DEF Next

(* For every word, every set of sizes up to half of it and every buffer:   *)
(* any sequence of calls of static_q.cpp leaves head and tail inside the   *)
(* storage, len no more than size and tail len cells after head.           *)
THEOREM RingShapeHolds == Spec => [](TypeOK /\ RingShape)
<1>1. Spec => []Shape
  BY ShapeInit, ShapeNext, PTL DEF Spec
<1> QED BY <1>1, PTL DEF Shape

(* No uint32_t wraps and no byte read is anything but a stored one: the    *)
(* variables keep their types over any sequence of calls.                  *)
THEOREM QueueType == Spec => []TypeOK
<1>1. Spec => []Shape
  BY ShapeInit, ShapeNext, PTL DEF Spec
<1> QED BY <1>1, PTL DEF Shape

-----------------------------------------------------------------------------
(* The refinement. *)

(* Two walks round the ring in a row are one walk. *)
LEMMA ModShift ==
    ASSUME NEW s \in Nat \ {0}, NEW h \in 0..(s - 1), NEW a \in Nat, NEW b \in Nat,
           a + b <= s
    PROVE  Mod(Mod(h + a, s) + b, s) = Mod(h + (a + b), s)
<1>0. /\ h \in Nat /\ h < s /\ h + a \in Nat /\ h + a < 2 * s
      /\ h + (a + b) \in Nat /\ h + (a + b) < 2 * s
  OBVIOUS
<1>1. Mod(h + a, s) = IF h + a < s THEN h + a ELSE h + a - s
  BY <1>0, Wrap
<1>2. Mod(h + (a + b), s) = IF h + (a + b) < s THEN h + (a + b) ELSE h + (a + b) - s
  BY <1>0, Wrap
<1>3. CASE h + a < s
  BY <1>0, <1>1, <1>3
<1>4. CASE ~(h + a < s)
  <2>1. h + a - s + b \in Nat /\ h + a - s + b < s
    BY <1>0, <1>4
  <2>2. Mod(h + a - s + b, s) = h + a - s + b
    BY <2>1, Wrap
  <2> QED BY <1>0, <1>1, <1>2, <1>4, <2>2
<1> QED BY <1>3, <1>4

(* A slice of what is read from h on is what is read from further on.      *)
LEMMA ReadSlice ==
    ASSUME Shape, size # 0, NEW h \in 0..(size - 1), NEW n \in 0..size,
           NEW i \in Nat, NEW k \in Nat, i + k <= n
    PROVE  SubSeq(Read(h, n), i + 1, i + k) = Read(Mod(h + i, size), k)
<1>0. size \in Nat \ {0}
  BY QAssumption DEF Shape, TypeOK
<1>1. ASSUME NEW j \in 1..k
      PROVE  Read(h, n)[i + 1 + j - 1] = data[Mod(Mod(h + i, size) + (j - 1), size)]
  <2>1. i + 1 + j - 1 \in 1..n
    BY <1>0
  <2>2. Read(h, n)[i + 1 + j - 1] = data[Mod(h + (i + 1 + j - 1 - 1), size)]
    BY <2>1 DEF Read
  <2>3. i + 1 + j - 1 - 1 = i + (j - 1) /\ j - 1 \in Nat /\ i + (j - 1) <= size
    BY <1>0
  <2>4. Mod(Mod(h + i, size) + (j - 1), size) = Mod(h + (i + (j - 1)), size)
    BY <2>3, <1>0, ModShift
  <2> QED BY <2>2, <2>3, <2>4
<1>2. SubSeq(Read(h, n), i + 1, i + k) = [j \in 1..((i + k) - (i + 1) + 1) |-> Read(h, n)[i + 1 + j - 1]]
  BY <1>0 DEF Read
<1>3. (i + k) - (i + 1) + 1 = k
  OBVIOUS
<1> QED BY <1>1, <1>2, <1>3 DEF Read

(* What queue_in stores is read back after what was there: the cell of the *)
(* k-th byte from head is written by the turn that stores that byte, and   *)
(* by none when the byte was there before.                                 *)
LEMMA TurnOf ==
    ASSUME NEW s \in Nat \ {0}, NEW h \in 0..(s - 1), NEW l \in 0..s, NEW n \in 0..(s - l),
           NEW k \in 0..(l + n - 1)
    PROVE  /\ Mod(h + k, s) \in 0..(s - 1)
           /\ k < l => Mod(Mod(h + k, s) + s - Mod(h + l, s), s) >= n
           /\ k >= l => Mod(Mod(h + k, s) + s - Mod(h + l, s), s) = k - l
<1> DEFINE c == Mod(h + k, s)
           e == Mod(h + l, s)
<1>0. /\ h \in Nat /\ l \in Nat /\ n \in Nat /\ k \in Nat
      /\ h < s /\ l <= s /\ n <= s - l /\ k < l + n
  OBVIOUS
<1>1. c = IF h + k < s THEN h + k ELSE h + k - s
  BY <1>0, Wrap
<1>2. e = IF h + l < s THEN h + l ELSE h + l - s
  BY <1>0, Wrap
<1>3. c \in Nat /\ e \in Nat /\ c < s /\ e < s
  BY <1>0, <1>1, <1>2
<1>4. c + s - e \in Nat /\ c + s - e < 2 * s
  BY <1>3
<1>5. Mod(c + s - e, s) = IF c + s - e < s THEN c + s - e ELSE c + s - e - s
  BY <1>4, Wrap
<1>6. /\ k < l => Mod(c + s - e, s) >= n
      /\ k >= l => Mod(c + s - e, s) = k - l
  <2> HIDE DEF c, e
  <2> QED BY <1>0, <1>1, <1>2, <1>3, <1>5
<1> QED BY <1>3, <1>6

(* A queue_in that is not refused appends its buffer. *)
LEMMA PutAppends ==
    ASSUME Shape, NEW buf \in Bufs, queue_in(buf), len < size, Len(buf) <= size - len
    PROVE  Contents' = Contents \o buf
<1> DEFINE n == Len(buf)
<1>0. /\ size \in Nat \ {0} /\ head \in 0..(size - 1) /\ len \in 0..size
      /\ tail = Mod(head + len, size) /\ n \in Nat /\ n \in 0..(size - len)
      /\ DOMAIN data = 0..(size - 1) /\ buf \in Seq(Byte)
  BY QAssumption DEF Shape, TypeOK, RingShape, Word32
<1>1. /\ data' = [i \in 0..(size - 1) |-> IF Turn(i) < n THEN buf[Turn(i) + 1] ELSE data[i]]
      /\ len' = len + n /\ head' = head /\ size' = size
  BY <1>0 DEF queue_in
<1>2. ASSUME NEW k \in 1..(len + n)
      PROVE  data'[Mod(head + (k - 1), size)] = IF k <= len THEN Contents[k] ELSE buf[k - len]
  <2> DEFINE c == Mod(head + (k - 1), size)
  <2>1. k - 1 \in 0..(len + n - 1)
    BY <1>0
  <2>2. /\ c \in 0..(size - 1)
        /\ k - 1 < len => Turn(c) >= n
        /\ k - 1 >= len => Turn(c) = k - 1 - len
    <3>1. /\ Mod(head + (k - 1), size) \in 0..(size - 1)
          /\ k - 1 < len => Mod(Mod(head + (k - 1), size) + size - Mod(head + len, size), size) >= n
          /\ k - 1 >= len => Mod(Mod(head + (k - 1), size) + size - Mod(head + len, size), size) = k - 1 - len
      <4> DEFINE j == k - 1
      <4>1. j \in 0..(len + n - 1)
        BY <2>1
      <4> HIDE DEF j, n
      <4>2. /\ Mod(head + j, size) \in 0..(size - 1)
            /\ j < len => Mod(Mod(head + j, size) + size - Mod(head + len, size), size) >= n
            /\ j >= len => Mod(Mod(head + j, size) + size - Mod(head + len, size), size) = j - len
        BY <4>1, <1>0, TurnOf
      <4> QED BY <4>2 DEF j
    <3>2. Turn(c) = Mod(Mod(head + (k - 1), size) + size - Mod(head + len, size), size)
      BY <1>0 DEF Turn
    <3> QED BY <3>1, <3>2
  <2>3. data'[c] = IF Turn(c) < n THEN buf[Turn(c) + 1] ELSE data[c]
    BY <1>1, <2>2
  <2>4. Turn(c) \in Nat
    <3>1. c + size - tail \in Nat
      <4>1. Mod(head + len, size) \in 0..(size - 1)
        <5>1. head + len \in Nat
          BY <1>0
        <5> QED BY <5>1, <1>0, ModRange
      <4> HIDE DEF c
      <4> QED BY <4>1, <2>2, <1>0
    <3> QED BY <3>1, <1>0, ModRange DEF Turn
  <2>5. CASE k <= len
    <3>1. k - 1 < len /\ k \in 1..len
      BY <2>5, <1>0
    <3>2. data'[c] = data[c]
      <4> HIDE DEF c, n
      <4> QED BY <2>2, <2>3, <2>4, <3>1, <1>0
    <3>3. Contents[k] = data[c]
      BY <3>1 DEF Contents, Read
    <3> QED BY <2>5, <3>2, <3>3
  <2>6. CASE ~(k <= len)
    <3>1. Turn(c) = k - 1 - len /\ k - 1 - len < n /\ k - 1 - len + 1 = k - len
      <4> HIDE DEF c, n
      <4> QED BY <2>2, <2>6, <1>0
    <3>2. data'[c] = buf[k - len]
      <4> HIDE DEF c, n
      <4> QED BY <2>3, <3>1
    <3> QED BY <2>6, <3>2
  <2> QED BY <2>5, <2>6
<1>3. Contents' = [k \in 1..(len + n) |-> data'[Mod(head + (k - 1), size)]]
  BY <1>1 DEF Contents, Read
<1>4. Contents \in Seq(Byte) /\ Len(Contents) = len
  <2>1. head \in Nat /\ len \in Nat /\ size # 0
    BY <1>0
  <2> QED BY <2>1, ReadType DEF Contents
<1>5. /\ Contents \o buf \in Seq(Byte)
      /\ Len(Contents \o buf) = len + n
      /\ \A k \in 1..(len + n) :
            (Contents \o buf)[k] = IF k <= len THEN Contents[k] ELSE buf[k - len]
  BY <1>0, <1>4, ConcatProperties
<1>6. /\ Len(Contents') = len + n
      /\ \A k \in 1..(len + n) : Contents'[k] = (Contents \o buf)[k]
  BY <1>2, <1>3, <1>5, <1>0
<1>7. Contents' \in Seq(Byte)
  <2>1. \A k \in 1..(len + n) : (Contents \o buf)[k] \in Byte
    BY <1>5
  <2>2. ASSUME NEW k \in 1..(len + n)
        PROVE  data'[Mod(head + (k - 1), size)] \in Byte
    BY <2>1, <1>2, <1>5
  <2>3. len + n \in Nat
    BY <1>0
  <2> HIDE DEF n
  <2> QED BY <2>2, <2>3, <1>3
<1> QED BY <1>5, <1>6, <1>7, SeqEqual

(* Dropping the n oldest bytes leaves the rest. *)
LEMMA TakeRest ==
    ASSUME Shape, NEW n \in 0..len
    PROVE  /\ Read(head, n) = SubSeq(Contents, 1, n)
           /\ size # 0 => Read(Mod(head + n, size), len - n) = SubSeq(Contents, n + 1, len)
           /\ Len(Contents) = len
<1>1. CASE size = 0
  <2>1. n = 0 /\ len = 0
    BY <1>1 DEF Shape, RingShape
  <2>2. Contents = <<>> /\ Read(head, n) = <<>>
    BY <2>1, ReadNone DEF Contents
  <2>3. SubSeq(<<>>, 1, 0) = <<>> /\ Len(<<>>) = 0
    OBVIOUS
  <2> QED BY <1>1, <2>1, <2>2, <2>3
<1>2. CASE size # 0
  <2>0. /\ size \in Nat \ {0} /\ head \in 0..(size - 1) /\ len \in 0..size
        /\ len \in Nat /\ n \in Nat /\ n <= len /\ len - n \in Nat
    BY <1>2, QAssumption DEF Shape, TypeOK, RingShape, Word32
  <2>1. Mod(head + 0, size) = head
    BY <2>0, Wrap
  <2>2. SubSeq(Contents, 0 + 1, 0 + n) = Read(Mod(head + 0, size), n)
    <3>1. 0 \in Nat /\ 0 + n <= len
      BY <2>0
    <3> QED BY <1>2, <2>0, <3>1, ReadSlice DEF Contents
  <2>3. SubSeq(Contents, n + 1, n + (len - n)) = Read(Mod(head + n, size), len - n)
    <3> DEFINE r == len - n
    <3>1. r \in Nat /\ n + r <= len
      BY <2>0
    <3> HIDE DEF r
    <3>2. SubSeq(Contents, n + 1, n + r) = Read(Mod(head + n, size), r)
      BY <1>2, <2>0, <3>1, ReadSlice DEF Contents
    <3> QED BY <3>2 DEF r
  <2>4. n + (len - n) = len /\ 0 + 1 = 1 /\ 0 + n = n
    BY <2>0
  <2>5. Len(Contents) = len
    BY <2>0, ReadType DEF Contents
  <2> QED BY <2>1, <2>2, <2>3, <2>4, <2>5
<1> QED BY <1>1, <1>2

LEMMA FifoInit == Init => Fifo!Init
<1> SUFFICES ASSUME Init PROVE Fifo!Init
  OBVIOUS
<1>1. Contents = <<>>
  BY ReadNone DEF Init, Contents
<1> QED BY <1>1 DEF Init, Fifo!Init, Reply, Fifo!Reply

LEMMA FifoNext == Shape /\ Shape' /\ [Next]_vars => [Fifo!Next]_Fifo!fifoVars
<1> SUFFICES ASSUME Shape, Shape', [Next]_vars PROVE [Fifo!Next]_Fifo!fifoVars
  OBVIOUS
<1>0. /\ size \in Nat /\ head \in Nat /\ len \in Nat /\ len <= size
      /\ size # 0 => size \in Nat \ {0} /\ head \in 0..(size - 1)
      /\ Word \in Nat \ {0}
  BY QAssumption DEF Shape, TypeOK, RingShape, Word32
<1>l. Len(Contents) = len
  <2>1. 0 \in 0..len
    BY <1>0
  <2> QED BY <2>1, TakeRest
<1>s. ASSUME UNCHANGED <<data, size, head, len>> PROVE Contents' = Contents
  BY <1>s DEF Contents, Read
<1>z. len' = 0 => Contents' = <<>>
  BY DEF Contents, Read
<1>1. CASE UNCHANGED vars
  BY <1>1, <1>s DEF vars, Fifo!fifoVars
<1>2. CASE queue_erase
  BY <1>2, <1>z DEF queue_erase, Fifo!Next, Fifo!Clear, Reply, Fifo!Reply
<1>3. CASE queue_len
  BY <1>3, <1>s, <1>l DEF queue_len, Fifo!Next, Fifo!Length, Reply, Fifo!Reply
<1>4. CASE NullArgument
  BY <1>4, <1>s DEF NullArgument, Fifo!Next, Fifo!Refusal, Fifo!Refuse, Reply, Fifo!Reply
<1>5. ASSUME NEW n \in Sizes, queue_init(n) PROVE Fifo!Next
  <2>1. CASE n < 2
    BY <1>5, <2>1, <1>s DEF queue_init, Fifo!Next, Fifo!Refusal, Fifo!Refuse, Reply, Fifo!Reply
  <2>2. CASE ~(n < 2)
    <3>1. n >= 2
      BY <2>2, QAssumption
    <3>2. Fifo!Open(n)
      BY <1>5, <2>2, <3>1, <1>z DEF queue_init, Fifo!Open, Reply, Fifo!Reply
    <3> QED BY <3>2 DEF Fifo!Next
  <2> QED BY <2>1, <2>2
<1>6. ASSUME NEW buf \in Bufs, queue_in(buf) PROVE Fifo!Next
  <2>0. Len(buf) \in Nat
    BY QAssumption
  <2>1. CASE len < size /\ Len(buf) <= size - len
    <3>1. Contents' = Contents \o buf
      BY <1>6, <2>1, PutAppends
    <3>2. reply' = Reply("in", Len(buf), 0, <<>>) /\ size' = size
      BY <1>6, <2>1, <2>0, <1>0 DEF queue_in
    <3>3. Fifo!Put(buf)
      BY <3>1, <3>2, <2>1, <1>l DEF Fifo!Put, Fifo!Fits, Reply, Fifo!Reply
    <3> QED BY <3>3 DEF Fifo!Next
  <2>2. CASE ~(len < size /\ Len(buf) <= size - len)
    <3>1. /\ UNCHANGED <<data, size, head, tail, len>>
          /\ \E code \in {-2, -3} : reply' = Reply("in", Len(buf), code, <<>>)
      BY <1>6, <1>0, <2>0, <2>2 DEF queue_in
    <3>2. Contents' = Contents
      BY <3>1, <1>s
    <3>3. ~Fifo!Fits(Len(buf)) /\ Fifo!Refuse("in", Len(buf))
      BY <3>1, <3>2, <2>2, <1>l DEF Fifo!Fits, Fifo!Refuse, Reply, Fifo!Reply
    <3> QED BY <3>3 DEF Fifo!Next, Fifo!Refusal
  <2> QED BY <2>1, <2>2
<1>7. ASSUME NEW want \in Word32, queue_out(want) PROVE Fifo!Next
  <2> DEFINE n == Least(want, len)
  <2>1. n \in 0..len /\ n = Fifo!Least(want, Len(Contents))
    BY <1>0, <1>l DEF Least, Fifo!Least, Word32
  <2>2. /\ head' = IF n = 0 THEN head ELSE Mod(head + n, size)
        /\ len' = len - n
        /\ reply' = Reply("out", want, n, Read(head, n))
        /\ UNCHANGED <<data, size, tail>>
    BY <1>7 DEF queue_out
  <2> HIDE DEF n
  <2>3. Contents' = SubSeq(Contents, n + 1, len)
    <3>1. size # 0 => head' = Mod(head + n, size)
      BY <2>1, <2>2, <1>0, Wrap
    <3>2. CASE size # 0
      <4>1. Contents' = Read(Mod(head + n, size), len - n)
        BY <3>1, <3>2, <2>2 DEF Contents, Read
      <4> QED BY <4>1, <3>2, <2>1, TakeRest
    <3>3. CASE size = 0
      <4>1. len = 0 /\ len' = 0 /\ n = 0
        BY <3>3, <2>1, <2>2, <1>0
      <4>2. Contents = <<>> /\ Contents' = <<>>
        BY <4>1, <1>z, ReadNone DEF Contents
      <4> QED BY <4>1, <4>2
    <3> QED BY <3>2, <3>3
  <2>4. reply' = Reply("out", want, n, SubSeq(Contents, 1, n))
    BY <2>1, <2>2, TakeRest
  <2>5. Fifo!Take(want)
    BY <2>1, <2>2, <2>3, <2>4, <1>l DEF Fifo!Take, Reply, Fifo!Reply
  <2> QED BY <2>5 DEF Fifo!Next, Word32
<1>8. ASSUME NEW want \in Word32, queue_delete_data(want) PROVE Fifo!Next
  <2> DEFINE n == Least(want, len)
  <2>1. n \in 0..len /\ n = Fifo!Least(want, Len(Contents))
    BY <1>0, <1>l DEF Least, Fifo!Least, Word32
  <2>2. /\ head' = Mod(head + n, size)
        /\ len' = len - n
        /\ reply' = Reply("delete", want, n, <<>>)
        /\ UNCHANGED <<data, size, tail>>
    BY <1>8 DEF queue_delete_data
  <2> HIDE DEF n
  <2>3. Contents' = SubSeq(Contents, n + 1, len)
    <3>2. CASE size # 0
      <4>1. Contents' = Read(Mod(head + n, size), len - n)
        BY <2>2, <3>2 DEF Contents, Read
      <4> QED BY <4>1, <3>2, <2>1, TakeRest
    <3>3. CASE size = 0
      <4>1. len = 0 /\ len' = 0 /\ n = 0
        BY <3>3, <2>1, <2>2, <1>0
      <4>2. Contents = <<>> /\ Contents' = <<>>
        BY <4>1, <1>z, ReadNone DEF Contents
      <4> QED BY <4>1, <4>2
    <3> QED BY <3>2, <3>3
  <2>5. Fifo!Drop(want)
    BY <2>1, <2>2, <2>3, <1>l DEF Fifo!Drop, Reply, Fifo!Reply
  <2> QED BY <2>5 DEF Fifo!Next, Word32
<1>9. ASSUME NEW n \in Word32, NEW offset \in Word32, queue_preview(n, offset) PROVE Fifo!Next
  <2>0. n \in Nat /\ offset \in Nat /\ n \in Int /\ UNCHANGED <<data, size, head, tail, len>>
    BY <1>9 DEF queue_preview, Word32
  <2>c. Contents' = Contents
    BY <2>0, <1>s
  <2>1. CASE offset + n >= Word
    <3>1. \/ \E code \in {-2, -3} : reply' = Reply("preview", <<n, offset>>, code, <<>>)
          \/ reply' = Reply("preview", <<n, offset>>, n, Read(Mod((head + offset) % Word, size), n))
      BY <1>9, <2>0 DEF queue_preview
    <3>2. reply'.bytes \in Seq(Byte)
      BY DEF Shape, TypeOK
    <3>3. Fifo!PeekOverflow(n, offset)
      BY <3>1, <3>2, <2>0, <2>c, <2>1 DEF Fifo!PeekOverflow, Reply
    <3> QED BY <3>3 DEF Fifo!Next, Word32
  <2>2. CASE ~(offset + n >= Word)
    <3>1. (offset + n) % Word = offset + n
      BY <2>0, <2>2, <1>0
    <3>2. CASE len = 0 \/ len < offset + n
      <4>1. \E code \in {-2, -3} : reply' = Reply("preview", <<n, offset>>, code, <<>>)
        BY <1>9, <2>0, <3>1, <3>2 DEF queue_preview
      <4>2. Contents = <<>> \/ offset + n > Len(Contents)
        BY <3>2, <1>l, <1>0, ReadNone DEF Contents
      <4>3. Fifo!Refuse("preview", <<n, offset>>)
        BY <4>1, <2>0, <2>c DEF Fifo!Refuse, Reply, Fifo!Reply
      <4> QED BY <4>2, <4>3 DEF Fifo!Next, Fifo!Refusal, Word32
    <3>3. CASE len # 0 /\ ~(len < offset + n)
      <4>0. size # 0 /\ size \in Nat \ {0} /\ head \in 0..(size - 1)
            /\ offset + n <= len /\ len \in 0..size /\ 2 * size <= Word
        BY <3>3, <1>0, <2>0, QAssumption DEF Shape, TypeOK
      <4>1. (head + offset) % Word = head + offset
        BY <4>0, <2>0, <1>0
      <4>2. reply' = Reply("preview", <<n, offset>>, n, Read(Mod(head + offset, size), n))
        BY <1>9, <2>0, <3>1, <3>3, <4>1 DEF queue_preview
      <4>3. SubSeq(Contents, offset + 1, offset + n) = Read(Mod(head + offset, size), n)
        BY <4>0, <2>0, ReadSlice DEF Contents
      <4>4. Contents # <<>>
        BY <1>l, <3>3
      <4>5. Fifo!Peek(n, offset)
        BY <4>0, <4>2, <4>3, <4>4, <2>0, <2>c, <1>l DEF Fifo!Peek, Reply, Fifo!Reply
      <4> QED BY <4>5 DEF Fifo!Next, Word32
    <3> QED BY <3>2, <3>3
  <2> QED BY <2>1, <2>2
<1> QED BY <1>1, <1>2, <1>3, <1>4, <1>5, <1>6, <1>7, <1>8, <1>9 DEF Next

(* Every run of static_q.cpp is a run of the bounded FIFO.                 *)
THEOREM StaticQIsFifo == Spec => IsFifo
<1>1. Init => Fifo!Init
  BY FifoInit
<1>2. Shape /\ Shape' /\ [Next]_vars => [Fifo!Next]_Fifo!fifoVars
  BY FifoNext
<1>3. Spec => []Shape
  BY ShapeInit, ShapeNext, PTL DEF Spec
<1> QED BY <1>1, <1>2, <1>3, PTL DEF Spec, IsFifo, Fifo!Spec
=============================================================================
