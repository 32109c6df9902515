---------------------------- MODULE PipelineProofs ----------------------------
(***************************************************************************)
(* With the main loop started after queue_init the mutex works, the queue  *)
(* holds whole records of live frames, and the program is a FrameChannel:  *)
(* for every set of frames, record length and queue size, failing captures *)
(* included.                                                               *)
(***************************************************************************)
EXTENDS Pipeline, Functions, SequenceTheorems, TLAPS

(* The mutex word and the two threads: it is locked exactly while one of   *)
(* them is inside, and main is nowhere near it while it is initialised.    *)
LockInv ==
    /\ cam \in CamPcs /\ main \in MainPcs /\ g_mtx \in {0, 1}
    /\ cam \in {"mutex_init", "queue_init"} => main = "session_init"
    /\ g_mtx = 1 <=> CamIn \/ MainIn
    /\ ~(CamIn /\ MainIn)

(* The queue as the thread inside it needs it: initialised before a byte   *)
(* moves, and with at least the bytes queue_out still has to take.         *)
QueueInv ==
    /\ q_entity.size = 0 => q_entity.len = 0
    /\ cam \in CamPcs \ {"mutex_init", "queue_init"} => q_entity.size = QSize
    /\ cam = "store" => img \in Frame /\ sent < RecLen
    /\ main = "fetch" => /\ Len(rec) < want
                         /\ want - Len(rec) <= q_entity.len
    /\ main \in {"session_init", "lock", "queue_out"} => rec = <<>>

Inv == TypeOK /\ LockInv /\ QueueInv

LEMMA LockInit == Init => LockInv
BY DEF Init, LockInv, CamPcs, MainPcs, CamIn, MainIn

LEMMA LockNext == StartAfterInit /\ LockInv /\ [Next]_vars => LockInv'
<1> SUFFICES ASSUME StartAfterInit, LockInv, [Next]_vars PROVE LockInv'
  OBVIOUS
<1> USE DEF LockInv, CamIn, MainIn, CamPcs, MainPcs, CamGoes, MainGoes,
            camVars, mainVars, qVars
<1>1. CASE UNCHANGED vars
  BY <1>1 DEF vars
<1>2. CASE mutex_init
  BY <1>2 DEF mutex_init
<1>3. CASE queue_init \/ capture \/ report
  BY <1>3 DEF queue_init, capture, report
<1>4. CASE camera_lock
  BY <1>4 DEF camera_lock
<1>5. CASE queue_in \/ store
  BY <1>5 DEF queue_in, store
<1>6. CASE camera_unlock
  BY <1>6 DEF camera_unlock
<1>7. CASE session_init
  BY <1>7 DEF session_init
<1>8. CASE main_lock
  BY <1>8 DEF main_lock
<1>9. CASE queue_out \/ fetch
  BY <1>9 DEF queue_out, fetch
<1>10. CASE main_unlock
  BY <1>10 DEF main_unlock
<1>11. CASE work \/ release
  BY <1>11 DEF work, release
<1> QED BY <1>1, <1>2, <1>3, <1>4, <1>5, <1>6, <1>7, <1>8, <1>9, <1>10, <1>11
        DEF Next, Camera, Main

(* The camera and main threads are never inside the queue together.        *)
THEOREM MutexWorks == ASSUME StartAfterInit PROVE Spec => []MutualExclusion
<1>1. LockInv => MutualExclusion
  BY DEF LockInv, MutualExclusion
<1>2. Init => LockInv
  BY LockInit
<1>3. LockInv /\ [Next]_vars => LockInv'
  BY LockNext
<1> QED BY <1>1, <1>2, <1>3, PTL DEF Spec

QType == [size : {0, QSize}, head : 0..(QSize - 1), tail : 0..(QSize - 1), len : 0..QSize]

(* Moving an index and the length leaves a queue record a queue record.    *)
LEMMA QUpdate ==
    ASSUME NEW q \in QType, NEW r, NEW i \in 0..(QSize - 1), NEW n \in 0..QSize,
           \/ r = [q EXCEPT !.tail = i, !.len = n]
           \/ r = [q EXCEPT !.head = i, !.len = n]
    PROVE  r \in QType /\ r.size = q.size /\ r.len = n
BY DEF QType

LEMMA TypeInit == Init => TypeOK /\ QueueInv
<1>1. <<>> \in Seq(Byte) /\ Len(<<>>) = 0
  OBVIOUS
<1>2. Blank \in Byte
  BY DEF Byte
<1> QED BY <1>1, <1>2, PipelineAssumption DEF Init, TypeOK, QueueInv, CamPcs, MainPcs

(* The bytes of a frame's record are bytes of the queue. *)
LEMMA RecordByte ==
    ASSUME NEW f \in Frame, NEW k \in 1..RecLen PROVE Record(f)[k] \in Byte
BY PipelineAssumption DEF Record, Byte

LEMMA TypeNext == Inv /\ LockInv' /\ [Next]_vars => TypeOK' /\ QueueInv'
<1> SUFFICES ASSUME Inv, LockInv', [Next]_vars PROVE TypeOK' /\ QueueInv'
  OBVIOUS
<1>0. RecLen \in Nat \ {0} /\ QSize \in Nat \ {0, 1} /\ NoFrame \notin Frame
  BY PipelineAssumption
<1> USE <1>0
<1> USE DEF Inv, LockInv, CamIn, MainIn, CamPcs, MainPcs, CamGoes, MainGoes,
            camVars, mainVars, qVars
<1>1. CASE UNCHANGED vars
  BY <1>1 DEF vars, TypeOK, QueueInv
<1>2. CASE mutex_init
  BY <1>2 DEF mutex_init, TypeOK, QueueInv
<1>3. CASE queue_init
  BY <1>3 DEF queue_init, TypeOK, QueueInv
<1>4. CASE capture
  BY <1>4 DEF capture, TypeOK, QueueInv
<1>5. CASE camera_lock \/ camera_unlock \/ report
  <2>1. CASE camera_lock
    BY <2>1 DEF camera_lock, TypeOK, QueueInv
  <2>2. CASE camera_unlock
    BY <2>2 DEF camera_unlock, TypeOK, QueueInv
  <2>3. CASE report
    BY <2>3 DEF report, TypeOK, QueueInv
  <2> QED BY <1>5, <2>1, <2>2, <2>3
<1>6. CASE queue_in
  BY <1>6 DEF queue_in, TypeOK, QueueInv
<1>7. CASE store
  <2>1. /\ cam = "store" /\ main # "fetch" /\ q_entity.size = QSize /\ img \in Frame
        /\ sent \in 0..(RecLen - 1) /\ RecLen \in Nat
        /\ q_entity.tail \in 0..(QSize - 1) /\ q_entity.len \in 0..QSize
    BY <1>7 DEF store, TypeOK, QueueInv
  <2>2. CASE q_entity.len >= q_entity.size
    BY <1>7, <2>1, <2>2 DEF store, TypeOK, QueueInv
  <2>3. CASE ~(q_entity.len >= q_entity.size)
    <3>1. /\ cam' = IF sent + 1 = RecLen THEN "unlock" ELSE "store"
          /\ sent' = sent + 1
          /\ g_q' = [g_q EXCEPT ![q_entity.tail] = Record(img)[sent + 1]]
          /\ q_entity' = [q_entity EXCEPT !.tail = (@ + 1) % q_entity.size, !.len = @ + 1]
          /\ UNCHANGED <<main, rec, want, crashed, g_mtx, img, ret, heap>>
      BY <1>7, <2>3 DEF store
    <3>2. Record(img)[sent + 1] \in Byte
      BY <2>1, RecordByte
    <3>3. g_q' \in [0..(QSize - 1) -> Byte]
      BY <3>1, <3>2 DEF TypeOK
    <3>4. (q_entity.tail + 1) % QSize \in 0..(QSize - 1) /\ q_entity.len + 1 \in 1..QSize
      BY <2>1, <2>3
    <3>5. /\ q_entity' \in QType
          /\ q_entity'.size = QSize
      <4>1. q_entity \in QType
        BY DEF TypeOK, QType
      <4>2. q_entity' = [q_entity EXCEPT !.tail = (q_entity.tail + 1) % QSize,
                                         !.len = q_entity.len + 1]
        BY <2>1, <3>1
      <4> DEFINE t == (q_entity.tail + 1) % QSize
                 n == q_entity.len + 1
      <4>3. t \in 0..(QSize - 1) /\ n \in 0..QSize
        BY <3>4
      <4>4. q_entity' = [q_entity EXCEPT !.tail = t, !.len = n]
        BY <4>2
      <4> HIDE DEF t, n
      <4> QED BY <4>1, <4>3, <4>4, <2>1, QUpdate
    <3>6. sent' \in 0..RecLen /\ (cam' = "store" => sent' < RecLen)
      BY <2>1, <3>1
    <3> QED BY <2>1, <3>1, <3>3, <3>5, <3>6 DEF TypeOK, QType, QueueInv
  <2> QED BY <2>2, <2>3
<1>8. CASE session_init \/ main_lock \/ work
  BY <1>8 DEF session_init, main_lock, work, TypeOK, QueueInv
<1>9. CASE queue_out
  BY <1>9 DEF queue_out, TypeOK, QueueInv
<1>10. CASE fetch
  <2>1. /\ main = "fetch" /\ ~CamIn
        /\ Len(rec) \in Nat /\ want \in 0..RecLen /\ RecLen \in Nat
        /\ Len(rec) < want /\ want - Len(rec) <= q_entity.len
        /\ q_entity.head \in 0..(QSize - 1) /\ q_entity.len \in 0..QSize
        /\ g_q[q_entity.head] \in Byte
    BY <1>10 DEF fetch, TypeOK, QueueInv
  <2>2. q_entity.size = QSize
    BY <2>1 DEF TypeOK, QueueInv
  <2>3. rec' = Append(rec, g_q[q_entity.head])
    BY <1>10 DEF fetch
  <2>4. rec' \in Seq(Byte) /\ Len(rec') = Len(rec) + 1
    BY <2>1, <2>3 DEF TypeOK
  <2>5. q_entity' = [q_entity EXCEPT !.head = (@ + 1) % q_entity.size, !.len = @ - 1]
    BY <1>10 DEF fetch
  <2>6. (q_entity.head + 1) % QSize \in 0..(QSize - 1) /\ q_entity.len - 1 \in 0..(QSize - 1)
    BY <2>1
  <2>7. /\ q_entity' \in QType
        /\ q_entity'.size = QSize /\ q_entity'.len = q_entity.len - 1
    <3>1. q_entity \in QType
      BY DEF TypeOK, QType
    <3>2. q_entity' = [q_entity EXCEPT !.head = (q_entity.head + 1) % QSize,
                                       !.len = q_entity.len - 1]
      BY <2>2, <2>5
    <3>3. q_entity.len - 1 \in 0..QSize
      BY <2>6
    <3> DEFINE h == (q_entity.head + 1) % QSize
               n == q_entity.len - 1
    <3>4. h \in 0..(QSize - 1) /\ n \in 0..QSize
      BY <2>6, <3>3
    <3>5. q_entity' = [q_entity EXCEPT !.head = h, !.len = n]
      BY <3>2
    <3> HIDE DEF h
    <3>6. q_entity' \in QType /\ q_entity'.size = q_entity.size /\ q_entity'.len = n
      <4> HIDE DEF n
      <4> QED BY <3>1, <3>4, <3>5, QUpdate
    <3> QED BY <3>6, <2>2
  <2>8. /\ main' = IF Len(rec) + 1 = want THEN "unlock" ELSE "fetch"
        /\ UNCHANGED <<cam, img, sent, ret, g_q, crashed, g_mtx, heap, want>>
    BY <1>10 DEF fetch
  <2>9. TypeOK'
    BY <2>4, <2>7, <2>8 DEF TypeOK, QType
  <2>10. main' = "fetch" => Len(rec') < want' /\ want' - Len(rec') <= q_entity'.len
    BY <2>1, <2>4, <2>7, <2>8
  <2>11. QueueInv'
    BY <2>1, <2>7, <2>8, <2>10 DEF QueueInv
  <2> QED BY <2>9, <2>11
<1>11. CASE main_unlock
  BY <1>11 DEF main_unlock, TypeOK, QueueInv
<1>12. CASE release
  <2>1. /\ main = "release" /\ main' = "lock"
        /\ heap' = [heap EXCEPT ![rec[1][1]] = "free"]
        /\ crashed' = (heap[rec[1][1]] # "live")
        /\ rec' = <<>>
        /\ UNCHANGED <<cam, img, sent, ret, g_q, q_entity, g_mtx, want>>
    BY <1>12 DEF release
  <2>2. crashed' \in BOOLEAN
    BY <2>1
  <2>3. heap' \in [Frame -> {"free", "live", "lost"}]
    BY <2>1 DEF TypeOK
  <2>4. rec' \in Seq(Byte)
    BY <2>1
  <2> QED BY <2>1, <2>2, <2>3, <2>4 DEF TypeOK, QueueInv
<1> QED BY <1>1, <1>2, <1>3, <1>4, <1>5, <1>6, <1>7, <1>8, <1>9, <1>10, <1>11, <1>12
        DEF Next, Camera, Main

(* Every variable keeps its type: no index leaves the storage, no length   *)
(* wraps below zero, and main never takes a byte that is not there.        *)
THEOREM PipelineType == ASSUME StartAfterInit PROVE Spec => []TypeOK
<1>1. Init => Inv
  BY LockInit, TypeInit DEF Inv
<1>2. Inv /\ [Next]_vars => Inv'
  BY LockNext, TypeNext DEF Inv
<1>3. Inv => TypeOK
  BY DEF Inv
<1> QED BY <1>1, <1>2, <1>3, PTL DEF Spec

-----------------------------------------------------------------------------
(* The bytes of a sequence of frames, record after record, and with them   *)
(* those the camera has stored of its own.                                 *)
Bytes(c) == [k \in 1..(Len(c) * RecLen) |-> <<c[(k - 1) \div RecLen + 1], ((k - 1) % RecLen) + 1>>]
Partial  == IF cam = "store" THEN SubSeq(Record(img), 1, sent) ELSE <<>>

(* What the threads find in the queue is the bytes of the frames in it.    *)
Layout ==
    /\ Chan \in Seq(Frame)
    /\ Waiting = Bytes(Chan) \o Partial
    /\ q_entity.tail = (q_entity.head + q_entity.len) % QSize
    /\ cam \in {"mutex_init", "queue_init"} => q_entity.len = 0 /\ q_entity.head = 0
    /\ cam = "store" => Len(Chan) < QSize \div RecLen
    /\ main = "fetch" => want = RecLen
    /\ main \in {"unlock", "work", "release"} => rec = <<>> \/ Whole(rec)
    /\ main \in {"work", "release"} => rec # <<>>

(* A frame has one owner: the camera until it is stored, the queue, main;  *)
(* and what nobody owns is not live.                                       *)
Holding == cam \in {"lock", "queue_in", "store"} /\ img # NoFrame

Owned ==
    /\ IsInjective(Chan) /\ Hand \notin Range(Chan)
    /\ Hand # NoFrame => Hand \in Frame /\ heap[Hand] = "live"
    /\ \A f \in Range(Chan) : heap[f] = "live"
    /\ Holding => heap[img] = "live" /\ img \notin Range(Chan) /\ img # Hand
    /\ \A f \in Frame : heap[f] = "live" => f = Hand \/ f \in Range(Chan) \/ (Holding /\ f = img)

(* The record of a failed capture is refused, and then dereferenced.       *)
Crashes == /\ cam \in {"unlock", "report"} /\ img = NoFrame => ret = -1
           /\ OnlyNullCrashes

DataInv == Inv /\ Layout /\ Owned /\ Crashes

-----------------------------------------------------------------------------
(* Positions in a row of records of r bytes. *)
LEMMA Quotients ==
    ASSUME NEW r \in Nat \ {0}, NEW n \in Nat, NEW p \in 0..(r - 1)
    PROVE  n * r \in Nat /\ (n * r + p) \div r = n /\ (n * r + p) % r = p
  BY SMT

LEMMA Remainders ==
    ASSUME NEW r \in Nat \ {0}, NEW n \in Nat, NEW x \in 0..(n * r - 1)
    PROVE  x \div r \in 0..(n - 1) /\ x % r \in 0..(r - 1) /\ x = (x \div r) * r + (x % r)
  BY SMT

LEMMA Multiples ==
    ASSUME NEW r \in Nat \ {0}, NEW n \in Nat, NEW m \in Nat
    PROVE  /\ n * r <= m * r <=> n <= m
           /\ n * r + r = (n + 1) * r /\ n * r \in Nat
           /\ n > 0 => r <= n * r
           /\ 0 * r = 0 /\ 1 * r = r
  BY SMT

LEMMA RecordType ==
    ASSUME NEW f \in Frame
    PROVE  /\ Record(f) \in Seq(Byte) /\ Len(Record(f)) = RecLen /\ Record(f) # <<>>
           /\ Record(f)[1] = <<f, 1>> /\ Record(f)[1][1] = f
  <1>1. RecLen \in Nat \ {0}
    BY PipelineAssumption
  <1>2. \A k \in 1..RecLen : <<f, k>> \in Byte
    BY DEF Byte
  <1>3. Record(f) = [k \in 1..RecLen |-> <<f, k>>]
    BY DEF Record
  <1>4. Record(f) \in Seq(Byte) /\ Len(Record(f)) = RecLen
    <2> DEFINE e(k) == <<f, k>>
    <2>1. \A k \in 1..RecLen : e(k) \in Byte
      BY <1>2
    <2>2. Record(f) = [k \in 1..RecLen |-> e(k)]
      BY <1>3
    <2> HIDE DEF e
    <2> QED BY <1>1, <2>1, <2>2
  <1>5. Record(f)[1] = <<f, 1>>
    BY <1>1, <1>3
  <1> QED BY <1>1, <1>4, <1>5

LEMMA ConcatAt ==
    ASSUME NEW S, NEW s \in Seq(S), NEW t \in Seq(S)
    PROVE  /\ s \o t \in Seq(S) /\ Len(s \o t) = Len(s) + Len(t)
           /\ \A x \in 1..Len(s) : (s \o t)[x] = s[x]
           /\ \A k \in 1..Len(t) : (s \o t)[Len(s) + k] = t[k]
  BY ConcatProperties, LenProperties

LEMMA BytesAt ==
    ASSUME NEW c \in Seq(Frame)
    PROVE  /\ Bytes(c) \in Seq(Byte) /\ Len(Bytes(c)) = Len(c) * RecLen
           /\ \A i \in 1..Len(c), k \in 1..RecLen :
                  /\ (i - 1) * RecLen + k \in 1..(Len(c) * RecLen)
                  /\ Bytes(c)[(i - 1) * RecLen + k] = <<c[i], k>>
  <1>1. RecLen \in Nat \ {0} /\ Len(c) \in Nat
    BY PipelineAssumption, LenProperties
  <1>2. Len(c) * RecLen \in Nat
    BY <1>1, Multiples
  <1>3. ASSUME NEW k \in 1..(Len(c) * RecLen)
        PROVE  <<c[(k - 1) \div RecLen + 1], ((k - 1) % RecLen) + 1>> \in Byte
    <2> DEFINE q == (k - 1) \div RecLen
               m == (k - 1) % RecLen
    <2>1. k - 1 \in 0..(Len(c) * RecLen - 1)
      BY <1>2
    <2>2. q \in 0..(Len(c) - 1) /\ m \in 0..(RecLen - 1)
      BY <1>1, <2>1, Remainders
    <2> HIDE DEF q, m
    <2>3. q + 1 \in 1..Len(c) /\ m + 1 \in 1..RecLen
      BY <1>1, <2>2
    <2>4. c[q + 1] \in Frame
      BY <2>3, ElementOfSeq
    <2> QED BY <2>3, <2>4 DEF Byte, q, m
  <1>4. Bytes(c) \in Seq(Byte) /\ Len(Bytes(c)) = Len(c) * RecLen
    <2> DEFINE n == Len(c) * RecLen
               e(k) == <<c[(k - 1) \div RecLen + 1], ((k - 1) % RecLen) + 1>>
    <2>1. Bytes(c) = [k \in 1..n |-> e(k)]
      BY DEF Bytes
    <2>2. n \in Nat /\ \A k \in 1..n : e(k) \in Byte
      BY <1>2, <1>3
    <2> HIDE DEF n, e
    <2>3. Bytes(c) \in Seq(Byte) /\ Len(Bytes(c)) = n
      BY <2>1, <2>2
    <2> QED BY <2>3 DEF n
  <1>5. ASSUME NEW i \in 1..Len(c), NEW k \in 1..RecLen
        PROVE  /\ (i - 1) * RecLen + k \in 1..(Len(c) * RecLen)
               /\ Bytes(c)[(i - 1) * RecLen + k] = <<c[i], k>>
    <2> DEFINE x == (i - 1) * RecLen + k
    <2>1. i - 1 \in Nat /\ k - 1 \in 0..(RecLen - 1) /\ i <= Len(c)
      BY <1>1
    <2>2. /\ (i - 1) * RecLen \in Nat
          /\ ((i - 1) * RecLen + (k - 1)) \div RecLen = i - 1
          /\ ((i - 1) * RecLen + (k - 1)) % RecLen = k - 1
      BY <1>1, <2>1, Quotients
    <2>3. x - 1 = (i - 1) * RecLen + (k - 1)
      BY <1>1, <2>2
    <2>4. (i - 1) * RecLen + RecLen = i * RecLen /\ i * RecLen <= Len(c) * RecLen
      <3>1. (i - 1) * RecLen + RecLen = (i - 1 + 1) * RecLen
        BY <1>1, <2>1, Multiples
      <3>2. i - 1 + 1 = i /\ i \in Nat
        BY <2>1
      <3> QED BY <1>1, <2>1, <3>1, <3>2, Multiples
    <2>5. x \in 1..(Len(c) * RecLen)
      BY <1>1, <1>2, <2>2, <2>4
    <2>6. Bytes(c)[x] = <<c[(x - 1) \div RecLen + 1], ((x - 1) % RecLen) + 1>>
      BY <2>5 DEF Bytes
    <2>7. (x - 1) \div RecLen = i - 1 /\ (x - 1) % RecLen = k - 1
      BY <2>2, <2>3
    <2> HIDE DEF x
    <2>8. Bytes(c)[x] = <<c[i], k>>
      BY <2>1, <2>6, <2>7
    <2> QED BY <2>5, <2>8 DEF x
  <1> QED BY <1>4, <1>5

(* What Chan reads off the bytes waiting. *)
Cut(w) == [i \in 1..(Len(w) \div RecLen) |-> w[(i - 1) * RecLen + 1][1]]

LEMMA CutBytes ==
    ASSUME NEW c \in Seq(Frame), NEW p \in Seq(Byte), Len(p) < RecLen
    PROVE  Cut(Bytes(c) \o p) = c
  <1> DEFINE w == Bytes(c) \o p
             n == Len(c)
  <1>1. RecLen \in Nat \ {0} /\ n \in Nat /\ Len(p) \in 0..(RecLen - 1)
    BY PipelineAssumption, LenProperties
  <1>2. Bytes(c) \in Seq(Byte) /\ Len(Bytes(c)) = n * RecLen
    BY BytesAt
  <1>3. Len(w) = n * RecLen + Len(p)
    BY <1>2, ConcatProperties
  <1>4. Len(w) \div RecLen = n
    BY <1>1, <1>3, Quotients
  <1>5. ASSUME NEW i \in 1..n PROVE w[(i - 1) * RecLen + 1][1] = c[i]
    <2>1. 1 \in 1..RecLen
      BY <1>1
    <2>2. /\ (i - 1) * RecLen + 1 \in 1..(n * RecLen)
          /\ Bytes(c)[(i - 1) * RecLen + 1] = <<c[i], 1>>
      BY <2>1, BytesAt
    <2> DEFINE x == (i - 1) * RecLen + 1
    <2>3. x \in 1..Len(Bytes(c))
      BY <1>2, <2>2
    <2> HIDE DEF x
    <2>4. w[x] = Bytes(c)[x]
      BY <1>2, <2>3, ConcatProperties
    <2>5. w[x] = <<c[i], 1>>
      BY <2>2, <2>4 DEF x
    <2> QED BY <2>5 DEF x
  <1>6. Cut(w) = [i \in 1..n |-> w[(i - 1) * RecLen + 1][1]]
    BY <1>4 DEF Cut
  <1>7. Cut(w) = [i \in 1..n |-> c[i]]
    BY <1>5, <1>6
  <1> HIDE DEF w
  <1>8. c = [i \in 1..n |-> c[i]]
    OBVIOUS
  <1> QED BY <1>7, <1>8 DEF w

(* Bytes(c) is the only row of bytes with those bytes in it. *)
LEMMA BytesOnly ==
    ASSUME NEW c \in Seq(Frame), NEW w \in Seq(Byte), Len(w) = Len(c) * RecLen,
           \A i \in 1..Len(c), k \in 1..RecLen : w[(i - 1) * RecLen + k] = <<c[i], k>>
    PROVE  w = Bytes(c)
  <1>1. RecLen \in Nat \ {0} /\ Len(c) \in Nat /\ Len(c) * RecLen \in Nat
    BY PipelineAssumption, LenProperties, Multiples
  <1>2. ASSUME NEW x \in 1..(Len(c) * RecLen) PROVE w[x] = Bytes(c)[x]
    <2> DEFINE q == (x - 1) \div RecLen
               m == (x - 1) % RecLen
    <2>1. x - 1 \in 0..(Len(c) * RecLen - 1)
      BY <1>1
    <2>2. q \in 0..(Len(c) - 1) /\ m \in 0..(RecLen - 1) /\ x - 1 = q * RecLen + m
      BY <1>1, <2>1, Remainders
    <2>3. Bytes(c)[x] = <<c[q + 1], m + 1>>
      BY DEF Bytes
    <2> HIDE DEF q, m
    <2>4. /\ q + 1 \in 1..Len(c) /\ m + 1 \in 1..RecLen /\ q + 1 - 1 = q
      BY <1>1, <2>2
    <2>5. q * RecLen \in Nat /\ x = q * RecLen + (m + 1)
      BY <1>1, <2>2, Multiples
    <2>6. w[q * RecLen + (m + 1)] = <<c[q + 1], m + 1>>
      <3> DEFINE i == q + 1
                 k == m + 1
      <3>1. i \in 1..Len(c) /\ k \in 1..RecLen /\ i - 1 = q /\ i = q + 1 /\ k = m + 1
        BY <1>1, <2>2, <2>4
      <3> HIDE DEF i, k
      <3>2. w[(i - 1) * RecLen + k] = <<c[i], k>>
        BY <3>1
      <3> QED BY <3>1, <3>2
    <2> QED BY <2>3, <2>4, <2>5, <2>6
  <1> QED BY <1>2, BytesAt, SeqEqual

(* A frame more is its record more. *)
LEMMA BytesAppend ==
    ASSUME NEW c \in Seq(Frame), NEW f \in Frame
    PROVE  Bytes(c) \o Record(f) = Bytes(Append(c, f))
  <1> DEFINE n == Len(c)
             l == n * RecLen
             d == Append(c, f)
             b == Bytes(c)
             r == Record(f)
  <1>1. RecLen \in Nat \ {0} /\ n \in Nat /\ l \in Nat /\ (n + 1) * RecLen = l + RecLen
    BY PipelineAssumption, LenProperties, Multiples
  <1>2. /\ d \in Seq(Frame) /\ Len(d) = n + 1 /\ d[n + 1] = f
        /\ \A i \in 1..n : d[i] = c[i]
    BY AppendProperties
  <1>3. /\ b \in Seq(Byte) /\ Len(b) = l
        /\ \A i \in 1..n, k \in 1..RecLen :
               (i - 1) * RecLen + k \in 1..l /\ b[(i - 1) * RecLen + k] = <<c[i], k>>
    BY BytesAt
  <1>4. r \in Seq(Byte) /\ Len(r) = RecLen /\ \A k \in 1..RecLen : r[k] = <<f, k>>
    BY RecordType DEF Record
  <1> HIDE DEF d, b, r, n, l
  <1>5. /\ b \o r \in Seq(Byte) /\ Len(b \o r) = l + RecLen
        /\ \A x \in 1..l : (b \o r)[x] = b[x]
        /\ \A k \in 1..RecLen : (b \o r)[l + k] = r[k]
    <2>0. b \in Seq(Byte) /\ r \in Seq(Byte)
      BY <1>3, <1>4
    <2>1. /\ b \o r \in Seq(Byte) /\ Len(b \o r) = Len(b) + Len(r)
          /\ \A z \in 1..Len(b) : (b \o r)[z] = b[z]
          /\ \A z \in 1..Len(r) : (b \o r)[Len(b) + z] = r[z]
      BY <2>0, ConcatAt
    <2> QED BY <1>1, <1>3, <1>4, <2>1
  <1>6. ASSUME NEW i \in 1..(n + 1), NEW k \in 1..RecLen
        PROVE  (b \o r)[(i - 1) * RecLen + k] = <<d[i], k>>
    <2>1. CASE i \in 1..n
      <3> DEFINE x == (i - 1) * RecLen + k
      <3>1. x \in 1..l /\ b[x] = <<c[i], k>> /\ d[i] = c[i]
        BY <1>2, <1>3, <2>1
      <3> HIDE DEF x
      <3>2. (b \o r)[x] = <<d[i], k>>
        BY <1>5, <3>1
      <3> QED BY <3>2 DEF x
    <2>2. CASE i = n + 1
      <3>1. i - 1 = n /\ (i - 1) * RecLen = l
        BY <1>1, <2>2 DEF l
      <3> QED BY <1>2, <1>4, <1>5, <2>2, <3>1
    <2>3. i \in 1..n \/ i = n + 1
      BY <1>1
    <2> QED BY <2>1, <2>2, <2>3
  <1>7. b \o r = Bytes(d)
    BY <1>1, <1>2, <1>5, <1>6, BytesOnly
  <1> QED BY <1>7 DEF b, r, d

(* The frame at the front is the record at the front. *)
LEMMA BytesTail ==
    ASSUME NEW c \in Seq(Frame), c # <<>>
    PROVE  Bytes(c) = Record(Head(c)) \o Bytes(Tail(c))
  <1> DEFINE n == Len(c) - 1
             l == n * RecLen
             r == Record(Head(c))
             d == Tail(c)
             b == Bytes(d)
  <1>1. /\ RecLen \in Nat \ {0} /\ n \in Nat /\ l \in Nat /\ Len(c) = n + 1
        /\ (n + 1) * RecLen = l + RecLen
    <2>1. Len(c) \in Nat \ {0} /\ RecLen \in Nat \ {0}
      BY PipelineAssumption, EmptySeq
    <2>2. n \in Nat /\ Len(c) = n + 1
      BY <2>1
    <2> HIDE DEF n
    <2> QED BY <2>1, <2>2, Multiples
  <1>2. /\ Head(c) \in Frame /\ Head(c) = c[1] /\ d \in Seq(Frame) /\ Len(d) = n
        /\ \A i \in 1..n : d[i] = c[i + 1]
    BY <1>1, HeadTailProperties
  <1>3. /\ b \in Seq(Byte) /\ Len(b) = l
        /\ \A i \in 1..n, k \in 1..RecLen :
               (i - 1) * RecLen + k \in 1..l /\ b[(i - 1) * RecLen + k] = <<d[i], k>>
    <2> HIDE DEF d
    <2> QED BY <1>2, BytesAt
  <1>4. r \in Seq(Byte) /\ Len(r) = RecLen /\ \A k \in 1..RecLen : r[k] = <<c[1], k>>
    BY <1>2, RecordType DEF Record
  <1> HIDE DEF d, b, r, n, l
  <1>5. /\ r \o b \in Seq(Byte) /\ Len(r \o b) = l + RecLen
        /\ \A k \in 1..RecLen : (r \o b)[k] = r[k]
        /\ \A x \in 1..l : (r \o b)[RecLen + x] = b[x]
    <2>0. b \in Seq(Byte) /\ r \in Seq(Byte)
      BY <1>3, <1>4
    <2>1. /\ r \o b \in Seq(Byte) /\ Len(r \o b) = Len(r) + Len(b)
          /\ \A z \in 1..Len(r) : (r \o b)[z] = r[z]
          /\ \A z \in 1..Len(b) : (r \o b)[Len(r) + z] = b[z]
      BY <2>0, ConcatAt
    <2> QED BY <1>1, <1>3, <1>4, <2>1
  <1>6. ASSUME NEW i \in 1..(n + 1), NEW k \in 1..RecLen
        PROVE  (r \o b)[(i - 1) * RecLen + k] = <<c[i], k>>
    <2>1. CASE i = 1
      <3>1. (i - 1) * RecLen + k = k
        BY <1>1, <2>1, Multiples
      <3> QED BY <1>4, <1>5, <2>1, <3>1
    <2>2. CASE i # 1
      <3> DEFINE j == i - 1
                 x == (j - 1) * RecLen + k
      <3>1. j \in 1..n /\ j + 1 = i /\ j - 1 \in Nat /\ j - 1 + 1 = j
        BY <1>1, <2>2
      <3>2. x \in 1..l /\ b[x] = <<d[j], k>> /\ d[j] = c[i]
        <4> HIDE DEF j
        <4> QED BY <1>2, <1>3, <3>1
      <3>3. (i - 1) * RecLen + k = RecLen + x
        <4>1. (j - 1) * RecLen + RecLen = j * RecLen /\ (j - 1) * RecLen \in Nat
          <5> HIDE DEF j
          <5>1. (j - 1) * RecLen + RecLen = (j - 1 + 1) * RecLen /\ (j - 1) * RecLen \in Nat
            BY <1>1, <3>1, Multiples
          <5> QED BY <3>1, <5>1
        <4> QED BY <1>1, <4>1
      <3> HIDE DEF x
      <3> QED BY <1>5, <3>2, <3>3
    <2> QED BY <2>1, <2>2
  <1>7. r \o b = Bytes(c)
    BY <1>1, <1>5, <1>6, BytesOnly
  <1> QED BY <1>7 DEF b, r, d

(* Any record of the row. *)
LEMMA BytesRecord ==
    ASSUME NEW c \in Seq(Frame), NEW i \in 1..Len(c)
    PROVE  SubSeq(Bytes(c), (i - 1) * RecLen + 1, i * RecLen) = Record(c[i])
  <1> DEFINE l == (i - 1) * RecLen
             s == SubSeq(Bytes(c), l + 1, l + RecLen)
  <1>1. /\ RecLen \in Nat \ {0} /\ Len(c) \in Nat /\ i - 1 \in Nat /\ i \in Nat
        /\ i - 1 + 1 = i /\ c[i] \in Frame
    BY PipelineAssumption, LenProperties, ElementOfSeq
  <1>2. l \in Nat /\ i * RecLen = l + RecLen
    BY <1>1, Multiples
  <1>3. \A k \in 1..RecLen : Bytes(c)[l + k] = <<c[i], k>>
    BY BytesAt
  <1>4. \A k \in 1..RecLen : <<c[i], k>> \in Byte
    BY <1>1 DEF Byte
  <1> HIDE DEF l
  <1>5. \A x \in (l + 1)..(l + RecLen) : Bytes(c)[x] \in Byte
    <2> TAKE x \in (l + 1)..(l + RecLen)
    <2> DEFINE k == x - l
    <2>1. k \in 1..RecLen /\ x = l + k
      BY <1>1, <1>2
    <2> HIDE DEF k
    <2> QED BY <1>3, <1>4, <2>1
  <1>6. /\ s \in Seq(Byte) /\ Len(s) = RecLen
        /\ \A k \in 1..RecLen : s[k] = Bytes(c)[l + k]
    <2>1. l + 1 \in Int /\ l + RecLen \in Int /\ l + 1 <= l + RecLen
      BY <1>1, <1>2
    <2>2. s \in Seq(Byte) /\ Len(s) = RecLen
      <3> DEFINE m == l + 1
                 x == l + RecLen
                 b == Bytes(c)
      <3>1. /\ m \in Int /\ x \in Int /\ m <= x /\ x - m + 1 = RecLen
            /\ \A y \in m..x : b[y] \in Byte
        BY <1>1, <1>2, <1>5
      <3> HIDE DEF m, x, b
      <3>2. SubSeq(b, m, x) \in Seq(Byte) /\ Len(SubSeq(b, m, x)) = x - m + 1
        BY <3>1, SubSeqProperties
      <3> QED BY <3>1, <3>2 DEF m, x, b, s
    <2>3. \A k \in 1..RecLen : s[k] = Bytes(c)[l + 1 + k - 1]
      BY <1>1, <1>2, <1>5, <2>1, SubSeqProperties
    <2>4. \A k \in 1..RecLen : l + 1 + k - 1 = l + k
      BY <1>1, <1>2
    <2> QED BY <1>1, <1>2, <2>2, <2>3, <2>4
  <1> HIDE DEF s
  <1>7. s = Record(c[i])
    <2>1. /\ Record(c[i]) \in Seq(Byte) /\ Len(Record(c[i])) = RecLen
          /\ \A k \in 1..RecLen : Record(c[i])[k] = <<c[i], k>>
      BY <1>1, RecordType DEF Record
    <2>2. \A k \in 1..RecLen : s[k] = Record(c[i])[k]
      BY <1>3, <1>6, <2>1
    <2> QED BY <1>6, <2>1, <2>2, SeqEqual
  <1> QED BY <1>2, <1>7 DEF s, l

-----------------------------------------------------------------------------
(* The ring, as the sequence of its bytes. *)
LEMMA Around ==
    ASSUME NEW s \in Nat \ {0}, NEW h \in 0..(s - 1), NEW i \in 0..(s - 1)
    PROVE  (h + i) % s \in 0..(s - 1) /\ h % s = h
  BY SMT

Row(q, g) == [i \in 1..q.len |-> g[(q.head + i - 1) % QSize]]

LEMMA RowType ==
    ASSUME NEW q, NEW g \in [0..(QSize - 1) -> Byte], q.head \in 0..(QSize - 1), q.len \in 0..QSize
    PROVE  /\ Row(q, g) \in Seq(Byte) /\ Len(Row(q, g)) = q.len
           /\ \A i \in 1..q.len : /\ i - 1 \in 0..(QSize - 1)
                                  /\ Row(q, g)[i] = g[(q.head + (i - 1)) % QSize]
  <1> DEFINE n == q.len
             h == q.head
             e(i) == g[(h + i - 1) % QSize]
  <1>1. QSize \in Nat \ {0} /\ h \in 0..(QSize - 1) /\ n \in 0..QSize
    BY PipelineAssumption
  <1>2. Row(q, g) = [i \in 1..n |-> e(i)]
    BY DEF Row
  <1> HIDE DEF h, n
  <1>3. ASSUME NEW i \in 1..n
        PROVE  i - 1 \in 0..(QSize - 1) /\ e(i) = g[(h + (i - 1)) % QSize] /\ e(i) \in Byte
    <2>1. i - 1 \in 0..(QSize - 1) /\ h + i - 1 = h + (i - 1)
      BY <1>1
    <2> DEFINE k == i - 1
    <2>2. k \in 0..(QSize - 1)
      BY <2>1
    <2> HIDE DEF k
    <2>3. (h + k) % QSize \in 0..(QSize - 1)
      BY <1>1, <2>2, Around
    <2> QED BY <2>1, <2>3 DEF k
  <1> HIDE DEF e
  <1>4. Row(q, g) \in Seq(Byte) /\ Len(Row(q, g)) = n /\ \A i \in 1..n : Row(q, g)[i] = e(i)
    BY <1>1, <1>2, <1>3
  <1> QED BY <1>3, <1>4 DEF n, h

LEMMA StoredType ==
    ASSUME Inv
    PROVE  Stored = Row(q_entity, g_q) /\ Stored \in Seq(Byte) /\ Len(Stored) = q_entity.len
  <1>1. q_entity.head \in 0..(QSize - 1) /\ q_entity.len \in 0..QSize /\ g_q \in [0..(QSize - 1) -> Byte]
    BY DEF Inv, TypeOK
  <1>2. Stored = Row(q_entity, g_q)
    BY DEF Stored, Row
  <1> QED BY <1>1, <1>2, RowType

LEMMA Stores ==
    ASSUME Inv, Inv', Layout, store, q_entity.len < QSize
    PROVE  Stored' = Append(Stored, <<img, sent + 1>>) /\ <<img, sent + 1>> \in Byte
  <1> DEFINE h == q_entity.head
             n == q_entity.len
             e == <<img, sent + 1>>
  <1>1. /\ QSize \in Nat \ {0} /\ h \in 0..(QSize - 1) /\ n \in 0..(QSize - 1)
        /\ q_entity.tail = (h + n) % QSize /\ q_entity.size = QSize
        /\ g_q \in [0..(QSize - 1) -> Byte] /\ img \in Frame /\ sent + 1 \in 1..RecLen
        /\ q_entity \in QType
    <2>1. /\ cam = "store" /\ QSize \in Nat \ {0} /\ RecLen \in Nat \ {0}
      BY PipelineAssumption DEF store
    <2>2. q_entity.size = QSize /\ img \in Frame /\ sent < RecLen /\ sent \in 0..RecLen
      BY <2>1 DEF Inv, TypeOK, QueueInv, CamPcs
    <2>3. q_entity \in QType /\ g_q \in [0..(QSize - 1) -> Byte]
      BY DEF Inv, TypeOK, QType
    <2>4. h \in 0..(QSize - 1) /\ n \in 0..QSize /\ n < QSize
      BY <2>3 DEF QType
    <2> QED BY <2>1, <2>2, <2>3, <2>4 DEF Layout
  <1>2. e \in Byte /\ Record(img)[sent + 1] = e
    BY <1>1 DEF Byte, Record
  <1>3. g_q' = [g_q EXCEPT ![(h + n) % QSize] = e] /\ q_entity'.head = h /\ q_entity'.len = n + 1
    <2>1. /\ g_q' = [g_q EXCEPT ![q_entity.tail] = Record(img)[sent + 1]]
          /\ q_entity' = [q_entity EXCEPT !.tail = (@ + 1) % q_entity.size, !.len = @ + 1]
      BY <1>1 DEF store
    <2>2. q_entity'.head = h /\ q_entity'.len = n + 1
      BY <1>1, <2>1 DEF QType
    <2> QED BY <1>1, <1>2, <2>1, <2>2
  <1>4. /\ Stored \in Seq(Byte) /\ Len(Stored) = n
        /\ \A i \in 1..n : Stored[i] = g_q[(h + (i - 1)) % QSize]
    <2>1. /\ g_q \in [0..(QSize - 1) -> Byte] /\ q_entity.head \in 0..(QSize - 1)
          /\ q_entity.len \in 0..QSize
      BY DEF Inv, TypeOK
    <2>2. /\ Row(q_entity, g_q) \in Seq(Byte) /\ Len(Row(q_entity, g_q)) = q_entity.len
          /\ \A i \in 1..q_entity.len :
                 Row(q_entity, g_q)[i] = g_q[(q_entity.head + (i - 1)) % QSize]
      BY <2>1, RowType
    <2> QED BY <2>2, StoredType
  <1>5. /\ Stored' \in Seq(Byte) /\ Len(Stored') = n + 1
        /\ \A i \in 1..(n + 1) : Stored'[i] = g_q'[(h + (i - 1)) % QSize]
    <2>1. Stored' = Row(q_entity', g_q')
      BY DEF Stored, Row
    <2>2. /\ g_q' \in [0..(QSize - 1) -> Byte] /\ q_entity'.head \in 0..(QSize - 1)
          /\ q_entity'.len \in 0..QSize
      BY DEF Inv, TypeOK
    <2>3. /\ Row(q_entity', g_q') \in Seq(Byte) /\ Len(Row(q_entity', g_q')) = q_entity'.len
          /\ \A i \in 1..q_entity'.len :
                 Row(q_entity', g_q')[i] = g_q'[(q_entity'.head + (i - 1)) % QSize]
      BY <2>2, RowType
    <2> QED BY <1>3, <2>1, <2>3
  <1> HIDE DEF h, n, e
  <1>6. \A i \in 1..(n + 1) : Stored'[i] = Append(Stored, e)[i]
    <2> TAKE i \in 1..(n + 1)
    <2> DEFINE j == i - 1
    <2>0. j \in 0..(QSize - 1) /\ j = i - 1
      BY <1>1
    <2> HIDE DEF j
    <2>1. (h + j) % QSize \in 0..(QSize - 1) /\ (h + n) % QSize \in 0..(QSize - 1)
      BY <1>1, <2>0, Around
    <2>2. CASE i = n + 1
      <3>1. j = n /\ Append(Stored, e)[i] = e
        BY <1>1, <1>2, <1>4, <2>0, <2>2, AppendProperties
      <3> QED BY <1>1, <1>3, <1>5, <2>0, <2>1, <3>1
    <2>3. CASE i # n + 1
      <3>1. i \in 1..n /\ j # n
        BY <1>1, <2>0, <2>3
      <3>2. (h + j) % QSize # (h + n) % QSize
        BY <1>1, <2>0, <3>1, SMT
      <3>3. Stored'[i] = g_q[(h + j) % QSize]
        BY <1>1, <1>3, <1>5, <2>0, <2>1, <3>2
      <3>4. Append(Stored, e)[i] = Stored[i]
        BY <1>2, <1>4, <3>1, AppendProperties
      <3> QED BY <1>4, <2>0, <3>1, <3>3, <3>4
    <2> QED BY <2>2, <2>3
  <1>7. Append(Stored, e) \in Seq(Byte) /\ Len(Append(Stored, e)) = n + 1
    BY <1>2, <1>4, AppendProperties
  <1>8. Stored' = Append(Stored, e)
    BY <1>5, <1>6, <1>7, SeqEqual
  <1> QED BY <1>2, <1>8 DEF e

LEMMA Fetches ==
    ASSUME Inv, Inv', fetch
    PROVE  Stored # <<>> /\ Stored' = Tail(Stored) /\ rec' = Append(rec, Head(Stored))
  <1> DEFINE h == q_entity.head
             n == q_entity.len
  <1>1. /\ QSize \in Nat \ {0} /\ h \in 0..(QSize - 1) /\ n \in 0..QSize /\ n > 0
        /\ q_entity.size = QSize
        /\ g_q \in [0..(QSize - 1) -> Byte]
        /\ DOMAIN q_entity = {"size", "head", "tail", "len"}
    <2>1. main = "fetch" /\ cam \in CamPcs \ {"mutex_init", "queue_init"}
      BY DEF fetch, MainGoes, Inv, LockInv
    <2>2. Len(rec) \in Nat /\ want \in Nat /\ QSize \in Nat \ {0}
      BY PipelineAssumption, LenProperties DEF Inv, TypeOK
    <2> QED BY <2>1, <2>2 DEF Inv, TypeOK, QueueInv
  <1>2. /\ g_q' = g_q /\ q_entity'.head = (h + 1) % QSize /\ q_entity'.len = n - 1
        /\ rec' = Append(rec, g_q[h])
    BY <1>1 DEF fetch
  <1>3. /\ Stored \in Seq(Byte) /\ Len(Stored) = n
        /\ \A i \in 1..n : Stored[i] = g_q[(h + (i - 1)) % QSize]
    <2>1. /\ g_q \in [0..(QSize - 1) -> Byte] /\ q_entity.head \in 0..(QSize - 1)
          /\ q_entity.len \in 0..QSize
      BY DEF Inv, TypeOK
    <2>2. /\ Row(q_entity, g_q) \in Seq(Byte) /\ Len(Row(q_entity, g_q)) = q_entity.len
          /\ \A i \in 1..q_entity.len :
                 Row(q_entity, g_q)[i] = g_q[(q_entity.head + (i - 1)) % QSize]
      BY <2>1, RowType
    <2> QED BY <2>2, StoredType
  <1>4. /\ Stored' \in Seq(Byte) /\ Len(Stored') = n - 1
        /\ \A i \in 1..(n - 1) : Stored'[i] = g_q[(((h + 1) % QSize) + (i - 1)) % QSize]
    <2>1. Stored' = Row(q_entity', g_q')
      BY DEF Stored, Row
    <2>2. /\ g_q' \in [0..(QSize - 1) -> Byte] /\ q_entity'.head \in 0..(QSize - 1)
          /\ q_entity'.len \in 0..QSize
      BY DEF Inv, TypeOK
    <2>3. /\ Row(q_entity', g_q') \in Seq(Byte) /\ Len(Row(q_entity', g_q')) = q_entity'.len
          /\ \A i \in 1..q_entity'.len :
                 Row(q_entity', g_q')[i] = g_q'[(q_entity'.head + (i - 1)) % QSize]
      BY <2>2, RowType
    <2> QED BY <1>2, <2>1, <2>3
  <1> HIDE DEF h, n
  <1>5. Stored # <<>>
    BY <1>1, <1>3, EmptySeq
  <1>6. Head(Stored) = g_q[h]
    <2>1. 1 \in 1..n /\ h + (1 - 1) = h /\ h % QSize = h
      BY <1>1, Around
    <2>2. Head(Stored) = Stored[1]
      BY <1>3, <1>5, HeadTailProperties
    <2> QED BY <1>3, <2>1, <2>2
  <1>7. /\ Tail(Stored) \in Seq(Byte) /\ Len(Tail(Stored)) = n - 1
        /\ \A i \in 1..(n - 1) : Tail(Stored)[i] = Stored[i + 1]
    BY <1>3, <1>5, HeadTailProperties
  <1>8. \A i \in 1..(n - 1) : Stored'[i] = Tail(Stored)[i]
    <2> TAKE i \in 1..(n - 1)
    <2> DEFINE j == i - 1
    <2>1. j \in 0..(QSize - 1) /\ j = i - 1 /\ i + 1 \in 1..n /\ i + 1 - 1 = j + 1
      BY <1>1
    <2> HIDE DEF j
    <2>2. (((h + 1) % QSize) + j) % QSize = (h + (j + 1)) % QSize
      BY <1>1, <2>1, SMT
    <2>3. Stored[i + 1] = g_q[(h + (j + 1)) % QSize]
      BY <1>3, <2>1
    <2>4. Stored'[i] = g_q[(((h + 1) % QSize) + j) % QSize]
      BY <1>4, <2>1
    <2> QED BY <1>7, <2>2, <2>3, <2>4
  <1>9. Stored' = Tail(Stored)
    BY <1>4, <1>7, <1>8, SeqEqual
  <1> QED BY <1>2, <1>5, <1>6, <1>9

-----------------------------------------------------------------------------
(* Rows put together and taken apart. *)
LEMMA AppendConcat ==
    ASSUME NEW s \in Seq(Byte), NEW t \in Seq(Byte), NEW e \in Byte
    PROVE  Append(s \o t, e) = s \o Append(t, e)
  <1>1. <<e>> \in Seq(Byte) /\ s \o t \in Seq(Byte)
    BY ConcatProperties
  <1>2. Append(s \o t, e) = (s \o t) \o <<e>> /\ Append(t, e) = t \o <<e>>
    BY <1>1, AppendIsConcat
  <1> QED BY <1>1, <1>2, ConcatAssociative

LEMMA HeadMoves ==
    ASSUME NEW S, NEW s \in Seq(S), NEW t \in Seq(S), t # <<>>
    PROVE  /\ Append(s, Head(t)) \o Tail(t) = s \o t
           /\ Append(s, Head(t)) \in Seq(S) /\ Tail(t) \in Seq(S)
  <1> DEFINE e == Head(t)
             u == Tail(t)
  <1>1. e \in S /\ u \in Seq(S) /\ t = <<e>> \o u
    BY HeadTailProperties
  <1> HIDE DEF e, u
  <1>2. <<e>> \in Seq(S) /\ Append(s, e) \in Seq(S)
    BY <1>1, AppendProperties
  <1>3. Append(s, e) = s \o <<e>>
    BY <1>1, AppendIsConcat
  <1>4. (s \o <<e>>) \o u = s \o (<<e>> \o u)
    BY <1>1, <1>2, ConcatAssociative
  <1>5. Append(s, e) \o u = s \o t
    BY <1>1, <1>3, <1>4
  <1> QED BY <1>1, <1>2, <1>5 DEF e, u

Joins(w, s, t) ==
    /\ Len(w) = Len(s) + Len(t) /\ Len(s) \in Nat /\ Len(t) \in Nat
    /\ \A i \in 1..Len(s) : w[i] = s[i]
    /\ \A k \in 1..Len(t) : w[Len(s) + k] = t[k]

LEMMA ConcatJoins ==
    ASSUME NEW S, NEW s \in Seq(S), NEW t \in Seq(S) PROVE Joins(s \o t, s, t)
  BY ConcatAt, LenProperties DEF Joins

LEMMA SplitEqual ==
    ASSUME NEW S, NEW s \in Seq(S), NEW t \in Seq(S), NEW u \in Seq(S), NEW v \in Seq(S),
           Len(s) = Len(u), s \o t = u \o v
    PROVE  s = u /\ t = v
  <1>1. PICK w : Joins(w, s, t) /\ Joins(w, u, v)
    BY ConcatJoins, Zenon
  <1>2. Len(t) = Len(v)
    BY <1>1 DEF Joins
  <1>3. \A i \in 1..Len(s) : s[i] = u[i]
    BY <1>1 DEF Joins
  <1>4. \A k \in 1..Len(t) : t[k] = v[k]
    BY <1>1, <1>2 DEF Joins
  <1> QED BY <1>2, <1>3, <1>4, SeqEqual

(* What the camera has stored of its record. *)
LEMMA Prefix ==
    ASSUME NEW f \in Frame, NEW n \in 0..RecLen
    PROVE  /\ SubSeq(Record(f), 1, n) \in Seq(Byte) /\ Len(SubSeq(Record(f), 1, n)) = n
           /\ n = 0 => SubSeq(Record(f), 1, n) = <<>>
           /\ n = RecLen => SubSeq(Record(f), 1, n) = Record(f)
           /\ n < RecLen => Append(SubSeq(Record(f), 1, n), <<f, n + 1>>) = SubSeq(Record(f), 1, n + 1)
  <1> DEFINE r == Record(f)
  <1>1. /\ RecLen \in Nat \ {0} /\ r \in Seq(Byte) /\ Len(r) = RecLen
        /\ \A k \in 1..RecLen : r[k] = <<f, k>> /\ r[k] \in Byte
    <2>1. RecLen \in Nat \ {0} /\ r \in Seq(Byte) /\ Len(r) = RecLen
      BY PipelineAssumption, RecordType
    <2>2. \A k \in 1..RecLen : r[k] = <<f, k>>
      BY DEF Record
    <2> QED BY <2>1, <2>2, RecordByte
  <1> HIDE DEF r
  <1>2. ASSUME NEW m \in 0..RecLen
        PROVE  /\ SubSeq(r, 1, m) \in Seq(Byte) /\ Len(SubSeq(r, 1, m)) = m
               /\ \A i \in 1..m : SubSeq(r, 1, m)[i] = r[i]
    <2>1. m \in Int /\ 1 \in Int /\ \A i \in 1..m : r[i] \in Byte
      BY <1>1
    <2>2. /\ SubSeq(r, 1, m) \in Seq(Byte)
          /\ Len(SubSeq(r, 1, m)) = IF 1 <= m THEN m - 1 + 1 ELSE 0
          /\ \A i \in 1..(m - 1 + 1) : SubSeq(r, 1, m)[i] = r[1 + i - 1]
      BY <2>1, SubSeqProperties
    <2>3. (IF 1 <= m THEN m - 1 + 1 ELSE 0) = m /\ m - 1 + 1 = m /\ \A i \in 1..m : 1 + i - 1 = i
      BY <1>1
    <2> QED BY <2>2, <2>3
  <1>3. n = 0 => SubSeq(r, 1, n) = <<>>
    BY <1>2, EmptySeq
  <1>4. n = RecLen => SubSeq(r, 1, n) = r
    BY <1>1, <1>2, SeqEqual
  <1>5. ASSUME n < RecLen PROVE Append(SubSeq(r, 1, n), <<f, n + 1>>) = SubSeq(r, 1, n + 1)
    <2> DEFINE s == SubSeq(r, 1, n)
               t == SubSeq(r, 1, n + 1)
               e == <<f, n + 1>>
    <2>1. n + 1 \in 0..RecLen /\ n + 1 \in 1..RecLen /\ n \in Nat
      BY <1>1, <1>5
    <2>2. s \in Seq(Byte) /\ Len(s) = n /\ \A i \in 1..n : s[i] = r[i]
      BY <1>2
    <2>3. t \in Seq(Byte) /\ Len(t) = n + 1 /\ \A i \in 1..(n + 1) : t[i] = r[i]
      BY <1>2, <2>1
    <2>4. e = r[n + 1] /\ e \in Byte
      BY <1>1, <2>1
    <2> HIDE DEF s, t, e
    <2>5. /\ Append(s, e) \in Seq(Byte) /\ Len(Append(s, e)) = n + 1
          /\ \A i \in 1..(n + 1) : Append(s, e)[i] = t[i]
      BY <2>1, <2>2, <2>3, <2>4, AppendProperties
    <2>6. Append(s, e) = t
      BY <2>3, <2>5, SeqEqual
    <2> QED BY <2>6 DEF s, t, e
  <1> QED BY <1>2, <1>3, <1>4, <1>5 DEF r

LEMMA PartialType ==
    ASSUME Inv
    PROVE  /\ Partial \in Seq(Byte) /\ Len(Partial) < RecLen
           /\ Len(Partial) = IF cam = "store" THEN sent ELSE 0
           /\ cam # "store" => Partial = <<>>
  <1>1. RecLen \in Nat \ {0}
    BY PipelineAssumption
  <1>2. CASE cam = "store"
    <2>1. img \in Frame /\ sent \in 0..RecLen /\ sent < RecLen
      BY <1>2 DEF Inv, TypeOK, QueueInv
    <2> QED BY <1>2, <2>1, Prefix DEF Partial
  <1>3. CASE cam # "store"
    <2>1. Partial = <<>>
      BY <1>3 DEF Partial
    <2>2. <<>> \in Seq(Byte) /\ Len(<<>>) = 0
      OBVIOUS
    <2> QED BY <1>1, <1>3, <2>1, <2>2
  <1> QED BY <1>2, <1>3

(* The queue as its two users find it: so many frames, and room for one    *)
(* more unless it is full.                                                 *)
Capacity == QSize \div RecLen

LEMMA Sizes ==
    /\ RecLen \in Nat \ {0} /\ QSize \in Nat \ {0, 1}
    /\ Capacity \in Nat /\ QSize = Capacity * RecLen
  <1>1. RecLen \in Nat \ {0} /\ QSize \in Nat \ {0, 1} /\ QSize % RecLen = 0
    BY PipelineAssumption
  <1>2. QSize = (QSize \div RecLen) * RecLen + (QSize % RecLen) /\ QSize \div RecLen \in Nat
    BY <1>1, SMT
  <1> QED BY <1>1, <1>2 DEF Capacity

LEMMA Room ==
    ASSUME Inv, Layout, main # "fetch"
    PROVE  /\ Stored = Bytes(Chan) \o Partial
           /\ Len(Chan) \in Nat /\ Len(Chan) * RecLen \in Nat
           /\ q_entity.len = Len(Chan) * RecLen + Len(Partial)
  <1>1. Stored \in Seq(Byte) /\ Len(Stored) = q_entity.len
    BY StoredType
  <1>2. Waiting = Stored
    BY <1>1, ConcatEmptySeq DEF Waiting
  <1>3. Stored = Bytes(Chan) \o Partial /\ Chan \in Seq(Frame)
    BY <1>2 DEF Layout
  <1>4. Len(Chan) \in Nat /\ Len(Chan) * RecLen \in Nat
    BY <1>3, Sizes, LenProperties, Multiples
  <1>5. Len(Bytes(Chan) \o Partial) = Len(Chan) * RecLen + Len(Partial)
    BY <1>3, BytesAt, PartialType, ConcatProperties
  <1> QED BY <1>1, <1>3, <1>4, <1>5

-----------------------------------------------------------------------------
(* A frame enters the queue with the last byte of its record, and leaves   *)
(* it with the last byte main takes of it; nothing else changes what is    *)
(* in the queue.                                                           *)
Completes == cam = "store" /\ cam' = "unlock"
Takes     == main = "fetch" /\ main' = "unlock"

Moves ==
    /\ Completes => Chan' = Append(Chan, img) /\ img \in Frame /\ Len(Chan) < Capacity
    /\ Takes => Chan # <<>> /\ Chan' = Tail(Chan) /\ rec' = Record(Head(Chan))
    /\ ~Completes /\ ~Takes => Chan' = Chan

Bookkeeping ==
    /\ q_entity.tail = (q_entity.head + q_entity.len) % QSize
    /\ cam \in {"mutex_init", "queue_init"} => q_entity.len = 0 /\ q_entity.head = 0
    /\ cam = "store" => Len(Chan) < Capacity
    /\ main = "fetch" => want = RecLen
    /\ main \in {"unlock", "work", "release"} => rec = <<>> \/ Whole(rec)
    /\ main \in {"work", "release"} => rec # <<>>

LEMMA LayoutParts == Layout <=> Chan \in Seq(Frame) /\ Waiting = Bytes(Chan) \o Partial /\ Bookkeeping
  BY DEF Layout, Bookkeeping, Capacity

(* From the bytes waiting the frames can be told. *)
LEMMA ChanOf ==
    ASSUME Inv', NEW c \in Seq(Frame), Waiting' = Bytes(c) \o Partial'
    PROVE  Chan' = c
  <1>1. Partial' \in Seq(Byte) /\ Len(Partial') < RecLen
    <2>1. RecLen \in Nat \ {0}
      BY Sizes
    <2>2. CASE cam' = "store"
      <3>1. img' \in Frame /\ sent' \in 0..RecLen /\ sent' < RecLen
        BY <2>2 DEF Inv, TypeOK, QueueInv
      <3>2. Partial' = SubSeq(Record(img'), 1, sent')
        BY <2>2 DEF Partial, Record
      <3> QED BY <3>1, <3>2, Prefix
    <2>3. CASE cam' # "store"
      <3>1. Partial' = <<>> /\ <<>> \in Seq(Byte) /\ Len(<<>>) = 0
        BY <2>3 DEF Partial
      <3> QED BY <2>1, <3>1
    <2> QED BY <2>2, <2>3
  <1>2. Chan' = Cut(Waiting')
    BY DEF Chan, Cut
  <1> QED BY <1>1, <1>2, CutBytes

(* A step that leaves the bytes waiting as they are. *)
LEMMA Stays ==
    ASSUME Inv, Layout, Inv', Partial' = Partial,
           UNCHANGED <<g_q, q_entity>> \/ (q_entity.len = 0 /\ q_entity'.len = 0),
           (IF main' = "fetch" THEN rec' ELSE <<>>) = (IF main = "fetch" THEN rec ELSE <<>>)
    PROVE  Chan' = Chan /\ Waiting' = Bytes(Chan') \o Partial' /\ Chan' \in Seq(Frame)
  <1>1. Stored' = Stored
    <2>1. CASE UNCHANGED <<g_q, q_entity>>
      BY <2>1 DEF Stored
    <2>2. CASE q_entity.len = 0 /\ q_entity'.len = 0
      <3>1. Stored = <<>> /\ Stored' = <<>>
        BY <2>2 DEF Stored
      <3> QED BY <3>1
    <2> QED BY <2>1, <2>2
  <1>2. Waiting' = Waiting
    BY <1>1 DEF Waiting
  <1>3. Chan \in Seq(Frame) /\ Waiting = Bytes(Chan) \o Partial
    BY DEF Layout
  <1>4. Waiting' = Bytes(Chan) \o Partial'
    BY <1>2, <1>3
  <1>5. Chan' = Chan
    BY <1>3, <1>4, ChanOf
  <1> QED BY <1>3, <1>4, <1>5

(* The test of queue_in: there is room for a record, or the queue is full  *)
(* of records.                                                             *)
LEMMA Full ==
    ASSUME Inv, Layout, cam = "queue_in"
    PROVE  /\ q_entity.size = QSize
           /\ q_entity.len >= QSize \/ RecLen > QSize - q_entity.len <=> Len(Chan) = Capacity
           /\ Len(Chan) <= Capacity
  <1>1. main # "fetch" /\ q_entity.size = QSize
    BY DEF Inv, LockInv, QueueInv, CamIn, MainIn
  <1>2. Len(Partial) = 0 /\ q_entity.len \in 0..QSize
    BY PartialType DEF Inv, TypeOK
  <1> DEFINE n == Len(Chan)
             l == n * RecLen
             m == (n + 1) * RecLen
  <1>3. n \in Nat /\ l \in Nat /\ q_entity.len = l
    BY <1>1, <1>2, Room
  <1>4. /\ RecLen \in Nat \ {0} /\ QSize \in Nat /\ Capacity \in Nat /\ QSize = Capacity * RecLen
        /\ m = l + RecLen /\ n + 1 \in Nat
    BY <1>3, Sizes, Multiples
  <1>5. (l <= QSize <=> n <= Capacity) /\ (m <= QSize <=> n + 1 <= Capacity)
    BY <1>3, <1>4, Multiples
  <1> HIDE DEF n, l, m
  <1>6. /\ q_entity.len >= QSize \/ RecLen > QSize - q_entity.len <=> n = Capacity
        /\ n <= Capacity
    BY <1>2, <1>3, <1>4, <1>5
  <1> QED BY <1>1, <1>6 DEF n

LEMMA StoreStep ==
    ASSUME Inv, Layout, Inv', store
    PROVE  /\ q_entity.len < q_entity.size
           /\ Waiting' = Bytes(Chan') \o Partial' /\ Chan' \in Seq(Frame)
           /\ img \in Frame /\ Len(Chan) < Capacity
           /\ Chan' = IF cam' = "unlock" THEN Append(Chan, img) ELSE Chan
  <1>1. /\ cam = "store" /\ main # "fetch" /\ img \in Frame /\ sent \in 0..RecLen /\ sent < RecLen
        /\ q_entity.size = QSize /\ Len(Chan) < Capacity /\ Chan \in Seq(Frame)
    BY DEF store, Inv, TypeOK, LockInv, QueueInv, CamIn, MainIn, CamPcs, Layout, Capacity
  <1>2. /\ RecLen \in Nat \ {0} /\ QSize \in Nat /\ Capacity \in Nat /\ QSize = Capacity * RecLen
    BY Sizes
  <1>3. q_entity.len < q_entity.size
    <2> DEFINE n == Len(Chan)
               l == n * RecLen
               m == (n + 1) * RecLen
    <2>1. n \in Nat /\ l \in Nat /\ q_entity.len = l + sent
      BY <1>1, Room, PartialType
    <2>2. n + 1 \in Nat /\ n + 1 <= Capacity
      BY <1>1, <1>2, <2>1
    <2>3. m = l + RecLen /\ (m <= QSize <=> n + 1 <= Capacity)
      BY <1>2, <2>1, <2>2, Multiples
    <2> HIDE DEF n, l, m
    <2> QED BY <1>1, <1>2, <2>1, <2>2, <2>3
  <1>4. /\ cam' = IF sent + 1 = RecLen THEN "unlock" ELSE "store"
        /\ sent' = sent + 1 /\ UNCHANGED <<main, rec, img>>
    <2>1. ~(q_entity.len >= q_entity.size)
      <3>1. q_entity.len \in Nat /\ q_entity.size \in Nat
        BY <1>1, <1>2 DEF Inv, TypeOK
      <3> QED BY <1>3, <3>1
    <2> QED BY <2>1 DEF store, mainVars
  <1>5. Stored' = Append(Stored, <<img, sent + 1>>) /\ <<img, sent + 1>> \in Byte
    BY <1>1, <1>3, Stores
  <1> DEFINE p == SubSeq(Record(img), 1, sent)
             e == <<img, sent + 1>>
             r == SubSeq(Record(img), 1, sent + 1)
             b == Bytes(Chan)
  <1>6. Stored = b \o p /\ b \in Seq(Byte)
    BY <1>1, Room, BytesAt DEF Partial
  <1>7. p \in Seq(Byte) /\ Append(p, e) = r
    BY <1>1, Prefix
  <1>8. Waiting' = b \o r
    <2>1. Waiting' = <<>> \o Stored'
      BY <1>1, <1>4 DEF Waiting
    <2> HIDE DEF b, p, e, r
    <2>0. b \in Seq(Byte) /\ p \in Seq(Byte) /\ e \in Byte
      BY <1>5, <1>6, <1>7 DEF e
    <2>2. Append(b \o p, e) = b \o Append(p, e)
      BY <2>0, AppendConcat
    <2>3. Stored' = b \o r
      BY <1>5, <1>6, <1>7, <2>2 DEF e
    <2>4. Stored' \in Seq(Byte)
      <3>1. Stored \in Seq(Byte)
        BY StoredType
      <3> QED BY <1>5, <3>1, AppendProperties
    <2> QED BY <2>1, <2>3, <2>4, ConcatEmptySeq
  <1>9. CASE sent + 1 = RecLen
    <2>1. cam' = "unlock" /\ Partial' = <<>>
      BY <1>4, <1>9 DEF Partial
    <2>2. r = Record(img)
      <3> DEFINE k == sent + 1
      <3>1. k \in 0..RecLen /\ k = RecLen
        BY <1>1, <1>2, <1>9
      <3> HIDE DEF k
      <3>2. SubSeq(Record(img), 1, k) = Record(img)
        BY <1>1, <3>1, Prefix
      <3> QED BY <3>2 DEF k
    <2>3. Append(Chan, img) \in Seq(Frame)
      BY <1>1, AppendProperties
    <2>4. Waiting' = Bytes(Append(Chan, img))
      BY <1>1, <1>8, <2>2, BytesAppend
    <2>5. Bytes(Append(Chan, img)) \in Seq(Byte)
      BY <2>3, BytesAt
    <2>6. Waiting' = Bytes(Append(Chan, img)) \o Partial'
      BY <2>1, <2>4, <2>5, ConcatEmptySeq
    <2>7. Chan' = Append(Chan, img)
      BY <2>3, <2>6, ChanOf
    <2> QED BY <1>1, <1>3, <2>1, <2>3, <2>6, <2>7
  <1>10. CASE sent + 1 # RecLen
    <2>1. cam' = "store"
      BY <1>4, <1>10
    <2>2. Partial' = r
      BY <1>4, <2>1 DEF Partial, Record
    <2>3. Chan' = Chan
      BY <1>1, <1>8, <2>2, ChanOf
    <2> QED BY <1>1, <1>3, <1>8, <2>1, <2>2, <2>3
  <1> QED BY <1>9, <1>10

LEMMA FetchStep ==
    ASSUME Inv, Layout, Inv', fetch
    PROVE  /\ Waiting' = Bytes(Chan') \o Partial' /\ Chan' \in Seq(Frame)
           /\ main' = "unlock" => Chan # <<>> /\ Chan' = Tail(Chan) /\ rec' = Record(Head(Chan))
           /\ main' # "unlock" => Chan' = Chan
  <1>1. /\ main = "fetch" /\ cam # "store" /\ cam' # "store" /\ Chan \in Seq(Frame) /\ want = RecLen
        /\ rec \in Seq(Byte) /\ Len(rec) \in Nat
    BY LenProperties DEF fetch, camVars, MainGoes, Inv, TypeOK, LockInv, CamIn, MainIn, Layout
  <1>2. Partial = <<>> /\ Partial' = <<>>
    BY <1>1 DEF Partial
  <1>3. Stored # <<>> /\ Stored' = Tail(Stored) /\ rec' = Append(rec, Head(Stored)) /\ Stored \in Seq(Byte)
    BY Fetches, StoredType
  <1>4. rec' \o Stored' = Bytes(Chan) /\ rec' \in Seq(Byte) /\ Stored' \in Seq(Byte)
    <2>1. Bytes(Chan) \o <<>> = Bytes(Chan)
      BY <1>1, BytesAt, ConcatEmptySeq
    <2>2. rec \o Stored = Bytes(Chan)
      BY <1>1, <1>2, <2>1 DEF Waiting, Layout
    <2>3. /\ Append(rec, Head(Stored)) \o Tail(Stored) = rec \o Stored
          /\ Append(rec, Head(Stored)) \in Seq(Byte) /\ Tail(Stored) \in Seq(Byte)
      BY <1>1, <1>3, HeadMoves
    <2> QED BY <1>3, <2>2, <2>3
  <1>5. main' = IF Len(rec) + 1 = want THEN "unlock" ELSE "fetch"
    BY DEF fetch, MainGoes
  <1>6. Len(rec') = Len(rec) + 1 /\ RecLen \in Nat \ {0}
    BY <1>1, <1>3, Sizes, HeadTailProperties, AppendProperties
  <1>7. CASE main' = "unlock"
    <2>1. Len(rec') = RecLen
      BY <1>1, <1>5, <1>6, <1>7
    <2>2. Chan # <<>>
      <3>1. SUFFICES ASSUME Chan = <<>> PROVE FALSE
        OBVIOUS
      <3>2. Len(Bytes(Chan)) = 0
        <4>1. Len(Chan) = 0 /\ 0 * RecLen = 0
          BY <1>6, <3>1, Multiples
        <4> QED BY <1>1, <4>1, BytesAt
      <3>3. Len(rec' \o Stored') = Len(rec') + Len(Stored') /\ Len(Stored') \in Nat
        BY <1>4, ConcatProperties, LenProperties
      <3> QED BY <1>4, <1>6, <2>1, <3>2, <3>3
    <2>3. Head(Chan) \in Frame /\ Tail(Chan) \in Seq(Frame)
      BY <1>1, <2>2, HeadTailProperties
    <2> DEFINE r == Record(Head(Chan))
               b == Bytes(Tail(Chan))
    <2>4. r \in Seq(Byte) /\ Len(r) = RecLen /\ b \in Seq(Byte)
      BY <2>3, RecordType, BytesAt
    <2>5. Bytes(Chan) = r \o b
      BY <1>1, <2>2, BytesTail
    <2> HIDE DEF r, b
    <2>6. rec' = r /\ Stored' = b
      <3> DEFINE x == rec'
                 y == Stored'
      <3>1. x \in Seq(Byte) /\ y \in Seq(Byte) /\ x \o y = r \o b /\ Len(x) = Len(r)
        BY <1>4, <2>1, <2>4, <2>5
      <3> HIDE DEF x, y
      <3>2. x = r /\ y = b
        BY <2>4, <3>1, SplitEqual
      <3> QED BY <3>2 DEF x, y
    <2>7. Waiting' = <<>> \o Stored'
      BY <1>7 DEF Waiting
    <2>8. Waiting' = b \o Partial'
      BY <1>2, <2>4, <2>6, <2>7, ConcatEmptySeq
    <2>9. Chan' = Tail(Chan)
      BY <2>3, <2>8, ChanOf DEF b
    <2> QED BY <1>7, <2>2, <2>3, <2>6, <2>8, <2>9 DEF r, b
  <1>8. CASE main' # "unlock"
    <2>1. main' = "fetch"
      BY <1>5, <1>8
    <2>2. Waiting' = rec' \o Stored'
      BY <2>1 DEF Waiting
    <2>3. Waiting' = Bytes(Chan) \o Partial'
      BY <1>1, <1>2, <1>4, <2>2, BytesAt, ConcatEmptySeq
    <2>4. Chan' = Chan
      BY <1>1, <2>3, ChanOf
    <2> QED BY <1>1, <1>8, <2>3, <2>4
  <1> QED BY <1>7, <1>8

(* A thread that leaves the queue alone leaves Chan alone. *)
LEMMA Quiet ==
    ASSUME Inv, Layout, Inv', ~Completes, ~Takes, Partial' = Partial,
           UNCHANGED <<g_q, q_entity>> \/ (q_entity.len = 0 /\ q_entity'.len = 0),
           (IF main' = "fetch" THEN rec' ELSE <<>>) = (IF main = "fetch" THEN rec ELSE <<>>),
           Chan' = Chan => Bookkeeping'
    PROVE  Layout' /\ Moves
  <1>1. Chan' = Chan /\ Waiting' = Bytes(Chan') \o Partial' /\ Chan' \in Seq(Frame)
    BY Stays
  <1>2. Bookkeeping'
    BY <1>1
  <1>3. Layout'
    BY <1>1, <1>2 DEF Layout, Bookkeeping, Capacity, Bytes
  <1> QED BY <1>1, <1>3 DEF Moves

LEMMA CameraQuiet ==
    ASSUME Inv, Layout, Inv',
           mutex_init \/ capture \/ camera_lock \/ camera_unlock \/ report
    PROVE  Layout' /\ Moves
  <1>1. cam # "store" /\ cam' # "store" /\ UNCHANGED <<main, rec, want, g_q, q_entity>>
    BY DEF mutex_init, capture, camera_lock, camera_unlock, report, CamGoes, mainVars, qVars
  <1>2. Partial' = Partial
    BY <1>1 DEF Partial
  <1>3. ~Completes /\ ~Takes
    BY <1>1 DEF Completes, Takes
  <1>4. cam' \in {"mutex_init", "queue_init"} => cam \in {"mutex_init", "queue_init"}
    BY DEF mutex_init, capture, camera_lock, camera_unlock, report, CamGoes
  <1>5. Chan' = Chan => Bookkeeping'
    <2>1. Bookkeeping
      BY LayoutParts
    <2> QED BY <1>1, <1>4, <2>1 DEF Bookkeeping, Whole, Record
  <1> QED BY <1>1, <1>2, <1>3, <1>5, Quiet

LEMMA MainQuiet ==
    ASSUME Inv, Layout, Inv', session_init \/ main_lock \/ main_unlock \/ work \/ release
    PROVE  Layout' /\ Moves
  <1>1. main # "fetch" /\ main' # "fetch" /\ UNCHANGED <<cam, img, sent, g_q, q_entity>>
    BY DEF session_init, main_lock, main_unlock, work, release, MainGoes, camVars, qVars
  <1>2. Partial' = Partial
    BY <1>1 DEF Partial, Record
  <1>3. ~Completes /\ ~Takes
    BY <1>1 DEF Completes, Takes
  <1>4. /\ main' \in {"unlock", "work", "release"} => rec = <<>> \/ Whole(rec)
        /\ main' \in {"work", "release"} => rec # <<>>
        /\ main' \in {"unlock", "work", "release"} => rec' = rec
    BY DEF session_init, main_lock, main_unlock, work, release, MainGoes, Layout
  <1>5. Chan' = Chan => Bookkeeping'
    <2>1. Bookkeeping
      BY LayoutParts
    <2> QED BY <1>1, <1>4, <2>1 DEF Bookkeeping, Whole, Record
  <1> QED BY <1>1, <1>2, <1>3, <1>5, Quiet

LEMMA InitQuiet ==
    ASSUME Inv, Layout, Inv', queue_init PROVE Layout' /\ Moves
  <1>1. /\ cam = "queue_init" /\ cam' = "capture" /\ UNCHANGED <<main, rec, want>>
        /\ q_entity' = [size |-> QSize, head |-> 0, tail |-> 0, len |-> 0]
    BY DEF queue_init, CamGoes, mainVars
  <1>2. q_entity.len = 0 /\ main = "session_init" /\ q_entity'.len = 0
    BY <1>1 DEF Layout, Inv, LockInv
  <1>3. Partial' = Partial /\ ~Completes /\ ~Takes
    BY <1>1, <1>2 DEF Partial, Completes, Takes
  <1>4. Chan' = Chan => Bookkeeping'
    <2>1. (0 + 0) % QSize = 0
      BY Sizes, SMT
    <2> QED BY <1>1, <1>2, <2>1 DEF Bookkeeping
  <1> QED BY <1>1, <1>2, <1>3, <1>4, Quiet

LEMMA QueueInQuiet ==
    ASSUME Inv, Layout, Inv', queue_in PROVE Layout' /\ Moves
  <1>1. /\ cam = "queue_in" /\ cam' \in {"store", "unlock"} /\ sent' = 0
        /\ UNCHANGED <<main, rec, want, g_q, q_entity, img>>
    BY DEF queue_in, CamGoes, mainVars, qVars
  <1>2. cam' = "store" => img \in Frame /\ Len(Chan) < Capacity
    <2>1. ASSUME cam' = "store"
          PROVE  /\ img # NoFrame /\ ~(q_entity.len >= q_entity.size)
                 /\ ~(RecLen > q_entity.size - q_entity.len)
      BY <2>1 DEF queue_in, CamGoes
    <2>2. img \in Frame \cup {NoFrame}
      BY DEF Inv, TypeOK
    <2>3. ASSUME cam' = "store" PROVE Len(Chan) < Capacity
      <3>1. Len(Chan) # Capacity /\ Len(Chan) <= Capacity
        BY <1>1, <2>1, <2>3, Full
      <3>2. Len(Chan) \in Nat /\ Capacity \in Nat
        BY Sizes, LenProperties DEF Layout
      <3> QED BY <3>1, <3>2
    <2> QED BY <2>1, <2>2, <2>3
  <1>3. Partial' = Partial
    <2>1. Partial = <<>>
      BY <1>1 DEF Partial
    <2>2. CASE cam' = "store"
      <3>1. 0 \in 0..RecLen
        BY Sizes
      <3>2. SubSeq(Record(img), 1, 0) = <<>>
        BY <1>2, <2>2, <3>1, Prefix
      <3>3. Partial' = SubSeq(Record(img), 1, 0)
        BY <1>1, <2>2 DEF Partial, Record
      <3> QED BY <2>1, <3>2, <3>3
    <2>3. CASE cam' # "store"
      BY <2>1, <2>3 DEF Partial
    <2> QED BY <2>2, <2>3
  <1>4. ~Completes /\ ~Takes /\ main # "fetch"
    BY <1>1 DEF Completes, Takes, Inv, LockInv, CamIn, MainIn
  <1>5. Chan' = Chan => Bookkeeping'
    <2>1. Bookkeeping
      BY LayoutParts
    <2> QED BY <1>1, <1>2, <2>1 DEF Bookkeeping, Whole, Record, Capacity
  <1> QED BY <1>1, <1>3, <1>4, <1>5, Quiet

LEMMA QueueOutQuiet ==
    ASSUME Inv, Layout, Inv', queue_out PROVE Layout' /\ Moves
  <1>1. /\ main = "queue_out" /\ main' \in {"fetch", "unlock"} /\ rec = <<>> /\ rec' = <<>>
        /\ UNCHANGED <<cam, img, sent, g_q, q_entity>> /\ cam # "store"
        /\ cam \notin {"mutex_init", "queue_init"}
    BY DEF queue_out, MainGoes, camVars, qVars, Inv, QueueInv, LockInv, CamIn, MainIn
  <1>2. main' = "fetch" => want' = RecLen
    <2>1. Len(Partial) = 0 /\ Len(Chan) \in Nat
      BY <1>1, PartialType, Room
    <2> DEFINE n == Len(Chan)
               l == n * RecLen
    <2>2. n \in Nat /\ l \in Nat /\ q_entity.len = l
      BY <1>1, <2>1, Room
    <2>3. (n > 0 => RecLen <= l) /\ (n = 0 => l = 0) /\ RecLen \in Nat
      BY <2>2, Sizes, Multiples
    <2> HIDE DEF n, l
    <2>4. l = 0 \/ RecLen <= l
      BY <2>2, <2>3
    <2>5. /\ main' = IF (IF l < RecLen THEN l ELSE RecLen) = 0 THEN "unlock" ELSE "fetch"
          /\ want' = IF l < RecLen THEN l ELSE RecLen
      BY <2>2 DEF queue_out, MainGoes
    <2> QED BY <2>2, <2>3, <2>4, <2>5
  <1>3. Partial' = Partial /\ ~Completes /\ ~Takes
    BY <1>1 DEF Partial, Completes, Takes
  <1>4. Chan' = Chan => Bookkeeping'
    <2>1. Bookkeeping
      BY LayoutParts
    <2> QED BY <1>1, <1>2, <2>1 DEF Bookkeeping
  <1> QED BY <1>1, <1>3, <1>4, Quiet

LEMMA Turning ==
    ASSUME NEW s \in Nat \ {0, 1}, NEW h \in 0..(s - 1), NEW n \in 0..s
    PROVE  /\ (((h + n) % s) + 1) % s = (h + (n + 1)) % s
           /\ n > 0 => (((h + 1) % s) + (n - 1)) % s = (h + n) % s
  <1>1. (h + n) % s = IF h + n < s THEN h + n ELSE IF h + n < 2 * s THEN h + n - s ELSE h + n - 2 * s
    BY SMT
  <1>2. (h + 1) % s = IF h + 1 < s THEN h + 1 ELSE 0
    BY SMT
  <1> QED BY <1>1, <1>2, SMT

LEMMA StoreMoves ==
    ASSUME Inv, Layout, Inv', store PROVE Layout' /\ Moves
  <1>1. /\ q_entity.len < q_entity.size /\ Waiting' = Bytes(Chan') \o Partial' /\ Chan' \in Seq(Frame)
        /\ img \in Frame /\ Len(Chan) < Capacity
        /\ Chan' = IF cam' = "unlock" THEN Append(Chan, img) ELSE Chan
    BY StoreStep
  <1>2. /\ cam = "store" /\ cam' \in {"store", "unlock"} /\ UNCHANGED <<main, rec, want>>
        /\ main \notin {"fetch", "unlock"} /\ q_entity.size = QSize
    BY DEF store, mainVars, Inv, LockInv, QueueInv, CamIn, MainIn, CamPcs
  <1>3. Moves
    BY <1>1, <1>2 DEF Moves, Completes, Takes
  <1>4. q_entity'.tail = (q_entity'.head + q_entity'.len) % QSize
    <2> DEFINE h == q_entity.head
               n == q_entity.len
    <2>1. QSize \in Nat \ {0, 1} /\ h \in 0..(QSize - 1) /\ n \in 0..QSize /\ n < QSize
      BY <1>1, <1>2, Sizes DEF Inv, TypeOK
    <2>2. q_entity \in QType /\ q_entity.tail = (h + n) % QSize
      BY DEF Inv, TypeOK, QType, Layout
    <2>3. q_entity' = [q_entity EXCEPT !.tail = (@ + 1) % q_entity.size, !.len = @ + 1]
      <3>1. ~(n >= q_entity.size)
        BY <1>2, <2>1
      <3> QED BY <3>1 DEF store
    <2>4. q_entity'.tail = (((h + n) % QSize) + 1) % QSize /\ q_entity'.head = h /\ q_entity'.len = n + 1
      BY <1>2, <2>2, <2>3 DEF QType
    <2> HIDE DEF h, n
    <2>5. (((h + n) % QSize) + 1) % QSize = (h + (n + 1)) % QSize
      BY <2>1, Turning
    <2> QED BY <2>4, <2>5
  <1>5. Bookkeeping'
    <2>1. Bookkeeping
      BY LayoutParts
    <2> QED BY <1>1, <1>2, <1>4, <2>1 DEF Bookkeeping, Whole, Record, Capacity
  <1> QED BY <1>1, <1>3, <1>5 DEF Layout, Bookkeeping, Capacity, Bytes

LEMMA FetchMoves ==
    ASSUME Inv, Layout, Inv', fetch PROVE Layout' /\ Moves
  <1>1. /\ Waiting' = Bytes(Chan') \o Partial' /\ Chan' \in Seq(Frame) /\ Chan \in Seq(Frame)
        /\ main' = "unlock" => Chan # <<>> /\ Chan' = Tail(Chan) /\ rec' = Record(Head(Chan))
        /\ main' # "unlock" => Chan' = Chan
    BY FetchStep DEF Layout
  <1>2. /\ main = "fetch" /\ main' \in {"fetch", "unlock"} /\ UNCHANGED <<cam, want>> /\ want = RecLen
        /\ cam \notin {"mutex_init", "queue_init", "store"} /\ q_entity.size = QSize
    BY DEF fetch, MainGoes, camVars, Inv, LockInv, QueueInv, CamIn, MainIn, CamPcs, Layout
  <1>3. Moves
    BY <1>1, <1>2 DEF Moves, Completes, Takes
  <1>4. q_entity'.tail = (q_entity'.head + q_entity'.len) % QSize
    <2> DEFINE h == q_entity.head
               n == q_entity.len
    <2>1. QSize \in Nat \ {0, 1} /\ h \in 0..(QSize - 1) /\ n \in 0..QSize /\ n > 0
      <3>1. QSize \in Nat \ {0, 1} /\ h \in 0..(QSize - 1) /\ n \in 0..QSize
        BY Sizes DEF Inv, TypeOK
      <3>2. Len(rec) \in Nat /\ Len(rec) < want /\ want - Len(rec) <= n /\ want \in Nat
        BY <1>2, LenProperties DEF Inv, TypeOK, QueueInv
      <3> QED BY <3>1, <3>2
    <2>2. q_entity \in QType /\ q_entity.tail = (h + n) % QSize
      BY DEF Inv, TypeOK, QType, Layout
    <2>3. q_entity' = [q_entity EXCEPT !.head = (@ + 1) % q_entity.size, !.len = @ - 1]
      BY DEF fetch
    <2>4. /\ q_entity'.tail = (h + n) % QSize /\ q_entity'.head = (h + 1) % QSize
          /\ q_entity'.len = n - 1
      BY <1>2, <2>2, <2>3 DEF QType
    <2> HIDE DEF h, n
    <2>5. (((h + 1) % QSize) + (n - 1)) % QSize = (h + n) % QSize
      BY <2>1, Turning
    <2> QED BY <2>4, <2>5
  <1>5. main' = "unlock" => Whole(rec')
    <2>1. main' = "unlock" => Head(Chan) \in Frame
      BY <1>1, HeadTailProperties
    <2> QED BY <1>1, <2>1 DEF Whole
  <1>6. Bookkeeping'
    <2>1. Bookkeeping
      BY LayoutParts
    <2> QED BY <1>2, <1>4, <1>5, <2>1 DEF Bookkeeping, Whole, Record
  <1> QED BY <1>1, <1>3, <1>6 DEF Layout, Bookkeeping, Capacity, Bytes

LEMMA LayoutNext == Inv /\ Layout /\ Inv' /\ [Next]_vars => Layout' /\ Moves
  <1> SUFFICES ASSUME Inv, Layout, Inv', [Next]_vars PROVE Layout' /\ Moves
    OBVIOUS
  <1>1. CASE UNCHANGED vars
    <2>1. UNCHANGED <<cam, img, sent, main, rec, want, g_q, q_entity>>
      BY <1>1 DEF vars, camVars, mainVars, qVars
    <2>2. Partial' = Partial /\ ~Completes /\ ~Takes
      BY <2>1 DEF Partial, Record, Completes, Takes
    <2>3. Chan' = Chan => Bookkeeping'
      <3>1. Bookkeeping
        BY LayoutParts
      <3> QED BY <2>1, <3>1 DEF Bookkeeping, Whole, Record
    <2> QED BY <2>1, <2>2, <2>3, Quiet
  <1>2. CASE mutex_init \/ capture \/ camera_lock \/ camera_unlock \/ report
    BY <1>2, CameraQuiet
  <1>3. CASE queue_init
    BY <1>3, InitQuiet
  <1>4. CASE queue_in
    BY <1>4, QueueInQuiet
  <1>5. CASE store
    BY <1>5, StoreMoves
  <1>6. CASE session_init \/ main_lock \/ main_unlock \/ work \/ release
    BY <1>6, MainQuiet
  <1>7. CASE queue_out
    BY <1>7, QueueOutQuiet
  <1>8. CASE fetch
    BY <1>8, FetchMoves
  <1> QED BY <1>1, <1>2, <1>3, <1>4, <1>5, <1>6, <1>7, <1>8 DEF Next, Camera, Main

-----------------------------------------------------------------------------
(* Who owns what, when a frame enters or leaves a row of frames that are   *)
(* all different.                                                          *)
LEMMA Entering ==
    ASSUME NEW c \in Seq(Frame), NEW f \in Frame, IsInjective(c), f \notin Range(c)
    PROVE  IsInjective(Append(c, f)) /\ Range(Append(c, f)) = Range(c) \cup {f}
  <1> DEFINE n == Len(c)
             d == Append(c, f)
  <1>1. /\ n \in Nat /\ DOMAIN c = 1..n /\ DOMAIN d = 1..(n + 1) /\ d[n + 1] = f
        /\ \A i \in 1..n : d[i] = c[i]
    BY AppendProperties, LenProperties
  <1> HIDE DEF n, d
  <1>2. 1..(n + 1) = (1..n) \cup {n + 1}
    BY <1>1
  <1>3. IsInjective(d)
    BY <1>1, <1>2 DEF IsInjective, Range
  <1>4. Range(d) = Range(c) \cup {f}
    BY <1>1, <1>2 DEF Range
  <1> QED BY <1>3, <1>4 DEF d

LEMMA Leaving ==
    ASSUME NEW c \in Seq(Frame), c # <<>>, IsInjective(c)
    PROVE  /\ Head(c) \in Frame /\ IsInjective(Tail(c)) /\ Head(c) \notin Range(Tail(c))
           /\ Range(c) = Range(Tail(c)) \cup {Head(c)}
  <1> DEFINE n == Len(c) - 1
             d == Tail(c)
  <1>1. n \in Nat /\ Len(c) = n + 1
    <2>1. Len(c) \in Nat \ {0}
      BY EmptySeq
    <2> QED BY <2>1
  <1>2. /\ DOMAIN c = 1..(n + 1) /\ DOMAIN d = 1..n /\ Head(c) = c[1] /\ Head(c) \in Frame
        /\ \A i \in 1..n : d[i] = c[i + 1]
    <2>1. /\ Head(c) = c[1] /\ Head(c) \in Frame /\ Tail(c) \in Seq(Frame)
          /\ Len(Tail(c)) = n /\ \A i \in 1..Len(Tail(c)) : Tail(c)[i] = c[i + 1]
      BY HeadTailProperties
    <2> QED BY <1>1, <2>1, LenProperties
  <1> HIDE DEF n, d
  <1>3. \A i \in 1..n : i + 1 \in 1..(n + 1) /\ i + 1 # 1
    BY <1>1
  <1>4. \A k \in 1..(n + 1) : k # 1 => k - 1 \in 1..n /\ k - 1 + 1 = k
    BY <1>1
  <1>5. ASSUME NEW a \in 1..n, NEW b \in 1..n, d[a] = d[b] PROVE a = b
    <2>1. c[a + 1] = c[b + 1] /\ a + 1 \in 1..(n + 1) /\ b + 1 \in 1..(n + 1)
      BY <1>2, <1>3, <1>5
    <2>2. a + 1 = b + 1
      BY <1>2, <2>1 DEF IsInjective
    <2> QED BY <2>2
  <1>6. \A i \in 1..n : d[i] # c[1]
    <2> TAKE i \in 1..n
    <2>1. d[i] = c[i + 1] /\ i + 1 \in DOMAIN c /\ 1 \in DOMAIN c /\ i + 1 # 1
      BY <1>1, <1>2, <1>3
    <2> DEFINE j == i + 1
    <2>2. d[i] = c[j] /\ j \in DOMAIN c /\ 1 \in DOMAIN c /\ j # 1
      BY <2>1
    <2> HIDE DEF j
    <2> QED BY <2>2 DEF IsInjective
  <1>7. Range(c) = Range(d) \cup {c[1]}
    <2>1. \A i \in 1..n : d[i] \in Range(c)
      BY <1>2, <1>3 DEF Range
    <2>2. \A k \in 1..(n + 1) : k # 1 => c[k] \in Range(d)
      <3> TAKE k \in 1..(n + 1)
      <3> HAVE k # 1
      <3> DEFINE j == k - 1
      <3>1. j \in 1..n /\ j + 1 = k
        BY <1>4
      <3> HIDE DEF j
      <3>2. d[j] = c[k]
        BY <1>2, <3>1
      <3> QED BY <1>2, <3>1, <3>2 DEF Range
    <2>3. 1 \in 1..(n + 1)
      BY <1>1
    <2> QED BY <1>2, <2>1, <2>2, <2>3 DEF Range
  <1> QED BY <1>2, <1>5, <1>6, <1>7 DEF IsInjective, Range, d

(* What main holds changes with the last byte it takes, and with release.  *)
LEMMA HandMoves ==
    ASSUME Inv, Layout, Layout', Moves, [Next]_vars
    PROVE  /\ Takes => Hand = NoFrame /\ Hand' = Head(Chan)
           /\ release => Hand' = NoFrame /\ Hand = rec[1][1] /\ Hand # NoFrame
           /\ ~Takes /\ ~release => Hand' = Hand
           /\ Hand # NoFrame => Hand \in Frame
  <1>1. /\ main \in {"unlock", "work", "release"} /\ rec # <<>> => rec[1][1] \in Frame
        /\ main \in {"work", "release"} => rec # <<>>
    BY RecordType DEF Layout, Whole
  <1>2. NoFrame \notin Frame
    BY PipelineAssumption
  <1>3. Hand # NoFrame => Hand \in Frame
    BY <1>1 DEF Hand
  <1>4. ASSUME Takes PROVE Hand = NoFrame /\ Hand' = Head(Chan)
    <2>1. main = "fetch" /\ main' = "unlock" /\ rec' = Record(Head(Chan)) /\ Head(Chan) \in Frame
      BY <1>4, HeadTailProperties DEF Takes, Moves, Layout
    <2>2. rec' # <<>> /\ rec'[1][1] = Head(Chan)
      BY <2>1, RecordType
    <2> QED BY <2>1, <2>2 DEF Hand
  <1>5. ASSUME release PROVE Hand' = NoFrame /\ Hand = rec[1][1] /\ Hand # NoFrame
    <2>1. main = "release" /\ main' = "lock"
      BY <1>5 DEF release, MainGoes
    <2> QED BY <1>1, <1>2, <2>1 DEF Hand
  <1>6. ASSUME ~Takes, ~release PROVE Hand' = Hand
    <2>1. CASE Camera \/ UNCHANGED vars
      <3>1. UNCHANGED <<main, rec>>
        BY <2>1 DEF Camera, mutex_init, queue_init, capture, camera_lock, queue_in, store,
                    camera_unlock, report, vars, mainVars
      <3> QED BY <3>1 DEF Hand
    <2>2. CASE session_init \/ main_lock \/ fetch
      <3>1. main \notin {"unlock", "work", "release"} /\ main' \notin {"unlock", "work", "release"}
        BY <1>6, <2>2 DEF session_init, main_lock, fetch, Takes, MainGoes
      <3> QED BY <3>1 DEF Hand
    <2>3. CASE queue_out
      <3>1. main = "queue_out" /\ rec = <<>> /\ rec' = rec
        BY <2>3 DEF queue_out, MainGoes, Inv, QueueInv
      <3> QED BY <3>1 DEF Hand
    <2>4. CASE main_unlock
      <3>1. main = "unlock" /\ main' = (IF rec = <<>> THEN "lock" ELSE "work") /\ rec' = rec
        BY <2>4 DEF main_unlock, MainGoes
      <3> QED BY <3>1 DEF Hand
    <2>5. CASE work
      <3>1. main = "work" /\ main' = "release" /\ rec' = rec
        BY <2>5 DEF work, MainGoes
      <3> QED BY <3>1 DEF Hand
    <2> QED BY <1>6, <2>1, <2>2, <2>3, <2>4, <2>5 DEF Next, Main
  <1> QED BY <1>3, <1>4, <1>5, <1>6

(* The steps that no frame's owner changes in. *)
LEMMA OwnedStays ==
    ASSUME Owned, UNCHANGED <<Chan, Hand, heap>>, Holding' = Holding,
           Holding => img' = img
    PROVE  Owned'
  BY DEF Owned, IsInjective, Range

LEMMA OwnedNext == Inv /\ Inv' /\ Layout /\ Layout' /\ Moves /\ Owned /\ [Next]_vars => Owned'
  <1> SUFFICES ASSUME Inv, Inv', Layout, Layout', Moves, Owned, [Next]_vars PROVE Owned'
    OBVIOUS
  <1>0. /\ NoFrame \notin Frame /\ Chan \in Seq(Frame) /\ Range(Chan) \subseteq Frame
        /\ heap \in [Frame -> {"free", "live", "lost"}] /\ img \in Frame \cup {NoFrame}
    <2>1. Chan \in Seq(Frame)
      BY DEF Layout
    <2>2. Range(Chan) \subseteq Frame
      BY <2>1, ElementOfSeq DEF Range
    <2> QED BY <2>1, <2>2, PipelineAssumption DEF Inv, TypeOK
  <1>1. CASE UNCHANGED vars \/ mutex_init \/ queue_init \/ camera_lock \/ camera_unlock
             \/ session_init \/ main_lock \/ queue_out \/ main_unlock \/ work
    <2>1. /\ ~Takes /\ ~release /\ ~Completes /\ UNCHANGED <<heap, img>>
          /\ Holding' = Holding
      BY <1>1 DEF vars, camVars, mainVars, Takes, release, Completes, Holding, mutex_init, queue_init,
             camera_lock, camera_unlock, session_init, main_lock, queue_out, main_unlock, work,
             CamGoes, MainGoes
    <2>2. Hand' = Hand /\ Chan' = Chan
      BY <2>1, HandMoves DEF Moves
    <2> QED BY <2>1, <2>2, OwnedStays
  <1>2. CASE capture
    <2>1. /\ cam = "capture" /\ cam' = "lock" /\ UNCHANGED mainVars /\ ~Takes /\ ~release /\ ~Completes
      BY <1>2 DEF capture, CamGoes, Takes, release, Completes, mainVars, MainGoes
    <2>2. Hand' = Hand /\ Chan' = Chan
      BY <2>1, HandMoves DEF Moves
    <2>3. CASE img' = NoFrame /\ heap' = heap
      BY <2>1, <2>2, <2>3, OwnedStays DEF Holding
    <2>4. ASSUME NEW f \in Frame, heap[f] # "live", img' = f, heap' = [heap EXCEPT ![f] = "live"]
          PROVE  Owned'
      <3>1. f # Hand /\ f \notin Range(Chan) /\ f # NoFrame
        BY <1>0, <2>4 DEF Owned
      <3>2. Holding' /\ ~Holding
        BY <2>1, <2>4, <3>1 DEF Holding
      <3>3. /\ \A g \in Frame : heap'[g] = IF g = f THEN "live" ELSE heap[g]
        BY <1>0, <2>4
      <3>4. Range(Chan)' = Range(Chan) /\ IsInjective(Chan)' = IsInjective(Chan)
        BY <2>2 DEF Range, IsInjective
      <3> QED BY <1>0, <2>2, <2>4, <3>1, <3>2, <3>3, <3>4 DEF Owned
    <2> QED BY <1>2, <2>3, <2>4 DEF capture
  <1>3. CASE queue_in
    <2>1. /\ cam = "queue_in" /\ cam' \in {"store", "unlock"} /\ UNCHANGED mainVars /\ img' = img
          /\ ~Takes /\ ~release /\ ~Completes
      BY <1>3 DEF queue_in, CamGoes, Takes, release, Completes, mainVars, MainGoes
    <2>2. Hand' = Hand /\ Chan' = Chan
      BY <2>1, HandMoves DEF Moves
    <2>3. CASE img = NoFrame
      <3>1. heap' = heap
        BY <1>3, <2>3 DEF queue_in
      <3> QED BY <2>1, <2>2, <2>3, <3>1, OwnedStays DEF Holding
    <2>4. CASE img # NoFrame /\ cam' = "store"
      <3>1. heap' = heap
        BY <1>3, <2>4 DEF queue_in, CamGoes
      <3> QED BY <2>1, <2>2, <2>4, <3>1, OwnedStays DEF Holding
    <2>5. CASE img # NoFrame /\ cam' = "unlock"
      <3>1. heap' = [heap EXCEPT ![img] = "lost"]
        BY <1>3, <2>5 DEF queue_in, CamGoes
      <3>2. Holding /\ ~Holding' /\ img \in Frame
        BY <1>0, <2>1, <2>5 DEF Holding
      <3>3. \A g \in Frame : heap'[g] = IF g = img THEN "lost" ELSE heap[g]
        BY <1>0, <3>1
      <3>4. Range(Chan)' = Range(Chan) /\ IsInjective(Chan)' = IsInjective(Chan)
        BY <2>2 DEF Range, IsInjective
      <3>5. img \notin Range(Chan) /\ img # Hand
        BY <3>2 DEF Owned
      <3> QED BY <1>0, <2>2, <3>2, <3>3, <3>4, <3>5 DEF Owned
    <2> QED BY <2>1, <2>3, <2>4, <2>5
  <1>4. CASE store
    <2>1. /\ q_entity.len < q_entity.size /\ img \in Frame /\ cam = "store" /\ cam' \in {"store", "unlock"}
          /\ UNCHANGED mainVars /\ img' = img /\ ~Takes /\ ~release
      <3>1. q_entity.len < q_entity.size /\ img \in Frame
        BY <1>4, StoreStep
      <3>2. cam = "store" /\ cam' \in {"store", "unlock"} /\ UNCHANGED mainVars /\ img' = img
        BY <1>4 DEF store
      <3> QED BY <3>1, <3>2 DEF Takes, release, mainVars, MainGoes
    <2>2. Hand' = Hand /\ heap' = heap /\ Holding
      <3>1. ~(q_entity.len >= q_entity.size)
        <4>1. q_entity.len \in Int /\ q_entity.size \in Int
          BY Sizes DEF Inv, TypeOK
        <4> QED BY <2>1, <4>1
      <3>2. heap' = heap
        BY <1>4, <3>1 DEF store
      <3> QED BY <1>0, <2>1, <3>2, HandMoves DEF Holding
    <2>3. CASE cam' = "store"
      <3>1. Chan' = Chan /\ Holding'
        BY <1>0, <2>1, <2>3 DEF Moves, Completes, Holding
      <3> QED BY <2>1, <2>2, <3>1, OwnedStays
    <2>4. CASE cam' = "unlock"
      <3>1. Chan' = Append(Chan, img) /\ ~Holding'
        BY <2>1, <2>4 DEF Moves, Completes, Holding
      <3>2. IsInjective(Chan) /\ img \notin Range(Chan) /\ img # Hand /\ heap[img] = "live"
        BY <2>2 DEF Owned
      <3>3. IsInjective(Append(Chan, img)) /\ Range(Append(Chan, img)) = Range(Chan) \cup {img}
        BY <1>0, <2>1, <3>2, Entering
      <3>4. IsInjective(Chan') /\ Range(Chan') = Range(Chan) \cup {img}
        BY <3>1, <3>3
      <3> QED BY <2>1, <2>2, <3>1, <3>2, <3>4 DEF Owned, IsInjective, Range
    <2> QED BY <2>1, <2>3, <2>4
  <1>5. CASE report
    <2>1. ~Takes /\ ~release /\ ~Completes /\ heap' = heap /\ ~Holding /\ Holding' = Holding
      BY <1>5 DEF report, Takes, release, Completes, Holding, CamGoes, MainGoes, mainVars
    <2>2. Hand' = Hand /\ Chan' = Chan
      BY <2>1, HandMoves DEF Moves
    <2> QED BY <2>1, <2>2, OwnedStays
  <1>6. CASE fetch
    <2>1. ~release /\ ~Completes /\ heap' = heap /\ img' = img /\ Holding' = Holding
      BY <1>6 DEF fetch, release, Completes, Holding, MainGoes, camVars
    <2>2. CASE Takes
      <3>1. Chan # <<>> /\ Chan' = Tail(Chan) /\ Hand = NoFrame /\ Hand' = Head(Chan)
        BY <2>2, HandMoves DEF Moves
      <3>2. /\ Head(Chan) \in Frame /\ IsInjective(Tail(Chan)) /\ Head(Chan) \notin Range(Tail(Chan))
            /\ Range(Chan) = Range(Tail(Chan)) \cup {Head(Chan)}
        BY <1>0, <3>1, Leaving DEF Owned
      <3>3. /\ IsInjective(Chan') /\ Hand' \notin Range(Chan') /\ Hand' \in Frame
            /\ Range(Chan) = Range(Chan') \cup {Hand'}
        BY <3>1, <3>2
      <3> QED BY <1>0, <2>1, <3>1, <3>3 DEF Owned, IsInjective, Range
    <2>3. CASE ~Takes
      <3>1. Chan' = Chan /\ Hand' = Hand
        BY <2>1, <2>3, HandMoves DEF Moves
      <3> QED BY <2>1, <3>1, OwnedStays
    <2> QED BY <2>2, <2>3
  <1>7. CASE release
    <2>1. /\ ~Takes /\ ~Completes /\ img' = img /\ Holding' = Holding
          /\ heap' = [heap EXCEPT ![rec[1][1]] = "free"]
      BY <1>7 DEF release, Takes, Completes, Holding, MainGoes, camVars
    <2>2. Chan' = Chan /\ Hand' = NoFrame /\ Hand = rec[1][1] /\ Hand \in Frame
      BY <1>7, <2>1, HandMoves DEF Moves
    <2>3. \A g \in Frame : heap'[g] = IF g = Hand THEN "free" ELSE heap[g]
      BY <1>0, <2>1, <2>2
    <2>4. Range(Chan)' = Range(Chan) /\ IsInjective(Chan)' = IsInjective(Chan)
      BY <2>2 DEF Range, IsInjective
    <2>5. Hand \notin Range(Chan) /\ (Holding => img # Hand /\ img \in Frame)
      BY <1>0 DEF Owned, Holding
    <2> QED BY <1>0, <2>1, <2>2, <2>3, <2>4, <2>5 DEF Owned
  <1> QED BY <1>1, <1>2, <1>3, <1>4, <1>5, <1>6, <1>7 DEF Next, Camera, Main

LEMMA CrashesNext == Inv /\ Layout /\ Layout' /\ Owned /\ Crashes /\ [Next]_vars => Crashes'
  <1> SUFFICES ASSUME Inv, Layout, Layout', Owned, Crashes, [Next]_vars PROVE Crashes'
    OBVIOUS
  <1> USE DEF Crashes, OnlyNullCrashes
  <1>1. CASE UNCHANGED vars
    BY <1>1 DEF vars, camVars
  <1>2. CASE ~crashed /\ Camera
    <2>1. CASE mutex_init \/ queue_init \/ capture \/ camera_lock
      BY <1>2, <2>1 DEF mutex_init, queue_init, capture, camera_lock, CamGoes
    <2>2. CASE queue_in
      BY <1>2, <2>2 DEF queue_in, CamGoes
    <2>3. CASE store
      BY <1>2, <2>3, PipelineAssumption DEF store, Inv, QueueInv
    <2>4. CASE camera_unlock
      BY <1>2, <2>4 DEF camera_unlock, CamGoes
    <2>5. CASE report
      BY <1>2, <2>5 DEF report, CamGoes
    <2> QED BY <1>2, <2>1, <2>2, <2>3, <2>4, <2>5 DEF Camera
  <1>3. CASE ~crashed /\ Main
    <2>1. UNCHANGED <<cam, img, ret>>
      BY <1>3 DEF Main, session_init, main_lock, queue_out, fetch, main_unlock, work, release, camVars
    <2>2. ~crashed'
      <3>1. CASE session_init \/ main_lock \/ queue_out \/ fetch \/ main_unlock
        BY <1>3, <3>1 DEF session_init, main_lock, queue_out, fetch, main_unlock
      <3>2. CASE work \/ release
        <4>1. main \in {"work", "release"} /\ rec # <<>> /\ Whole(rec)
          BY <3>2 DEF work, release, MainGoes, Layout
        <4>2. Hand = rec[1][1] /\ rec[1][1] \in Frame
          BY <4>1, RecordType DEF Hand, Whole
        <4>3. heap[rec[1][1]] = "live"
          BY <4>2, PipelineAssumption DEF Owned
        <4> QED BY <3>2, <4>1, <4>3 DEF work, release
      <3> QED BY <1>3, <3>1, <3>2 DEF Main
    <2> QED BY <2>1, <2>2
  <1> QED BY <1>1, <1>2, <1>3 DEF Next

LEMMA DataInit == Init => DataInv
  <1> SUFFICES ASSUME Init PROVE DataInv
    OBVIOUS
  <1>1. Inv
    BY LockInit, TypeInit DEF Inv
  <1>2. Waiting = <<>> /\ Partial = <<>> /\ Stored = <<>>
    <2>1. q_entity.len = 0 /\ main = "session_init" /\ cam = "mutex_init"
      BY DEF Init
    <2>2. Stored = <<>>
      BY <2>1 DEF Stored
    <2>3. <<>> \in Seq(Byte)
      OBVIOUS
    <2> QED BY <2>1, <2>2, <2>3, ConcatEmptySeq DEF Waiting, Partial
  <1>3. Chan = <<>>
    <2>1. Len(Waiting) = 0 /\ 0 \div RecLen = 0
      BY <1>2, Sizes, SMT
    <2> QED BY <2>1 DEF Chan
  <1>4. Bytes(<<>>) = <<>> /\ <<>> \in Seq(Frame) /\ <<>> \in Seq(Byte)
    <2>1. Len(<<>>) = 0 /\ 0 * RecLen = 0 /\ <<>> \in Seq(Frame) /\ <<>> \in Seq(Byte)
      BY Sizes, Multiples
    <2>2. Bytes(<<>>) \in Seq(Byte) /\ Len(Bytes(<<>>)) = 0
      BY <2>1, BytesAt
    <2> QED BY <2>1, <2>2, EmptySeq
  <1>5. Layout
    <2>1. (0 + 0) % QSize = 0
      BY Sizes, SMT
    <2>2. Bytes(Chan) \o Partial = <<>>
      BY <1>2, <1>3, <1>4, ConcatEmptySeq
    <2> QED BY <1>2, <1>3, <1>4, <2>1, <2>2 DEF Init, Layout
  <1>6. Owned
    <2>1. Range(Chan) = {} /\ IsInjective(Chan) /\ Hand = NoFrame /\ ~Holding
      BY <1>3 DEF Range, IsInjective, Init, Hand, Holding
    <2> QED BY <2>1 DEF Owned, Init
  <1> QED BY <1>1, <1>5, <1>6 DEF DataInv, Crashes, OnlyNullCrashes, Init

LEMMA DataNext == StartAfterInit /\ DataInv /\ [Next]_vars => DataInv' /\ Inv' /\ Layout' /\ Moves
  <1> SUFFICES ASSUME StartAfterInit, DataInv, [Next]_vars PROVE DataInv' /\ Inv' /\ Layout' /\ Moves
    OBVIOUS
  <1>1. Inv'
    BY LockNext, TypeNext DEF DataInv, Inv
  <1>2. Layout' /\ Moves
    BY <1>1, LayoutNext DEF DataInv
  <1>3. Owned' /\ Crashes'
    BY <1>1, <1>2, OwnedNext, CrashesNext DEF DataInv
  <1> QED BY <1>1, <1>2, <1>3 DEF DataInv

-----------------------------------------------------------------------------
LEMMA DataSound == DataInv => SoundRecords
  <1> SUFFICES ASSUME DataInv PROVE SoundRecords
    OBVIOUS
  <1>0. Inv /\ Layout /\ Owned /\ Chan \in Seq(Frame) /\ DOMAIN Chan = 1..Len(Chan)
    BY LenProperties DEF DataInv, Layout
  <1>1. ASSUME ~CamIn, ~MainIn
        PROVE  /\ q_entity.len % RecLen = 0
               /\ \A i \in DOMAIN Chan :
                      SubSeq(Stored, (i - 1) * RecLen + 1, i * RecLen) = Record(Chan[i])
    <2>1. main # "fetch" /\ cam # "store"
      BY <1>1 DEF CamIn, MainIn
    <2>2. Partial = <<>>
      BY <2>1 DEF Partial
    <2>3. /\ Stored = Bytes(Chan) \o Partial /\ Len(Chan) \in Nat /\ Bytes(Chan) \in Seq(Byte)
          /\ q_entity.len = Len(Chan) * RecLen + Len(Partial)
      BY <1>0, <2>1, Room, BytesAt
    <2>4. Stored = Bytes(Chan)
      BY <2>2, <2>3, ConcatEmptySeq
    <2>5. q_entity.len % RecLen = 0
      <3>1. Len(Partial) = 0 /\ 0 \in 0..(RecLen - 1)
        BY <2>2, Sizes
      <3> DEFINE n == Len(Chan)
      <3>2. (n * RecLen + 0) % RecLen = 0 /\ n * RecLen \in Nat
        <4> HIDE DEF n
        <4>1. n \in Nat
          BY <2>3 DEF n
        <4> QED BY <3>1, <4>1, Sizes, Quotients
      <3> QED BY <2>3, <3>1, <3>2
    <2>6. ASSUME NEW i \in DOMAIN Chan
          PROVE  SubSeq(Stored, (i - 1) * RecLen + 1, i * RecLen) = Record(Chan[i])
      BY <1>0, <2>4, <2>6, BytesRecord
    <2> QED BY <2>5, <2>6
  <1>2. WholeRecords
    BY <1>0, <1>1 DEF WholeRecords, Layout
  <1>3. NoDangling
    BY <1>0 DEF NoDangling, Owned, IsInjective, Range
  <1> QED BY <1>2, <1>3 DEF SoundRecords

(* Whatever the two threads' byte loops do between each other's steps, a   *)
(* record queued or in main's hand is whole and its pixels are allocated   *)
(* and its own.                                                            *)
THEOREM RecordsStaySound == ASSUME StartAfterInit PROVE Spec => []SoundRecords
  <1>1. Init => DataInv
    BY DataInit
  <1>2. DataInv /\ [Next]_vars => DataInv'
    BY DataNext
  <1>3. DataInv => SoundRecords
    BY DataSound
  <1> QED BY <1>1, <1>2, <1>3, PTL DEF Spec

(* Pixels that are allocated are on their way: the camera's, queued, or in *)
(* main's hand.                                                            *)
THEOREM NothingIsForgotten == ASSUME StartAfterInit PROVE Spec => []NothingForgotten
  <1>1. Init => DataInv
    BY DataInit
  <1>2. DataInv /\ [Next]_vars => DataInv'
    BY DataNext
  <1>3. DataInv => NothingForgotten
    BY DEF DataInv, Owned, Holding, NothingForgotten, Range
  <1> QED BY <1>1, <1>2, <1>3, PTL DEF Spec

(* Only the record of a capture that failed ends the program.              *)
THEOREM CrashesByNullOnly == ASSUME StartAfterInit PROVE Spec => []OnlyNullCrashes
  <1>1. Init => DataInv
    BY DataInit
  <1>2. DataInv /\ [Next]_vars => DataInv'
    BY DataNext
  <1>3. DataInv => OnlyNullCrashes
    BY DEF DataInv, Crashes
  <1> QED BY <1>1, <1>2, <1>3, PTL DEF Spec

-----------------------------------------------------------------------------
(* The program as a channel of frames. *)
Lost == {f \in Frame : heap[f] = "lost"}

LEMMA ChannelInit == Init => Channel!Init
  <1> SUFFICES ASSUME Init PROVE Channel!Init
    OBVIOUS
  <1>1. Stored = <<>> /\ <<>> \in Seq(Byte)
    BY DEF Init, Stored
  <1>2. Waiting = <<>> /\ 0 \div RecLen = 0
    BY <1>1, Sizes, ConcatEmptySeq, SMT DEF Init, Waiting
  <1>3. Chan = <<>>
    BY <1>2 DEF Chan
  <1> QED BY <1>3 DEF Init, Channel!Init, Hand

(* What Owned says in the channel's words. *)
LEMMA Outside ==
    ASSUME DataInv, Holding
    PROVE  img \in Frame /\ img \notin Channel!Queued \cup Lost \cup {Hand}
  <1>1. img \in Frame /\ heap[img] = "live" /\ img \notin Range(Chan) /\ img # Hand
    BY DEF DataInv, Inv, TypeOK, Owned, Holding
  <1>2. Channel!Queued = Range(Chan)
    BY DEF Channel!Queued, Range
  <1> QED BY <1>1, <1>2 DEF Lost

LEMMA ChannelNext ==
    ASSUME DataInv, DataInv', Moves, [Next]_vars
    PROVE  [Channel!Next]_<<Chan, Hand, Lost>>
  <1>0. /\ Inv /\ Inv' /\ Layout /\ Layout' /\ Owned /\ heap \in [Frame -> {"free", "live", "lost"}]
        /\ NoFrame \notin Frame
    BY PipelineAssumption DEF DataInv, Inv, TypeOK
  <1>1. CASE UNCHANGED vars \/ mutex_init \/ queue_init \/ camera_lock \/ camera_unlock \/ report
             \/ session_init \/ main_lock \/ queue_out \/ main_unlock \/ work
    <2>1. ~Takes /\ ~release /\ ~Completes /\ heap' = heap
      BY <1>1 DEF vars, camVars, mainVars, Takes, release, Completes, mutex_init, queue_init, report,
             camera_lock, camera_unlock, session_init, main_lock, queue_out, main_unlock, work,
             CamGoes, MainGoes
    <2>2. Hand' = Hand /\ Chan' = Chan
      BY <1>0, <2>1, HandMoves DEF Moves
    <2> QED BY <2>1, <2>2 DEF Lost
  <1>2. CASE capture
    <2>1. ~Takes /\ ~release /\ ~Completes
      BY <1>2 DEF capture, CamGoes, Takes, release, Completes, mainVars, MainGoes
    <2>2. Hand' = Hand /\ Chan' = Chan
      BY <1>0, <2>1, HandMoves DEF Moves
    <2>3. CASE heap' = heap
      BY <2>2, <2>3 DEF Lost
    <2>4. ASSUME NEW f \in Frame, heap[f] # "live", heap' = [heap EXCEPT ![f] = "live"]
          PROVE  [Channel!Next]_<<Chan, Hand, Lost>>
      <3>1. \A g \in Frame : heap'[g] = IF g = f THEN "live" ELSE heap[g]
        BY <1>0, <2>4
      <3>2. Lost' = Lost \ {f}
        BY <3>1 DEF Lost
      <3>3. CASE f \in Lost
        BY <2>2, <3>2, <3>3 DEF Channel!Next, Channel!Reuse, Lost
      <3>4. CASE f \notin Lost
        BY <2>2, <3>2, <3>4
      <3> QED BY <3>3, <3>4
    <2> QED BY <1>2, <2>3, <2>4 DEF capture
  <1>3. CASE queue_in
    <2>1. ~Takes /\ ~release /\ ~Completes /\ cam = "queue_in"
      BY <1>3 DEF queue_in, CamGoes, Takes, release, Completes, mainVars, MainGoes
    <2>2. Hand' = Hand /\ Chan' = Chan
      BY <1>0, <2>1, HandMoves DEF Moves
    <2>3. CASE heap' = heap
      BY <2>2, <2>3 DEF Lost
    <2>4. CASE heap' # heap
      <3>1. /\ img # NoFrame /\ heap' = [heap EXCEPT ![img] = "lost"]
            /\ q_entity.len >= q_entity.size \/ RecLen > q_entity.size - q_entity.len
        BY <1>3, <2>4 DEF queue_in
      <3>2. Holding /\ img \in Frame
        BY <2>1, <3>1 DEF Holding, DataInv, Inv, TypeOK
      <3>3. Len(Chan) = Capacity
        BY <1>0, <2>1, <3>1, Full
      <3>4. \A g \in Frame : heap'[g] = IF g = img THEN "lost" ELSE heap[g]
        BY <1>0, <3>1
      <3>5. Lost' = Lost \cup {img}
        BY <3>2, <3>4 DEF Lost
      <3> QED BY <2>2, <3>2, <3>3, <3>5, Outside DEF Channel!Next, Channel!Refuse, Lost, Capacity
    <2> QED BY <2>3, <2>4
  <1>4. CASE store
    <2>1. /\ q_entity.len < q_entity.size /\ cam = "store" /\ cam' \in {"store", "unlock"}
          /\ img \in Frame /\ ~Takes /\ ~release
      <3>1. q_entity.len < q_entity.size /\ img \in Frame
        BY <1>0, <1>4, StoreStep
      <3>2. cam = "store" /\ cam' \in {"store", "unlock"} /\ UNCHANGED mainVars
        BY <1>4 DEF store
      <3> QED BY <3>1, <3>2 DEF Takes, release, mainVars, MainGoes
    <2>2. heap' = heap /\ Hand' = Hand /\ Holding
      <3>1. ~(q_entity.len >= q_entity.size)
        <4>1. q_entity.len \in Int /\ q_entity.size \in Int
          BY <1>0, Sizes DEF Inv, TypeOK
        <4> QED BY <2>1, <4>1
      <3> QED BY <1>0, <1>4, <2>1, <3>1, HandMoves DEF store, Holding
    <2>3. CASE cam' = "store"
      <3>1. Chan' = Chan
        BY <2>1, <2>3 DEF Moves, Completes
      <3> QED BY <2>2, <3>1 DEF Lost
    <2>4. CASE cam' = "unlock"
      <3>1. Chan' = Append(Chan, img) /\ Len(Chan) < Capacity
        BY <2>1, <2>4 DEF Moves, Completes
      <3>2. img \notin Channel!Queued \cup Lost \cup {Hand} /\ Lost' = Lost
        BY <2>2, Outside DEF Lost
      <3> QED BY <2>1, <2>2, <3>1, <3>2 DEF Channel!Next, Channel!Accept, Lost, Capacity
    <2> QED BY <2>1, <2>3, <2>4
  <1>5. CASE fetch
    <2>1. ~release /\ ~Completes /\ heap' = heap
      BY <1>5 DEF fetch, release, Completes, MainGoes, camVars
    <2>2. CASE Takes
      <3>1. Chan # <<>> /\ Chan' = Tail(Chan) /\ Hand = NoFrame /\ Hand' = Head(Chan)
        BY <1>0, <2>2, HandMoves DEF Moves
      <3> QED BY <2>1, <3>1 DEF Channel!Next, Channel!Take, Lost
    <2>3. CASE ~Takes
      <3>1. Chan' = Chan /\ Hand' = Hand
        BY <1>0, <2>1, <2>3, HandMoves DEF Moves
      <3> QED BY <2>1, <3>1 DEF Lost
    <2> QED BY <2>2, <2>3
  <1>6. CASE release
    <2>1. ~Takes /\ ~Completes /\ heap' = [heap EXCEPT ![rec[1][1]] = "free"]
      BY <1>6 DEF release, Takes, Completes, MainGoes, camVars
    <2>2. /\ Chan' = Chan /\ Hand' = NoFrame /\ Hand = rec[1][1] /\ Hand # NoFrame
          /\ Hand \in Frame /\ heap[Hand] = "live"
      BY <1>0, <1>6, <2>1, HandMoves DEF Moves, Owned
    <2>3. \A g \in Frame : heap'[g] = IF g = Hand THEN "free" ELSE heap[g]
      BY <1>0, <2>1, <2>2
    <2>4. Lost' = Lost
      BY <2>2, <2>3 DEF Lost
    <2> QED BY <2>2, <2>4 DEF Channel!Next, Channel!Finish, Lost
  <1> QED BY <1>1, <1>2, <1>3, <1>4, <1>5, <1>6 DEF Next, Camera, Main

(* Whatever the interleaving, frames reach main in the order of their      *)
(* capture, each once, and only a full queue refuses one.                  *)
THEOREM PipelineIsChannel == ASSUME StartAfterInit PROVE Spec => IsChannel
  <1>1. Init => DataInv /\ Channel!Init
    BY DataInit, ChannelInit
  <1>2. DataInv /\ [Next]_vars => DataInv' /\ [Channel!Next]_<<Chan, Hand, Lost>>
    BY DataNext, ChannelNext
  <1>3. DataInv /\ [Next]_vars => DataInv' /\ [Channel!Next]_Channel!chanVars
    BY <1>2 DEF Channel!chanVars, Lost
  <1> QED BY <1>1, <1>3, PTL DEF Spec, IsChannel, Channel!Spec
=============================================================================
