---------------------------- MODULE CameraProofs ----------------------------
(***************************************************************************)
(* The camera of src/libv4l2 with its second caller, for any number of     *)
(* buffers, of frame numbers and of tries and any scenario of failing      *)
(* calls: who holds a buffer, what a picture is made of, what a returned 0 *)
(* of v4l2_init or set_exposure says.                                      *)
(***************************************************************************)
EXTENDS CameraControls, FiniteSetTheorems, SequenceTheorems, TLAPS

Num == 0..(Shots - 1)

(* The types, in four parts.  The buffers are numbered from 1; a call is   *)
(* made of a camera that is up.                                            *)
CallsOK == /\ may \in Scenarios /\ pc \in Pcs /\ ret \in {-1, 0} /\ up \in BOOLEAN /\ fd \in BOOLEAN
           /\ v4l2_buf \in {"null", "valid", "freed"} /\ crashed \in {"no", "abort", "fault"}
           /\ pc # "idle" => up
BuffersOK == /\ \E n \in 0..NrBufs : Granted = 1..n
             /\ \A b \in Granted : start[b] \in {"none", "mapped", "failed"}
             /\ unit \in Buf \cup {0}
RingsOK == streaming \in BOOLEAN /\ queued \in Seq(Buf) /\ done \in Seq(Buf) /\ dma \in Buf \cup {0}
PicturesOK == /\ img \in Seq(Num) /\ Len(img) <= 2
              /\ content \in [Buf -> Num \X Num] /\ shot \in Num

Shape == CallsOK /\ BuffersOK /\ RingsOK /\ PicturesOK

(* The driver has nothing before v4l2_init has queued what it was granted, *)
(* and after v4l2_deinit has stopped the stream: mapping and unmapping     *)
(* never touch a buffer it may write.                                      *)
Off == ~streaming /\ queued = <<>> /\ done = <<>> /\ dma = 0

Quiet == \/ ~up
         \/ pc \in {"open", "reqbufs", "mmap", "qbuf_all", "munmap", "relbufs", "close"}
         \/ pc \in DOMAIN After

Idles == Quiet => Off

(* A buffer is in one place.                                               *)
InHand == pc \in {"copy", "qbuf"}

Apart ==
    /\ IsInjective(queued) /\ IsInjective(done)
    /\ Range(queued) \cap Range(done) = {}
    /\ dma \notin Range(queued) /\ dma \notin Range(done)
    /\ Range(queued) \subseteq Granted /\ Range(done) \subseteq Granted
    /\ dma \in Granted \cup {0}
    /\ InHand => /\ unit \in Granted /\ unit # dma
                 /\ unit \notin Range(queued) /\ unit \notin Range(done)

(* The buffers filled, and the one in hand, hold one frame; the one being  *)
(* filled begins with the frame the sensor is at; what was copied first is *)
(* still in the buffer while the rest is copied.                           *)
Whole(b) == content[b][1] = content[b][2]

Picture ==
    /\ \A b \in Range(done) : Whole(b)
    /\ dma # 0 => content[dma][1] = shot
    /\ InHand => Whole(unit)
    /\ pc \in {"poll", "dqbuf"} => img = <<>>
    /\ pc = "copy" => Len(img) <= 1
    /\ Len(img) = 1 => crashed # "no" \/ (pc = "copy" /\ img[1] = content[unit][1])
    /\ PictureWhole

(* Where open, reqbufs and mmap do not fail, the buffers are mapped from   *)
(* their mapping on for as long as the stream may be on, and it is on      *)
(* wherever a 0 is about to be, or has been, returned.                     *)
Sound == may \cap {"open", "reqbufs", "mmap"} = {}

Mapped == v4l2_buf = "valid" /\ \A b \in Granted : start[b] = "mapped"

Honest == Sound =>
    /\ ret = 0 /\ up /\ pc \in {"idle", "poll", "dqbuf"} => streaming
    /\ pc \in {"poll_first", "copy", "qbuf", "streamoff"} => streaming
    /\ streaming \/ pc \in {"qbuf_all", "streamon"} => Mapped
    /\ pc \in {"querybuf", "mmap", "munmap"} => v4l2_buf = "valid"
    /\ crashed # "fault"

CameraInv == Shape /\ Idles /\ Apart /\ Picture /\ Honest

(* set_exposure is silent until it returns, and goes on to the exposure    *)
(* when the mode is manual or the tries are used up.                       *)
ControlInv ==
    /\ cpc # "idle" => told = Nothing
    /\ cpc \in {"g_abs", "s_abs"} => mode = "manual" \/ try_cnt = Tries
    /\ ExposureTold

-----------------------------------------------------------------------------
(* The queues of the driver, as sets of buffers without repetition, and    *)
(* the picture, which gets its halves one by one.                          *)
LEMMA Queueing ==
    ASSUME NEW S, NEW s \in Seq(S), NEW e \in S
    PROVE  /\ Append(s, e) \in Seq(S)
           /\ Range(Append(s, e)) = Range(s) \cup {e}
           /\ IsInjective(s) /\ e \notin Range(s) => IsInjective(Append(s, e))
  <1> DEFINE t == Append(s, e)
  <1>1. /\ t \in Seq(S) /\ Len(s) \in Nat /\ DOMAIN s = 1..Len(s)
        /\ DOMAIN t = 1..(Len(s) + 1) /\ t[Len(s) + 1] = e
        /\ \A i \in 1..Len(s) : t[i] = s[i]
    BY LenProperties, AppendProperties
  <1> HIDE DEF t
  <1>2. Range(t) = Range(s) \cup {e}
    <2>1. Range(t) \subseteq Range(s) \cup {e}
      BY <1>1 DEF Range
    <2>2. Range(s) \cup {e} \subseteq Range(t)
      BY <1>1 DEF Range
    <2> QED BY <2>1, <2>2
  <1>3. IsInjective(s) /\ e \notin Range(s) => IsInjective(t)
    BY <1>1 DEF Range, IsInjective
  <1> QED BY <1>1, <1>2, <1>3 DEF t

(* A picture of one half gets the other. *)
LEMMA SecondHalf ==
    ASSUME NEW S, NEW s \in Seq(S), Len(s) = 1, NEW e \in S
    PROVE  LET t == Append(s, e) IN Len(t) = 2 /\ t[1] = s[1] /\ t[2] = e
  BY AppendProperties

LEMMA Dequeueing ==
    ASSUME NEW S, NEW s \in Seq(S), s # <<>>
    PROVE  /\ Head(s) \in S /\ Tail(s) \in Seq(S)
           /\ Head(s) \in Range(s) /\ Range(Tail(s)) \subseteq Range(s)
           /\ IsInjective(s) => IsInjective(Tail(s)) /\ Head(s) \notin Range(Tail(s))
  <1>1. Len(s) \in Nat \ {0} /\ DOMAIN s = 1..Len(s) /\ Head(s) = s[1]
    BY LenProperties, EmptySeq
  <1>2. /\ Tail(s) \in Seq(S) /\ DOMAIN Tail(s) = 1..(Len(s) - 1)
        /\ \A i \in 1..(Len(s) - 1) : Tail(s)[i] = s[i + 1]
    BY <1>1
  <1> QED BY <1>1, <1>2 DEF Range, IsInjective

LEMMA Empty ==
    ASSUME NEW S
    PROVE  <<>> \in Seq(S) /\ Range(<<>>) = {} /\ IsInjective(<<>>)
  BY DEF Range, IsInjective

LEMMA Identity ==
    ASSUME NEW S, NEW n \in Nat, 1..n \subseteq S
    PROVE  LET s == [b \in 1..n |-> b]
           IN  s \in Seq(S) /\ Range(s) = 1..n /\ IsInjective(s)
  BY DEF Range, IsInjective

(* In a queue without repetition a buffer is once or not at all. *)
LEMMA Once ==
    ASSUME NEW s, IsInjective(s), NEW b
    PROVE  /\ b \in Range(s) => Times(b, s) = 1
           /\ b \notin Range(s) => Times(b, s) = 0
  <1>1. ASSUME b \in Range(s) PROVE Times(b, s) = 1
    <2>1. PICK k \in DOMAIN s : s[k] = b BY <1>1 DEF Range
    <2>2. {i \in DOMAIN s : s[i] = b} = {k} BY <2>1 DEF IsInjective
    <2> QED BY <2>2, FS_Singleton DEF Times
  <1>2. ASSUME b \notin Range(s) PROVE Times(b, s) = 0
    <2>1. {i \in DOMAIN s : s[i] = b} = {} BY <1>2 DEF Range
    <2> QED BY <2>1, FS_EmptySet DEF Times
  <1> QED BY <1>1, <1>2

(* One half of a picture is written. *)
LEMMA Halves ==
    ASSUME NEW S, NEW p \in S \X S, NEW v \in S
    PROVE  /\ [p EXCEPT ![1] = v] = <<v, p[2]>>
           /\ [p EXCEPT ![2] = v] = <<p[1], v>>
  OBVIOUS


-----------------------------------------------------------------------------
(* What every step keeps. *)
LEMMA ShapeType == V4l2Assumption /\ Shape => TypeOK
  BY DEF V4l2Assumption, Shape, TypeOK, CallsOK, BuffersOK, RingsOK, PicturesOK, Num, Buf

LEMMA InvInit == V4l2Assumption /\ Init => CameraInv
  <1> SUFFICES ASSUME V4l2Assumption, Init PROVE CameraInv
    OBVIOUS
  <1> USE DEF V4l2Assumption, Init
  <1>1. Granted = 1..0
    BY DEF Granted
  <1>2. Shape
    <2>1. CallsOK
      BY DEF CallsOK, Pcs
    <2>2. BuffersOK
      BY <1>1 DEF BuffersOK, Granted
    <2>3. RingsOK
      BY Empty DEF RingsOK
    <2>4. PicturesOK
      BY Empty DEF PicturesOK, Num
    <2> QED BY <2>1, <2>2, <2>3, <2>4 DEF Shape
  <1>3. Idles /\ Apart /\ Honest
    BY Empty DEF Idles, Off, Apart, InHand, Honest
  <1>4. Picture
    BY Empty DEF Picture, InHand, PictureWhole
  <1> QED BY <1>2, <1>3, <1>4 DEF CameraInv

LEMMA ShapeNext == ASSUME V4l2Assumption, CameraInv, [Next]_vars PROVE Shape'
  <1> USE DEF Goes, Gives, Fails, Fill, memVars, driverVars, Running, CameraInv, Shape, Buf, Granted, Pcs, After, V4l2Assumption
  <1>1. CASE call_init /\ Running /\ UNCHANGED may
    BY <1>1 DEF call_init, CallsOK, BuffersOK, RingsOK, PicturesOK
  <1>2. CASE v4l2_open /\ Running /\ UNCHANGED may
    BY <1>2 DEF v4l2_open, CallsOK, BuffersOK, RingsOK, PicturesOK
  <1>3. CASE query /\ Running /\ UNCHANGED may
    <2>1. After[pc] \in Pcs
      BY <1>3 DEF query
    <2>2. CallsOK'
      BY <1>3, <2>1 DEF query, CallsOK
    <2> QED BY <1>3, <2>2 DEF query, BuffersOK, RingsOK, PicturesOK
  <1>4. CASE v4l2_reqbufs /\ Running /\ UNCHANGED may
    <2>1. BuffersOK'
      <3>1. CASE UNCHANGED start
        BY <1>4, <3>1 DEF v4l2_reqbufs, BuffersOK
      <3>2. CASE \E n \in Buf : start' = [b \in 1..n |-> "none"]
        BY <1>4, <3>2 DEF v4l2_reqbufs, BuffersOK
      <3> QED BY <1>4, <3>1, <3>2 DEF v4l2_reqbufs
    <2> QED BY <1>4, <2>1 DEF v4l2_reqbufs, CallsOK, RingsOK, PicturesOK
  <1>5. CASE v4l2_mmap /\ Running /\ UNCHANGED may
    BY <1>5 DEF v4l2_mmap, CallsOK, BuffersOK, RingsOK, PicturesOK
  <1>6. CASE v4l2_qbuf_all /\ Running /\ UNCHANGED may
    <2>1. RingsOK'
      <3>1. PICK n \in 0..NrBufs : Granted = 1..n
        BY DEF BuffersOK
      <3>2. [b \in Granted |-> b] \in Seq(Buf)
        BY <3>1, Identity
      <3> QED BY <1>6, <3>2 DEF v4l2_qbuf_all, RingsOK
    <2> QED BY <1>6, <2>1 DEF v4l2_qbuf_all, CallsOK, BuffersOK, PicturesOK
  <1>7. CASE v4l2_streamon /\ Running /\ UNCHANGED may
    BY <1>7 DEF v4l2_streamon, CallsOK, BuffersOK, RingsOK, PicturesOK
  <1>8. CASE poll_first /\ Running /\ UNCHANGED may
    BY <1>8 DEF poll_first, CallsOK, BuffersOK, RingsOK, PicturesOK
  <1>9. CASE call_capture /\ Running /\ UNCHANGED may
    <2>1. img' \in Seq(Num) /\ Len(img') = 0
      BY <1>9, Empty DEF call_capture
    <2>2. PicturesOK'
      BY <1>9, <2>1 DEF call_capture, PicturesOK
    <2> QED BY <1>9, <2>2 DEF call_capture, CallsOK, BuffersOK, RingsOK
  <1>10. CASE v4l2_poll /\ Running /\ UNCHANGED may
    BY <1>10 DEF v4l2_poll, CallsOK, BuffersOK, RingsOK, PicturesOK
  <1>11. CASE v4l2_dqbuf /\ Running /\ UNCHANGED may
    <2>1. RingsOK' /\ unit' \in Buf \cup {0}
      <3>1. CASE pc' = "copy"
        <4>1. Head(done) \in Buf /\ Tail(done) \in Seq(Buf)
          BY <1>11, <3>1, Dequeueing DEF v4l2_dqbuf, RingsOK
        <4> QED BY <1>11, <3>1, <4>1 DEF v4l2_dqbuf, RingsOK
      <3>2. CASE pc' # "copy"
        BY <1>11, <3>2 DEF v4l2_dqbuf, RingsOK, BuffersOK
      <3> QED BY <3>1, <3>2
    <2> QED BY <1>11, <2>1 DEF v4l2_dqbuf, CallsOK, BuffersOK, PicturesOK
  <1>12. CASE copy /\ Running /\ UNCHANGED may
    <2>1. PicturesOK'
      <3>0. img \in Seq(Num) /\ Len(img) \in Nat /\ Len(img) <= 1
        BY <1>12, LenProperties DEF copy, Picture, PicturesOK
      <3>1. unit \in Buf
        BY <1>12 DEF copy, Apart, InHand, BuffersOK
      <3>2. content[unit] \in Num \X Num
        BY <3>1 DEF PicturesOK
      <3>3. content[unit][Len(img) + 1] \in Num
        <4>1. Len(img) + 1 = 1 \/ Len(img) + 1 = 2
          BY <3>0
        <4> QED BY <3>2, <4>1
      <3>4. LET t == Append(img, content[unit][Len(img) + 1])
            IN  t \in Seq(Num) /\ Len(t) <= 2
        BY <3>0, <3>3, AppendProperties
      <3> QED BY <1>12, <3>4 DEF copy, PicturesOK
    <2> QED BY <1>12, <2>1 DEF copy, CallsOK, BuffersOK, RingsOK
  <1>13. CASE v4l2_qbuf /\ Running /\ UNCHANGED may
    <2>1. unit \in Buf
      BY <1>13 DEF v4l2_qbuf, Apart, InHand, BuffersOK
    <2>2. RingsOK'
      BY <1>13, <2>1, Queueing DEF v4l2_qbuf, RingsOK
    <2>3. PicturesOK'
      <3>1. CASE img' = img
        BY <1>13, <3>1 DEF v4l2_qbuf, PicturesOK
      <3>2. CASE img' = <<>>
        <4>1. img' \in Seq(Num) /\ Len(img') = 0
          BY <3>2, Empty
        <4> QED BY <1>13, <4>1 DEF v4l2_qbuf, PicturesOK
      <3> QED BY <1>13, <3>1, <3>2 DEF v4l2_qbuf
    <2> QED BY <1>13, <2>2, <2>3 DEF v4l2_qbuf, CallsOK, BuffersOK
  <1>14. CASE call_deinit /\ Running /\ UNCHANGED may
    BY <1>14 DEF call_deinit, CallsOK, BuffersOK, RingsOK, PicturesOK
  <1>15. CASE v4l2_streamoff /\ Running /\ UNCHANGED may
    BY <1>15, Empty DEF v4l2_streamoff, CallsOK, BuffersOK, RingsOK, PicturesOK
  <1>16. CASE v4l2_munmap /\ Running /\ UNCHANGED may
    BY <1>16 DEF v4l2_munmap, CallsOK, BuffersOK, RingsOK, PicturesOK
  <1>17. CASE v4l2_relbufs /\ Running /\ UNCHANGED may
    BY <1>17 DEF v4l2_relbufs, CallsOK, BuffersOK, RingsOK, PicturesOK
  <1>18. CASE v4l2_close /\ Running /\ UNCHANGED may
    BY <1>18 DEF v4l2_close, CallsOK, BuffersOK, RingsOK, PicturesOK
  <1>19. CASE fill_begin /\ Running /\ UNCHANGED may
    <2>1. RingsOK' /\ Head(queued) \in Buf
      BY <1>19, Dequeueing DEF fill_begin, RingsOK
    <2>2. content' \in [Buf -> Num \X Num]
      <3>1. content[Head(queued)] \in Num \X Num /\ shot \in Num
        BY <2>1 DEF PicturesOK
      <3>2. [content[Head(queued)] EXCEPT ![1] = shot] \in Num \X Num
        BY <3>1, Halves
      <3> QED BY <1>19, <2>1, <3>2 DEF fill_begin, PicturesOK
    <2> QED BY <1>19, <2>1, <2>2 DEF fill_begin, CallsOK, BuffersOK, PicturesOK
  <1>20. CASE fill_end /\ Running /\ UNCHANGED may
    <2>1. RingsOK' /\ dma \in Buf
      BY <1>20, Queueing DEF fill_end, RingsOK
    <2>2. content' \in [Buf -> Num \X Num]
      <3>1. content[dma] \in Num \X Num /\ shot \in Num
        BY <2>1 DEF PicturesOK
      <3>2. [content[dma] EXCEPT ![2] = shot] \in Num \X Num
        BY <3>1, Halves
      <3> QED BY <1>20, <2>1, <3>2 DEF fill_end, PicturesOK
    <2>3. shot' \in Num
      BY <1>20 DEF fill_end, PicturesOK, Num
    <2> QED BY <1>20, <2>1, <2>2, <2>3 DEF fill_end, CallsOK, BuffersOK, PicturesOK
  <1>21. CASE UNCHANGED vars
    <2>1. CallsOK' /\ BuffersOK'
      BY <1>21 DEF vars, CallsOK, BuffersOK
    <2>2. RingsOK' /\ PicturesOK'
      BY <1>21 DEF vars, RingsOK, PicturesOK
    <2> QED BY <2>1, <2>2
  <1> QED BY <1>1, <1>2, <1>3, <1>4, <1>5, <1>6, <1>7, <1>8, <1>9, <1>10, <1>11, <1>12,
           <1>13, <1>14, <1>15, <1>16, <1>17, <1>18, <1>19, <1>20, <1>21
       DEF Next, Open, Capture, Deinit, Driver

LEMMA IdlesNext == ASSUME V4l2Assumption, CameraInv, [Next]_vars PROVE Idles'
  <1> USE DEF Goes, Gives, Fails, Fill, memVars, driverVars, Running, CameraInv, Idles, Quiet, Off, After
  <1>1. CASE call_init /\ Running /\ UNCHANGED may
    BY <1>1 DEF call_init, Shape, CallsOK
  <1>2. CASE v4l2_open /\ Running /\ UNCHANGED may
    BY <1>2 DEF v4l2_open, Shape, CallsOK
  <1>3. CASE query /\ Running /\ UNCHANGED may
    BY <1>3 DEF query, Shape, CallsOK
  <1>4. CASE v4l2_reqbufs /\ Running /\ UNCHANGED may
    BY <1>4 DEF v4l2_reqbufs, Shape, CallsOK
  <1>5. CASE v4l2_mmap /\ Running /\ UNCHANGED may
    BY <1>5 DEF v4l2_mmap, Shape, CallsOK
  <1>6. CASE v4l2_qbuf_all /\ Running /\ UNCHANGED may
    BY <1>6 DEF v4l2_qbuf_all, Shape, CallsOK
  <1>7. CASE v4l2_streamon /\ Running /\ UNCHANGED may
    BY <1>7 DEF v4l2_streamon, Shape, CallsOK
  <1>8. CASE poll_first /\ Running /\ UNCHANGED may
    BY <1>8 DEF poll_first, Shape, CallsOK
  <1>9. CASE call_capture /\ Running /\ UNCHANGED may
    BY <1>9 DEF call_capture, Shape, CallsOK
  <1>10. CASE v4l2_poll /\ Running /\ UNCHANGED may
    BY <1>10 DEF v4l2_poll, Shape, CallsOK
  <1>11. CASE v4l2_dqbuf /\ Running /\ UNCHANGED may
    BY <1>11 DEF v4l2_dqbuf, Shape, CallsOK
  <1>12. CASE copy /\ Running /\ UNCHANGED may
    BY <1>12 DEF copy, Shape, CallsOK
  <1>13. CASE v4l2_qbuf /\ Running /\ UNCHANGED may
    BY <1>13 DEF v4l2_qbuf, Shape, CallsOK
  <1>14. CASE call_deinit /\ Running /\ UNCHANGED may
    BY <1>14 DEF call_deinit, Shape, CallsOK
  <1>15. CASE v4l2_streamoff /\ Running /\ UNCHANGED may
    BY <1>15 DEF v4l2_streamoff, Shape, CallsOK
  <1>16. CASE v4l2_munmap /\ Running /\ UNCHANGED may
    BY <1>16 DEF v4l2_munmap, Shape, CallsOK
  <1>17. CASE v4l2_relbufs /\ Running /\ UNCHANGED may
    BY <1>17 DEF v4l2_relbufs, Shape, CallsOK
  <1>18. CASE v4l2_close /\ Running /\ UNCHANGED may
    BY <1>18 DEF v4l2_close, Shape, CallsOK
  <1>19. CASE fill_begin /\ Running /\ UNCHANGED may
    BY <1>19 DEF fill_begin, Shape, CallsOK
  <1>20. CASE fill_end /\ Running /\ UNCHANGED may
    BY <1>20 DEF fill_end, Shape, CallsOK
  <1>21. CASE UNCHANGED vars
    BY <1>21 DEF vars, Shape, CallsOK
  <1> QED BY <1>1, <1>2, <1>3, <1>4, <1>5, <1>6, <1>7, <1>8, <1>9, <1>10, <1>11, <1>12,
           <1>13, <1>14, <1>15, <1>16, <1>17, <1>18, <1>19, <1>20, <1>21
       DEF Next, Open, Capture, Deinit, Driver

LEMMA ApartNext == ASSUME V4l2Assumption, CameraInv, [Next]_vars PROVE Apart'
  <1> USE DEF Goes, Gives, Fails, memVars, driverVars, Running, CameraInv, Granted
  <1>1. CASE call_init /\ Running /\ UNCHANGED may
    BY <1>1 DEF call_init, Apart, InHand
  <1>2. CASE v4l2_open /\ Running /\ UNCHANGED may
    BY <1>2 DEF v4l2_open, Apart, InHand
  <1>3. CASE query /\ Running /\ UNCHANGED may
    BY <1>3 DEF query, After, Apart, InHand
  <1>4. CASE v4l2_reqbufs /\ Running /\ UNCHANGED may
    <2>1. Off'
      BY <1>4 DEF v4l2_reqbufs, Idles, Quiet, Off
    <2> QED BY <1>4, <2>1, Empty DEF v4l2_reqbufs, Apart, InHand, Off
  <1>5. CASE v4l2_mmap /\ Running /\ UNCHANGED may
    BY <1>5 DEF v4l2_mmap, Apart, InHand
  <1>6. CASE v4l2_qbuf_all /\ Running /\ UNCHANGED may
    <2>1. Off
      BY <1>6 DEF v4l2_qbuf_all, Idles, Quiet
    <2>2. PICK n \in 0..NrBufs : Granted = 1..n
      BY DEF Shape, BuffersOK
    <2>3. Range([b \in Granted |-> b]) = Granted /\ IsInjective([b \in Granted |-> b])
      BY <2>2, Identity
    <2> QED BY <1>6, <2>1, <2>2, <2>3, Empty DEF v4l2_qbuf_all, Apart, InHand, Off
  <1>7. CASE v4l2_streamon /\ Running /\ UNCHANGED may
    BY <1>7 DEF v4l2_streamon, Apart, InHand
  <1>8. CASE poll_first /\ Running /\ UNCHANGED may
    BY <1>8 DEF poll_first, Apart, InHand
  <1>9. CASE call_capture /\ Running /\ UNCHANGED may
    BY <1>9 DEF call_capture, Apart, InHand
  <1>10. CASE v4l2_poll /\ Running /\ UNCHANGED may
    BY <1>10 DEF v4l2_poll, Apart, InHand
  <1>11. CASE v4l2_dqbuf /\ Running /\ UNCHANGED may
    <2>1. CASE pc' = "copy"
      <3>1. done \in Seq(Buf) /\ done # <<>>
        BY <1>11, <2>1 DEF v4l2_dqbuf, Shape, RingsOK
      <3>2. /\ unit' \in Range(done) /\ Range(done') \subseteq Range(done)
            /\ IsInjective(done') /\ unit' \notin Range(done')
        <4>1. /\ Head(done) \in Range(done) /\ Range(Tail(done)) \subseteq Range(done)
              /\ IsInjective(Tail(done)) /\ Head(done) \notin Range(Tail(done))
          BY <3>1, Dequeueing DEF Apart
        <4>2. unit' = Head(done) /\ done' = Tail(done)
          BY <1>11, <2>1 DEF v4l2_dqbuf
        <4> QED BY <4>1, <4>2
      <3> QED BY <1>11, <3>2 DEF v4l2_dqbuf, Apart
    <2>2. CASE pc' # "copy"
      BY <1>11, <2>2 DEF v4l2_dqbuf, Apart, InHand
    <2> QED BY <2>1, <2>2
  <1>12. CASE copy /\ Running /\ UNCHANGED may
    BY <1>12 DEF copy, Apart, InHand
  <1>13. CASE v4l2_qbuf /\ Running /\ UNCHANGED may
    <2>1. queued \in Seq(Buf) /\ unit \in Buf /\ unit \in Granted
      BY <1>13 DEF v4l2_qbuf, Shape, RingsOK, BuffersOK, Apart, InHand
    <2>2. Range(Append(queued, unit)) = Range(queued) \cup {unit} /\ IsInjective(Append(queued, unit))
      BY <1>13, <2>1, Queueing DEF v4l2_qbuf, Apart, InHand
    <2> QED BY <1>13, <2>1, <2>2 DEF v4l2_qbuf, Apart, InHand
  <1>14. CASE call_deinit /\ Running /\ UNCHANGED may
    BY <1>14 DEF call_deinit, Apart, InHand
  <1>15. CASE v4l2_streamoff /\ Running /\ UNCHANGED may
    BY <1>15, Empty DEF v4l2_streamoff, Apart, InHand
  <1>16. CASE v4l2_munmap /\ Running /\ UNCHANGED may
    BY <1>16 DEF v4l2_munmap, Apart, InHand
  <1>17. CASE v4l2_relbufs /\ Running /\ UNCHANGED may
    BY <1>17 DEF v4l2_relbufs, Apart, InHand
  <1>18. CASE v4l2_close /\ Running /\ UNCHANGED may
    BY <1>18 DEF v4l2_close, Apart, InHand
  <1>19. CASE fill_begin /\ Running /\ UNCHANGED may
    <2>1. queued \in Seq(Buf) /\ queued # <<>>
      BY <1>19 DEF fill_begin, Shape, RingsOK
    <2>2. /\ dma' \in Range(queued) /\ Range(queued') \subseteq Range(queued)
          /\ IsInjective(queued') /\ dma' \notin Range(queued')
      BY <1>19, <2>1, Dequeueing DEF fill_begin, Apart
    <2> QED BY <1>19, <2>2 DEF fill_begin, Apart, InHand
  <1>20. CASE fill_end /\ Running /\ UNCHANGED may
    <2>1. done \in Seq(Buf) /\ dma \in Buf /\ dma \in Granted /\ 0 \notin Buf /\ Granted \subseteq Buf
      BY <1>20 DEF fill_end, Shape, RingsOK, BuffersOK, Apart, Buf
    <2>2. Range(Append(done, dma)) = Range(done) \cup {dma} /\ IsInjective(Append(done, dma))
      BY <1>20, <2>1, Queueing DEF fill_end, Apart
    <2> QED BY <1>20, <2>1, <2>2 DEF fill_end, Apart, InHand
  <1>21. CASE UNCHANGED vars
    BY <1>21 DEF vars, Apart, InHand
  <1> QED BY <1>1, <1>2, <1>3, <1>4, <1>5, <1>6, <1>7, <1>8, <1>9, <1>10, <1>11, <1>12,
           <1>13, <1>14, <1>15, <1>16, <1>17, <1>18, <1>19, <1>20, <1>21
       DEF Next, Open, Capture, Deinit, Driver

LEMMA PictureNext == ASSUME V4l2Assumption, CameraInv, [Next]_vars PROVE Picture'
  <1> USE DEF Goes, Gives, Fails, memVars, driverVars, Running, CameraInv, Granted, Fill
  <1>1. CASE call_init /\ Running /\ UNCHANGED may
    BY <1>1 DEF call_init, Picture, InHand, Whole, PictureWhole
  <1>2. CASE v4l2_open /\ Running /\ UNCHANGED may
    BY <1>2 DEF v4l2_open, Picture, InHand, Whole, PictureWhole
  <1>3. CASE query /\ Running /\ UNCHANGED may
    BY <1>3 DEF query, After, Picture, InHand, Whole, PictureWhole
  <1>4. CASE v4l2_reqbufs /\ Running /\ UNCHANGED may
    BY <1>4 DEF v4l2_reqbufs, Picture, InHand, Whole, PictureWhole
  <1>5. CASE v4l2_mmap /\ Running /\ UNCHANGED may
    BY <1>5 DEF v4l2_mmap, Picture, InHand, Whole, PictureWhole
  <1>6. CASE v4l2_qbuf_all /\ Running /\ UNCHANGED may
    BY <1>6 DEF v4l2_qbuf_all, Picture, InHand, Whole, PictureWhole
  <1>7. CASE v4l2_streamon /\ Running /\ UNCHANGED may
    BY <1>7 DEF v4l2_streamon, Picture, InHand, Whole, PictureWhole
  <1>8. CASE poll_first /\ Running /\ UNCHANGED may
    BY <1>8 DEF poll_first, Picture, InHand, Whole, PictureWhole
  <1>9. CASE call_capture /\ Running /\ UNCHANGED may
    <2>1. Len(img') = 0
      BY <1>9 DEF call_capture
    <2> QED BY <1>9, <2>1 DEF call_capture, Picture, InHand, Whole, PictureWhole
  <1>10. CASE v4l2_poll /\ Running /\ UNCHANGED may
    BY <1>10 DEF v4l2_poll, Picture, InHand, Whole, PictureWhole
  <1>11. CASE v4l2_dqbuf /\ Running /\ UNCHANGED may
    <2>1. CASE pc' = "copy"
      <3>1. done \in Seq(Buf) /\ done # <<>> /\ unit' = Head(done) /\ done' = Tail(done)
        BY <1>11, <2>1 DEF v4l2_dqbuf, Shape, RingsOK
      <3>2. unit' \in Range(done) /\ Range(done') \subseteq Range(done)
        BY <3>1, Dequeueing
      <3>3. img' = <<>> /\ Len(img') = 0
        BY <1>11 DEF v4l2_dqbuf, Picture
      <3> QED BY <1>11, <2>1, <3>2, <3>3 DEF v4l2_dqbuf, Picture, InHand, Whole, PictureWhole
    <2>2. CASE pc' # "copy"
      BY <1>11, <2>2 DEF v4l2_dqbuf, Picture, InHand, Whole, PictureWhole
    <2> QED BY <2>1, <2>2
  <1>12. CASE copy /\ Running /\ UNCHANGED may
    <2>1. /\ img \in Seq(Num) /\ Len(img) \in Nat /\ Len(img) <= 1 /\ (Len(img) = 0 <=> img = <<>>)
          /\ Whole(unit) /\ UNCHANGED <<unit, content, done, dma, shot>>
      BY <1>12, LenProperties, EmptySeq DEF copy, Picture, InHand, Shape, PicturesOK
    <2>2. CASE start[unit] # "mapped"
      BY <1>12, <2>1, <2>2 DEF copy, Picture, InHand, Whole, PictureWhole
    <2>3. CASE start[unit] = "mapped" /\ img = <<>>
      <3>1. img' = <<content[unit][1]>> /\ pc' = "copy" /\ Len(img') = 1 /\ img'[1] = content[unit][1]
        BY <1>12, <2>3 DEF copy
      <3> QED BY <1>12, <2>1, <3>1 DEF Picture, InHand, Whole, PictureWhole
    <2>4. CASE start[unit] = "mapped" /\ img # <<>>
      <3>0. Len(img) = 1 /\ Len(img) + 1 = 2
        <4> DEFINE n == Len(img)
        <4>1. n \in Nat /\ n <= 1 /\ n # 0
          BY <2>1, <2>4
        <4> HIDE DEF n
        <4>2. n = 1 /\ n + 1 = 2
          BY <4>1
        <4> QED BY <4>2 DEF n
      <3>1. pc' = "qbuf" /\ img' = Append(img, content[unit][2])
        BY <1>12, <2>4, <3>0 DEF copy
      <3>2. img[1] = content[unit][1]
        BY <1>12, <3>0 DEF copy, Picture
      <3>3. Len(img') = 2 /\ img'[1] = img[1] /\ img'[2] = content[unit][2]
        <4>1. content[unit] \in Num \X Num
          BY <1>12 DEF copy, Shape, BuffersOK, PicturesOK, Apart, InHand, Buf
        <4>2. content[unit][2] \in Num
          BY <4>1
        <4>3. img \in Seq(Num)
          BY <2>1
        <4> QED BY <3>0, <3>1, <4>2, <4>3, SecondHalf
      <3> QED BY <1>12, <2>1, <3>1, <3>2, <3>3 DEF Picture, InHand, Whole, PictureWhole
    <2> QED BY <2>2, <2>3, <2>4
  <1>13. CASE v4l2_qbuf /\ Running /\ UNCHANGED may
    <2>1. CASE img' = img
      BY <1>13, <2>1 DEF v4l2_qbuf, Picture, InHand, Whole, PictureWhole
    <2>2. CASE Len(img') = 0
      BY <1>13, <2>2 DEF v4l2_qbuf, Picture, InHand, Whole, PictureWhole
    <2> QED BY <1>13, <2>1, <2>2 DEF v4l2_qbuf
  <1>14. CASE call_deinit /\ Running /\ UNCHANGED may
    BY <1>14 DEF call_deinit, Picture, InHand, Whole, PictureWhole
  <1>15. CASE v4l2_streamoff /\ Running /\ UNCHANGED may
    BY <1>15, Empty DEF v4l2_streamoff, Picture, InHand, Whole, PictureWhole
  <1>16. CASE v4l2_munmap /\ Running /\ UNCHANGED may
    BY <1>16 DEF v4l2_munmap, Picture, InHand, Whole, PictureWhole
  <1>17. CASE v4l2_relbufs /\ Running /\ UNCHANGED may
    BY <1>17 DEF v4l2_relbufs, Picture, InHand, Whole, PictureWhole
  <1>18. CASE v4l2_close /\ Running /\ UNCHANGED may
    BY <1>18 DEF v4l2_close, Picture, InHand, Whole, PictureWhole
  <1>19. CASE fill_begin /\ Running /\ UNCHANGED may
    <2>1. /\ dma' = Head(queued) /\ content' = [content EXCEPT ![dma'][1] = shot]
          /\ UNCHANGED <<pc, img, crashed, unit, done, shot>>
      BY <1>19 DEF fill_begin
    <2>2. /\ dma' \in Buf /\ dma' \in Range(queued) /\ content \in [Buf -> Num \X Num]
          /\ shot \in Num /\ 0 \notin Buf
      BY <1>19, <2>1, Dequeueing DEF fill_begin, Shape, RingsOK, PicturesOK, Buf
    <2>3. /\ dma' \notin Range(done) /\ (InHand => dma' # unit)
      BY <2>2 DEF Apart
    <2>4. content'[dma'][1] = shot /\ \A b \in Buf : b # dma' => content'[b] = content[b]
      BY <2>1, <2>2
    <2>5. Range(done) \subseteq Buf /\ (InHand => unit \in Buf)
      BY DEF Apart, Shape, BuffersOK, Buf
    <2> QED BY <2>1, <2>2, <2>3, <2>4, <2>5 DEF Picture, InHand, Whole, PictureWhole
  <1>20. CASE fill_end /\ Running /\ UNCHANGED may
    <2>1. /\ dma \in Buf /\ dma' = 0 /\ content' = [content EXCEPT ![dma][2] = shot]
          /\ done' = Append(done, dma) /\ UNCHANGED <<pc, img, crashed, unit>>
      BY <1>20 DEF fill_end, Shape, RingsOK
    <2>2. content \in [Buf -> Num \X Num] /\ shot \in Num /\ content[dma][1] = shot
      BY <1>20 DEF fill_end, Shape, PicturesOK, Picture
    <2>3. content'[dma][1] = content'[dma][2] /\ \A b \in Buf : b # dma => content'[b] = content[b]
      <3>1. content'[dma] = [content[dma] EXCEPT ![2] = shot]
        BY <2>1, <2>2
      <3>2. content'[dma] = <<shot, shot>>
        BY <2>1, <2>2, <3>1, Halves
      <3>3. dma \in Buf => content'[dma][1] = content'[dma][2]
        BY <3>2
      <3> QED BY <2>1, <2>2, <3>3
    <2>4. Range(done') = Range(done) \cup {dma}
      BY <2>1, Queueing DEF Shape, RingsOK
    <2>5. Range(done) \subseteq Buf /\ (InHand => unit \in Buf /\ unit # dma) /\ dma \notin Range(done)
      BY DEF Apart, Shape, BuffersOK, Buf
    <2> QED BY <2>1, <2>3, <2>4, <2>5 DEF Picture, InHand, Whole, PictureWhole
  <1>21. CASE UNCHANGED vars
    BY <1>21 DEF vars, Picture, InHand, Whole, PictureWhole
  <1> QED BY <1>1, <1>2, <1>3, <1>4, <1>5, <1>6, <1>7, <1>8, <1>9, <1>10, <1>11, <1>12,
           <1>13, <1>14, <1>15, <1>16, <1>17, <1>18, <1>19, <1>20, <1>21
       DEF Next, Open, Capture, Deinit, Driver

LEMMA HonestNext == ASSUME V4l2Assumption, CameraInv, [Next]_vars PROVE Honest'
  <1> USE DEF Goes, Gives, Fails, memVars, driverVars, Running, CameraInv, Shape, CallsOK, Granted
  <1>1. CASE call_init /\ Running /\ UNCHANGED may
    BY <1>1 DEF call_init, Honest, Sound, Mapped
  <1>2. CASE v4l2_open /\ Running /\ UNCHANGED may
    BY <1>2 DEF v4l2_open, Honest, Sound, Mapped
  <1>3. CASE query /\ Running /\ UNCHANGED may
    BY <1>3 DEF query, After, Honest, Sound, Mapped
  <1>4. CASE v4l2_reqbufs /\ Running /\ UNCHANGED may
    BY <1>4 DEF v4l2_reqbufs, Honest, Sound, Mapped, Idles, Quiet, Off
  <1>5. CASE v4l2_mmap /\ Running /\ UNCHANGED may
    BY <1>5 DEF v4l2_mmap, Honest, Sound, Mapped
  <1>6. CASE v4l2_qbuf_all /\ Running /\ UNCHANGED may
    BY <1>6 DEF v4l2_qbuf_all, Honest, Sound, Mapped
  <1>7. CASE v4l2_streamon /\ Running /\ UNCHANGED may
    BY <1>7 DEF v4l2_streamon, Honest, Sound, Mapped
  <1>8. CASE poll_first /\ Running /\ UNCHANGED may
    BY <1>8 DEF poll_first, Honest, Sound, Mapped
  <1>9. CASE call_capture /\ Running /\ UNCHANGED may
    BY <1>9 DEF call_capture, Honest, Sound, Mapped
  <1>10. CASE v4l2_poll /\ Running /\ UNCHANGED may
    BY <1>10 DEF v4l2_poll, Honest, Sound, Mapped
  <1>11. CASE v4l2_dqbuf /\ Running /\ UNCHANGED may
    BY <1>11 DEF v4l2_dqbuf, Honest, Sound, Mapped
  <1>12. CASE copy /\ Running /\ UNCHANGED may
    BY <1>12 DEF copy, Honest, Sound, Mapped, Apart, InHand
  <1>13. CASE v4l2_qbuf /\ Running /\ UNCHANGED may
    BY <1>13 DEF v4l2_qbuf, Honest, Sound, Mapped
  <1>14. CASE call_deinit /\ Running /\ UNCHANGED may
    BY <1>14 DEF call_deinit, Honest, Sound, Mapped
  <1>15. CASE v4l2_streamoff /\ Running /\ UNCHANGED may
    BY <1>15 DEF v4l2_streamoff, Honest, Sound, Mapped
  <1>16. CASE v4l2_munmap /\ Running /\ UNCHANGED may
    BY <1>16 DEF v4l2_munmap, Honest, Sound, Mapped, Idles, Quiet, Off
  <1>17. CASE v4l2_relbufs /\ Running /\ UNCHANGED may
    BY <1>17 DEF v4l2_relbufs, Honest, Sound, Mapped, Idles, Quiet, Off
  <1>18. CASE v4l2_close /\ Running /\ UNCHANGED may
    BY <1>18 DEF v4l2_close, Honest, Sound, Mapped
  <1>19. CASE fill_begin /\ Running /\ UNCHANGED may
    BY <1>19 DEF fill_begin, Honest, Sound, Mapped
  <1>20. CASE fill_end /\ Running /\ UNCHANGED may
    BY <1>20 DEF fill_end, Honest, Sound, Mapped
  <1>21. CASE UNCHANGED vars
    BY <1>21 DEF vars, Honest, Sound, Mapped
  <1> QED BY <1>1, <1>2, <1>3, <1>4, <1>5, <1>6, <1>7, <1>8, <1>9, <1>10, <1>11, <1>12,
           <1>13, <1>14, <1>15, <1>16, <1>17, <1>18, <1>19, <1>20, <1>21
       DEF Next, Open, Capture, Deinit, Driver

LEMMA ControlNext == ASSUME ControlInv, [CameraNext]_cameraVars PROVE ControlInv'
  <1> USE DEF ControlInv, ExposureTold, Nothing, Returned, Answered
  <1>1. CASE UNCHANGED controlVars
    BY <1>1 DEF controlVars
  <1>2. CASE v4l2_g_ctrl \/ v4l2_g_parm
    BY <1>2 DEF v4l2_g_ctrl, v4l2_g_parm, Asks
  <1>3. ASSUME NEW value \in Intervals, v4l2_s_parm(value) PROVE ControlInv'
    BY <1>3 DEF v4l2_s_parm
  <1>4. ASSUME NEW value \in Exposures, v4l2_s_ctrl(value) PROVE ControlInv'
    BY <1>4 DEF v4l2_s_ctrl
  <1>5. ASSUME NEW value \in Exposures, call_set_exposure(value) PROVE ControlInv'
    BY <1>5 DEF call_set_exposure
  <1>6. CASE get_mode
    BY <1>6 DEF get_mode
  <1>7. CASE set_manual
    BY <1>7 DEF set_manual
  <1>8. CASE give_up
    BY <1>8 DEF give_up
  <1>9. CASE get_absolute
    BY <1>9 DEF get_absolute
  <1>10. CASE set_absolute
    BY <1>10 DEF set_absolute
  <1> QED BY <1>1, <1>2, <1>3, <1>4, <1>5, <1>6, <1>7, <1>8, <1>9, <1>10
         DEF CameraNext, Controls, ControlCalls, cameraVars

-----------------------------------------------------------------------------
(* The second caller changes nothing of the camera itself. *)
LEMMA CameraStep == [CameraNext]_cameraVars => [Next]_vars
  BY DEF CameraNext, Others, Controls, cameraVars

LEMMA CameraAlways == CameraSpec => []CameraInv
  <1>1. CameraInit => CameraInv
    BY V4l2Assumption, InvInit DEF CameraInit
  <1>2. CameraInv /\ [CameraNext]_cameraVars => CameraInv'
    <2> SUFFICES ASSUME CameraInv, [Next]_vars PROVE CameraInv'
      BY CameraStep
    <2>1. Shape' /\ Idles' BY V4l2Assumption, ShapeNext, IdlesNext
    <2>2. Apart' BY V4l2Assumption, ApartNext
    <2>3. Picture' BY V4l2Assumption, PictureNext
    <2>4. Honest' BY V4l2Assumption, HonestNext
    <2> QED BY <2>1, <2>2, <2>3, <2>4 DEF CameraInv
  <1> QED BY <1>1, <1>2, PTL DEF CameraSpec

(* The calls, the driver's queues, the buffers' numbers and the pictures   *)
(* stay what they are declared to be, whatever the driver grants.          *)
THEOREM CameraTypes == CameraSpec => []TypeOK
  <1>1. CameraInv => TypeOK BY V4l2Assumption, ShapeType DEF CameraInv
  <1> QED BY <1>1, CameraAlways, PTL

(* A buffer has one holder: it is in a queue of the driver, under its dma  *)
(* or in the thread's hand, through failed calls, stops and restarts.      *)
THEOREM BufferHasOneHolder == CameraSpec => []OneHolder
  <1>1. CameraInv => OneHolder
    <2> SUFFICES ASSUME CameraInv, NEW b \in Buf
                 PROVE  Holders(b) <= 1 /\ (Holders(b) = 1 => b \in Granted)
      BY DEF OneHolder
    <2> DEFINE inQueue == b \in Range(queued)
               inDone  == b \in Range(done)
               inDma   == dma = b
               inUse   == unit = b /\ InHand
    <2>1. /\ Times(b, queued) = IF inQueue THEN 1 ELSE 0
          /\ Times(b, done) = IF inDone THEN 1 ELSE 0
      BY Once DEF CameraInv, Apart
    <2>2. Holders(b) = (IF inQueue THEN 1 ELSE 0) + (IF inDone THEN 1 ELSE 0)
                       + (IF inDma THEN 1 ELSE 0) + (IF inUse THEN 1 ELSE 0)
      BY <2>1 DEF Holders, InHand
    <2>3. /\ ~(inQueue /\ inDone) /\ ~(inQueue /\ inDma) /\ ~(inQueue /\ inUse)
          /\ ~(inDone /\ inDma) /\ ~(inDone /\ inUse) /\ ~(inDma /\ inUse)
      BY DEF CameraInv, Apart
    <2>4. inQueue \/ inDone \/ inDma \/ inUse => b \in Granted
      BY DEF CameraInv, Apart, Buf
    <2> HIDE DEF inQueue, inDone, inDma, inUse
    <2> QED BY <2>2, <2>3, <2>4
  <1> QED BY <1>1, CameraAlways, PTL

(* Both halves of a picture are of one frame.                              *)
THEOREM PicturesAreWhole == CameraSpec => []PictureWhole
  <1>1. CameraInv => PictureWhole BY DEF CameraInv, Picture
  <1> QED BY <1>1, CameraAlways, PTL

(* Where open, reqbufs and mmap do not fail, a 0 of v4l2_init means that   *)
(* the stream is on, and no bad address is followed.                       *)
THEOREM InitTellsTruth == CameraSpec => []InitHonest
  <1>1. CameraInv => InitHonest BY DEF CameraInv, Honest, Sound, InitHonest
  <1> QED BY <1>1, CameraAlways, PTL

(* A 0 of set_exposure means that the exposure is the one asked for, in    *)
(* the manual mode or after Tries refusals of it.                          *)
THEOREM ExposureIsSet == CameraSpec => []ExposureTold
  <1>1. CameraInit => ControlInv
    BY DEF CameraInit, ControlInit, ControlInv, ExposureTold, Nothing, Returned, Answered
  <1>2. ControlInv => ExposureTold BY DEF ControlInv
  <1> QED BY <1>1, <1>2, ControlNext, PTL DEF CameraSpec
=============================================================================
