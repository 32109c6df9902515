----------------------------- MODULE V4l2Capture -----------------------------
(***************************************************************************)
(* The camera of src/libv4l2: v4l2_init, capture and v4l2_deinit of        *)
(* capture.cpp, one action per wrapper call of v4l2_wrap.cpp, against the  *)
(* driver, which fills the buffers it is given while the thread copies out *)
(* of the one it holds.  Any wrapper named in may can fail; the code's     *)
(* goto err and what it leaves behind are kept.                            *)
(***************************************************************************)
EXTENDS Integers, Sequences, FiniteSets, SequencesExt

CONSTANTS NrBufs,    \* nr_bufs, the buffers v4l2_init asks for
          Shots,     \* frame numbers run modulo Shots
          Scenarios  \* what else may happen in a behaviour: sets of calls
                     \* the system may refuse, and "deinit" when the caller
                     \* also stops and restarts the camera

ASSUME V4l2Assumption == NrBufs \in Nat \ {0} /\ Shots \in Nat \ {0, 1}

VARIABLES may,       \* the scenario of this behaviour
          pc,        \* the call the thread is in, or "idle"
          ret,       \* what v4l2_init or v4l2_deinit returned last
          up,        \* v4l2_init has been called, and not v4l2_deinit since
          fd,        \* the device is open
          v4l2_buf,  \* "null", "valid" or "freed"
          start,     \* of each buffer granted: its mapping
          unit,      \* v4l2_buf_unit: the buffer last dequeued, or 0
          img,       \* what the copy has read so far: <<>> or <<top, bottom>>
          crashed,   \* "no", "abort" for assert(0), "fault" for a bad address
          streaming, queued, dma, done, \* the driver: filling queue, buffer
                                        \* being filled, filled buffers
          content,   \* of each buffer, the frames its two halves come from
          shot       \* the frame the sensor delivers next

driverVars == <<streaming, queued, dma, done, content, shot>>
memVars    == <<fd, v4l2_buf, start, unit>>
vars       == <<may, pc, ret, up, memVars, img, crashed, driverVars>>

Buf == 1..NrBufs
Granted == DOMAIN start

Init == /\ may \in Scenarios
        /\ pc = "idle" /\ ret = 0 /\ up = FALSE
        /\ fd = FALSE /\ v4l2_buf = "null" /\ start = <<>> /\ unit = 0
        /\ img = <<>> /\ crashed = "no"
        /\ streaming = FALSE /\ queued = <<>> /\ dma = 0 /\ done = <<>>
        /\ content = [b \in Buf |-> <<0, 0>>] /\ shot = 1

Fails(call) == call \in may
Goes(from, to) == pc = from /\ pc' = to

(* goto err *)
Gives(code) == pc' = "idle" /\ ret' = code

-----------------------------------------------------------------------------
(* v4l2_init *)

call_init == /\ ~up /\ ~fd /\ Goes("idle", "open")
             /\ up' = TRUE
             /\ UNCHANGED <<ret, memVars, img, crashed, driverVars>>

(* A failed open returns a ret that nothing has set. *)
v4l2_open ==
    /\ pc = "open"
    /\ \/ fd' = TRUE /\ pc' = "querycap" /\ UNCHANGED ret
       \/ Fails("open") /\ UNCHANGED fd /\ \E code \in {-1, 0} : Gives(code)
    /\ UNCHANGED <<up, v4l2_buf, start, unit, img, crashed, driverVars>>

After == [querycap |-> "enuminput", enuminput |-> "s_input", s_input |-> "enum_fmt",
          enum_fmt |-> "s_fmt", s_fmt |-> "reqbufs", querybuf |-> "mmap"]

(* The calls that only ask or set something of the device. *)
query == /\ pc \in DOMAIN After
         /\ \/ pc' = After[pc] /\ ret' = 0
            \/ Fails(pc) /\ Gives(-1)
         /\ UNCHANGED <<up, memVars, img, crashed, driverVars>>

(* Mutant: the loop over what is granted runs over what was asked for. *)
QueueAsked ==
    /\ pc = "qbuf_all"
    /\ \/ /\ queued' = [b \in Buf |-> b]
          /\ pc' = "streamon" /\ ret' = 0 /\ UNCHANGED crashed
       \/ /\ Fails("qbuf_all") /\ Gives(-1)
          /\ crashed' = "abort" /\ UNCHANGED queued
    /\ UNCHANGED <<up, memVars, img, streaming, dma, done, content, shot>>

(* The driver grants as many buffers as it likes.  A failure goes to err   *)
(* with the 0 that v4l2_s_fmt returned.                                    *)
v4l2_reqbufs ==
    /\ pc = "reqbufs"
    /\ \/ /\ \E n \in Buf : start' = [b \in 1..n |-> "none"]
          /\ v4l2_buf' = "valid" /\ pc' = "querybuf" /\ UNCHANGED ret
       \/ /\ Fails("reqbufs") /\ Gives(0)
          /\ v4l2_buf' = "null" /\ UNCHANGED start
    /\ UNCHANGED <<up, fd, unit, img, crashed, driverVars>>

(* mmap reports failure by MAP_FAILED, the code looks for NULL: it takes a *)
(* failed mapping for an address.                                          *)
v4l2_mmap ==
    /\ Goes("mmap", "qbuf_all")
    /\ start' \in [Granted -> {"mapped"} \cup (IF Fails("mmap") THEN {"failed"} ELSE {})]
    /\ ret' = 0
    /\ UNCHANGED <<up, fd, v4l2_buf, unit, img, crashed, driverVars>>

(* All buffers to the driver, in their order; one refused is an assert(0). *)
v4l2_qbuf_all ==
    /\ pc = "qbuf_all"
    /\ \/ /\ queued' = [b \in Granted |-> b]
          /\ pc' = "streamon" /\ ret' = 0 /\ UNCHANGED crashed
       \/ /\ Fails("qbuf_all") /\ Gives(-1)
          /\ crashed' = "abort" /\ UNCHANGED queued
    /\ UNCHANGED <<up, memVars, img, streaming, dma, done, content, shot>>

(* Mutant: the result of VIDIOC_STREAMON is not looked at. *)
StreamonUnchecked ==
    /\ pc = "streamon" /\ pc' = "idle" /\ ret' = 0
    /\ \/ streaming' = TRUE
       \/ Fails("streamon") /\ UNCHANGED streaming
    /\ UNCHANGED <<up, memVars, img, crashed, queued, dma, done, content, shot>>

(* The poll that ends v4l2_streamon may time out with the stream on. *)
v4l2_streamon ==
    /\ pc = "streamon"
    /\ \/ streaming' = TRUE /\ pc' = "poll_first" /\ UNCHANGED ret
       \/ Fails("streamon") /\ Gives(-1) /\ UNCHANGED streaming
    /\ UNCHANGED <<up, memVars, img, crashed, queued, dma, done, content, shot>>

(* poll: readable when a buffer is filled; at once, with an error event,   *)
(* when the stream is off; never on a closed descriptor.                   *)
Ready == fd /\ (~streaming \/ done # <<>>)

poll_first == /\ pc = "poll_first"
              /\ \/ Ready /\ Gives(0)
                 \/ Fails("poll") /\ Gives(-1)
              /\ UNCHANGED <<up, memVars, img, crashed, driverVars>>

-----------------------------------------------------------------------------
(* capture; main.cc calls it whatever v4l2_init returned *)

call_capture == /\ up /\ Goes("idle", "poll")
                /\ img' = <<>>
                /\ UNCHANGED <<ret, up, memVars, crashed, driverVars>>

(* A poll that does not come back within 10 s fails: that is all it can do *)
(* on a closed descriptor, or when the driver has no buffer to fill.       *)
Starved == streaming /\ queued = <<>> /\ dma = 0 /\ done = <<>>

v4l2_poll == /\ pc = "poll"
             /\ \/ Ready /\ pc' = "dqbuf"
                \/ (Fails("poll") \/ ~fd \/ Starved) /\ pc' = "idle"
             /\ UNCHANGED <<ret, up, memVars, img, crashed, driverVars>>

(* Mutant: the buffer goes back to the driver before it is copied. *)
RequeueFirst ==
    /\ pc = "dqbuf" /\ streaming /\ done # <<>>
    /\ unit' = Head(done) /\ done' = Tail(done)
    /\ queued' = Append(queued, Head(done))
    /\ pc' = "copy"
    /\ UNCHANGED <<ret, up, fd, v4l2_buf, start, img, crashed,
                   streaming, dma, content, shot>>

v4l2_dqbuf ==
    /\ pc = "dqbuf"
    /\ \/ /\ streaming /\ done # <<>>
          /\ unit' = Head(done) /\ done' = Tail(done)
          /\ pc' = "copy"
       \/ /\ ~streaming \/ Fails("dqbuf")
          /\ pc' = "idle" /\ UNCHANGED <<unit, done>>
    /\ UNCHANGED <<ret, up, fd, v4l2_buf, start, img, crashed,
                   streaming, queued, dma, content, shot>>

(* Mutant: each turn copies the whole buffer. *)
CopyTwice == /\ Goes("copy", IF img = <<>> THEN "copy" ELSE "qbuf")
             /\ IF start[unit] = "mapped"
                THEN img' = img \o content[unit] /\ UNCHANGED crashed
                ELSE crashed' = "fault" /\ UNCHANGED img
             /\ UNCHANGED <<ret, up, memVars, driverVars>>

(* memcpy, one half at a time. *)
copy == /\ Goes("copy", IF img = <<>> THEN "copy" ELSE "qbuf")
        /\ IF start[unit] = "mapped"
           THEN img' = Append(img, content[unit][Len(img) + 1]) /\ UNCHANGED crashed
           ELSE crashed' = "fault" /\ UNCHANGED img
        /\ UNCHANGED <<ret, up, memVars, driverVars>>

(* Mutant: the buffer is kept. *)
KeepBuffer == /\ Goes("qbuf", "idle")
              /\ UNCHANGED <<ret, up, memVars, img, crashed, driverVars>>

(* A buffer the driver does not take back is out of the ring for good, and *)
(* so is the picture: only the record that points to it is freed.          *)
v4l2_qbuf ==
    /\ Goes("qbuf", "idle")
    /\ \/ queued' = Append(queued, unit) /\ UNCHANGED img
       \/ Fails("qbuf") /\ UNCHANGED queued /\ img' = <<>>
    /\ UNCHANGED <<ret, up, memVars, crashed, streaming, dma, done, content, shot>>

-----------------------------------------------------------------------------
(* v4l2_deinit, for a camera v4l2_init said was on *)

call_deinit == /\ "deinit" \in may /\ up /\ ret = 0 /\ Goes("idle", "streamoff")
               /\ UNCHANGED <<ret, up, memVars, img, crashed, driverVars>>

v4l2_streamoff ==
    /\ pc = "streamoff"
    /\ \/ /\ streaming' = FALSE /\ queued' = <<>> /\ dma' = 0 /\ done' = <<>>
          /\ pc' = "munmap" /\ UNCHANGED ret
       \/ Fails("streamoff") /\ Gives(-1) /\ UNCHANGED <<streaming, queued, dma, done>>
    /\ UNCHANGED <<up, memVars, img, crashed, content, shot>>

(* munmap of every buffer. *)
v4l2_munmap ==
    /\ Goes("munmap", "relbufs")
    /\ IF v4l2_buf = "valid"
       THEN start' = [b \in Granted |-> "none"] /\ UNCHANGED crashed
       ELSE crashed' = "fault" /\ UNCHANGED start
    /\ UNCHANGED <<ret, up, fd, v4l2_buf, unit, img, driverVars>>

(* The two blocks are freed; the static pointer to them stays.             *)
v4l2_relbufs ==
    /\ Goes("relbufs", "close")
    /\ v4l2_buf' = "freed" /\ ret' = 0
    /\ UNCHANGED <<up, fd, start, unit, img, crashed, driverVars>>

(* Mutant: the descriptor, and with it the camera, stays up. *)
NotClosed ==
    /\ pc = "close" /\ Gives(0)
    /\ UNCHANGED <<up, memVars, img, crashed, driverVars>>

(* What close returns is not looked at: the descriptor is gone anyway.     *)
v4l2_close ==
    /\ pc = "close" /\ Gives(0)
    /\ fd' = FALSE /\ up' = FALSE
    /\ UNCHANGED <<v4l2_buf, start, unit, img, crashed, driverVars>>

-----------------------------------------------------------------------------
(* The driver: takes the first queued buffer, fills one half, then the     *)
(* other, and hands it over.                                               *)

Fill(b, half) == content' = [content EXCEPT ![b][half] = shot]

fill_begin == /\ streaming /\ dma = 0 /\ queued # <<>>
              /\ dma' = Head(queued) /\ queued' = Tail(queued)
              /\ Fill(Head(queued), 1)
              /\ UNCHANGED <<pc, ret, up, memVars, img, crashed, streaming, done, shot>>

fill_end == /\ dma # 0
            /\ Fill(dma, 2)
            /\ done' = Append(done, dma) /\ dma' = 0
            /\ shot' = (shot + 1) % Shots
            /\ UNCHANGED <<pc, ret, up, memVars, img, crashed, streaming, queued>>

-----------------------------------------------------------------------------
Open    == call_init \/ v4l2_open \/ query \/ v4l2_reqbufs \/ v4l2_mmap
           \/ v4l2_qbuf_all \/ v4l2_streamon \/ poll_first
Capture == call_capture \/ v4l2_poll \/ v4l2_dqbuf \/ copy \/ v4l2_qbuf
Deinit  == call_deinit \/ v4l2_streamoff \/ v4l2_munmap \/ v4l2_relbufs \/ v4l2_close
Driver  == fill_begin \/ fill_end

Running == crashed = "no"
Next == /\ Running /\ (Open \/ Capture \/ Deinit \/ Driver)
        /\ UNCHANGED may

(* The thread runs, the sensor delivers, and a loop like main.cc's calls   *)
(* capture again.                                                          *)
Fairness == /\ WF_vars(Running /\ (Open \/ Capture) /\ UNCHANGED may)
            /\ WF_vars(Running /\ Driver /\ UNCHANGED may)

Spec == Init /\ [][Next]_vars /\ Fairness

-----------------------------------------------------------------------------
Pcs == {"idle", "open", "reqbufs", "mmap", "qbuf_all", "streamon", "poll_first", "poll",
        "dqbuf", "copy", "qbuf", "streamoff", "munmap", "relbufs", "close"} \cup DOMAIN After

TypeOK ==
    /\ may \in Scenarios /\ pc \in Pcs /\ ret \in {-1, 0} /\ up \in BOOLEAN /\ fd \in BOOLEAN
    /\ v4l2_buf \in {"null", "valid", "freed"}
    /\ Granted \in SUBSET Buf /\ \A b \in Granted : start[b] \in {"none", "mapped", "failed"}
    /\ unit \in Buf \cup {0} /\ img \in Seq(0..(Shots - 1)) /\ Len(img) <= 2
    /\ crashed \in {"no", "abort", "fault"} /\ streaming \in BOOLEAN
    /\ queued \in Seq(Buf) /\ done \in Seq(Buf) /\ dma \in Buf \cup {0}
    /\ content \in [Buf -> (0..(Shots - 1)) \X (0..(Shots - 1))]
    /\ shot \in 0..(Shots - 1)

(* Who has buffer b, each holder once for every time it has it. *)
Times(b, s) == Cardinality({i \in DOMAIN s : s[i] = b})
Holders(b) == Times(b, queued) + Times(b, done)
              + (IF dma = b THEN 1 ELSE 0)
              + (IF unit = b /\ pc \in {"copy", "qbuf"} THEN 1 ELSE 0)

(* A buffer is the driver's or the thread's, never both and never twice in *)
(* the driver's queues, whatever call fails and however often the camera   *)
(* is stopped and started.                                                 *)
OneHolder == \A b \in Buf : Holders(b) <= 1 /\ (Holders(b) = 1 => b \in Granted)

(* A picture is one frame: the driver does not write the buffer while it   *)
(* is copied.                                                              *)
PictureWhole == Len(img) = 2 => img[1] = img[2]

(* When v4l2_init has returned 0 the stream is on, and no call follows an  *)
(* address that mmap or malloc did not give, through failures of any other *)
(* call and any number of stops and starts.  It does not hold where open   *)
(* fails (ret is what was on the stack), where reqbufs does (its failure   *)
(* is not returned) or where mmap does (MAP_FAILED is not NULL).           *)
InitHonest == may \cap {"open", "reqbufs", "mmap"} = {} =>
                  /\ pc = "idle" /\ up /\ ret = 0 => streaming
                  /\ crashed # "fault"

(* Once the camera is up and nothing fails pictures keep coming: the ring  *)
(* gets every buffer back and never runs dry.                              *)
PicturesKeepComing == (may = {}) => (streaming ~> []<>(Len(img) = 2 /\ pc = "idle"))
=============================================================================
