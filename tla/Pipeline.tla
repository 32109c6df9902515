------------------------------ MODULE Pipeline ------------------------------
(***************************************************************************)
(* The two threads of src/main.cc.  The camera thread captures a frame and *)
(* puts its img_str record (the pointer to the pixels and their size) into *)
(* the byte queue, the main thread takes records out, runs the model on    *)
(* the pixels and frees them.  The mutex g_mtx guards the queue; inside it *)
(* the copy loops of static_q.cpp advance one byte per step.               *)
(***************************************************************************)
EXTENDS Integers, Sequences

CONSTANTS Frame,          \* names of pixel buffers, reused when one is gone
          NoFrame,        \* the NULL pointer
          RecLen,         \* sizeof(img_str)
          QSize,          \* Q_SIZE
          StartAfterInit, \* main's loop is reached only after queue_init
          CaptureMayFail  \* capture() may return NULL

ASSUME PipelineAssumption ==
    /\ RecLen \in Nat \ {0} /\ QSize \in Nat \ {0, 1}
    /\ QSize % RecLen = 0
    /\ NoFrame \notin Frame
    /\ StartAfterInit \in BOOLEAN /\ CaptureMayFail \in BOOLEAN

VARIABLES cam, main, \* where each thread is
          crashed,   \* a NULL or garbage pointer was followed
          g_mtx,     \* 1 while locked
          g_q,       \* the queue's storage
          q_entity,  \* the queue's size, head, tail, len
          img, sent, ret, \* camera: its frame, bytes stored, queue_in's result
          rec, want, \* main: the bytes taken, and how many to take
          heap       \* of each pixel buffer: free, live, or lost

camVars  == <<cam, img, sent, ret>>
mainVars == <<main, rec, want>>
qVars    == <<g_q, q_entity>>
vars     == <<camVars, mainVars, qVars, crashed, g_mtx, heap>>

Record(f) == [k \in 1..RecLen |-> <<f, k>>]
Blank     == <<NoFrame, 0>>
Byte      == (Frame \X (1..RecLen)) \cup {Blank}

Init == /\ cam = "mutex_init" /\ main = "session_init"
        /\ crashed = FALSE
        /\ g_mtx = 0
        /\ g_q = [i \in 0..(QSize - 1) |-> Blank]
        /\ q_entity = [size |-> 0, head |-> 0, tail |-> 0, len |-> 0]
        /\ img = NoFrame /\ sent = 0 /\ ret = 0
        /\ rec = <<>> /\ want = 0
        /\ heap = [f \in Frame |-> "free"]

-----------------------------------------------------------------------------
(* camera_phread *)

CamGoes(from, to) == cam = from /\ cam' = to

mutex_init == /\ CamGoes("mutex_init", "queue_init")
              /\ g_mtx' = 0
              /\ UNCHANGED <<mainVars, qVars, crashed, heap, img, sent, ret>>

(* v4l2_init, which follows, touches nothing of this module. *)
queue_init == /\ CamGoes("queue_init", "capture")
              /\ q_entity' = [size |-> QSize, head |-> 0, tail |-> 0, len |-> 0]
              /\ UNCHANGED <<mainVars, g_q, crashed, g_mtx, heap, img, sent, ret>>

(* capture() copies a driver buffer to a new pixel buffer, or gives NULL. *)
capture == /\ CamGoes("capture", "lock")
           /\ \/ \E f \in Frame : /\ heap[f] # "live"
                                  /\ img' = f
                                  /\ heap' = [heap EXCEPT ![f] = "live"]
              \/ /\ CaptureMayFail
                 /\ img' = NoFrame
                 /\ UNCHANGED heap
           /\ UNCHANGED <<mainVars, qVars, crashed, g_mtx, sent, ret>>

(* Mutant: the thread does not wait for the mutex. *)
LockUnasked == /\ CamGoes("lock", "queue_in")
               /\ g_mtx' = 1
               /\ UNCHANGED <<mainVars, qVars, crashed, heap, img, sent, ret>>

camera_lock == /\ CamGoes("lock", "queue_in")
               /\ g_mtx = 0 /\ g_mtx' = 1
               /\ UNCHANGED <<mainVars, qVars, crashed, heap, img, sent, ret>>

(* Mutant: a record that would just fill the queue is refused. *)
RefuseLast ==
    LET code == IF img = NoFrame THEN -1
                ELSE IF RecLen >= q_entity.size - q_entity.len THEN -3 ELSE 0
    IN  /\ CamGoes("queue_in", IF code = 0 THEN "store" ELSE "unlock")
        /\ ret' = code
        /\ sent' = 0
        /\ heap' = IF code < -1 THEN [heap EXCEPT ![img] = "lost"] ELSE heap
        /\ UNCHANGED <<mainVars, qVars, crashed, g_mtx, img>>

(* The tests before the loop.  A refused frame's pixels are never freed:   *)
(* the thread goes on to free only the record that points to them.         *)
queue_in ==
    LET code == IF img = NoFrame THEN -1
                ELSE IF q_entity.len >= q_entity.size THEN -2
                ELSE IF RecLen > q_entity.size - q_entity.len THEN -3 ELSE 0
    IN  /\ CamGoes("queue_in", IF code = 0 THEN "store" ELSE "unlock")
        /\ ret' = code
        /\ sent' = 0
        /\ heap' = IF code < -1 THEN [heap EXCEPT ![img] = "lost"] ELSE heap
        /\ UNCHANGED <<mainVars, qVars, crashed, g_mtx, img>>

(* One iteration of the loop of queue_in. *)
store ==
    /\ cam = "store"
    /\ IF q_entity.len >= q_entity.size
       THEN /\ cam' = "unlock"
            /\ ret' = -4
            /\ heap' = [heap EXCEPT ![img] = "lost"]
            /\ UNCHANGED <<qVars, sent>>
       ELSE /\ cam' = IF sent + 1 = RecLen THEN "unlock" ELSE "store"
            /\ sent' = sent + 1
            /\ g_q' = [g_q EXCEPT ![q_entity.tail] = Record(img)[sent + 1]]
            /\ q_entity' = [q_entity EXCEPT !.tail = (@ + 1) % q_entity.size,
                                            !.len = @ + 1]
            /\ UNCHANGED <<ret, heap>>
    /\ UNCHANGED <<mainVars, crashed, g_mtx, img>>

camera_unlock == /\ CamGoes("unlock", "report")
                 /\ g_mtx' = 0
                 /\ UNCHANGED <<mainVars, qVars, crashed, heap, img, sent, ret>>

(* Mutant: the thread frees the pixels with the record. *)
ReportFreesPixels == /\ CamGoes("report", "capture")
                     /\ crashed' = (img = NoFrame)
                     /\ heap' = IF img = NoFrame THEN heap ELSE [heap EXCEPT ![img] = "free"]
                     /\ img' = NoFrame
                     /\ UNCHANGED <<mainVars, qVars, g_mtx, sent, ret>>

(* The printf reads img->ptr; then usleep and free of the record. *)
report == /\ CamGoes("report", "capture")
          /\ crashed' = (img = NoFrame)
          /\ img' = NoFrame
          /\ UNCHANGED <<mainVars, qVars, g_mtx, heap, sent, ret>>

-----------------------------------------------------------------------------
(* main and quickrun_capture *)

MainGoes(from, to) == main = from /\ main' = to

(* session_init loads the model, for seconds; set_user_cb follows. *)
session_init == /\ MainGoes("session_init", "lock")
                /\ StartAfterInit => cam \notin {"mutex_init", "queue_init"}
                /\ UNCHANGED <<camVars, qVars, crashed, g_mtx, heap, rec, want>>

(* Mutant: quickrun_capture without its lock. *)
NoLock == /\ MainGoes("lock", "queue_out")
          /\ g_mtx' = 1
          /\ UNCHANGED <<camVars, qVars, crashed, heap, rec, want>>

main_lock == /\ MainGoes("lock", "queue_out")
             /\ g_mtx = 0 /\ g_mtx' = 1
             /\ UNCHANGED <<camVars, qVars, crashed, heap, rec, want>>

(* The tests before the loop of queue_out. *)
queue_out ==
    LET n == IF q_entity.len < RecLen THEN q_entity.len ELSE RecLen
    IN  /\ MainGoes("queue_out", IF n = 0 THEN "unlock" ELSE "fetch")
        /\ want' = n
        /\ UNCHANGED <<camVars, qVars, crashed, g_mtx, heap, rec>>

(* Mutant: head runs on past the end of the storage. *)
FetchNoWrap ==
    /\ MainGoes("fetch", IF Len(rec) + 1 = want THEN "unlock" ELSE "fetch")
    /\ rec' = Append(rec, g_q[q_entity.head])
    /\ q_entity' = [q_entity EXCEPT !.head = @ + 1, !.len = @ - 1]
    /\ UNCHANGED <<camVars, g_q, crashed, g_mtx, heap, want>>

(* One iteration of the loop of queue_out. *)
fetch ==
    /\ MainGoes("fetch", IF Len(rec) + 1 = want THEN "unlock" ELSE "fetch")
    /\ rec' = Append(rec, g_q[q_entity.head])
    /\ q_entity' = [q_entity EXCEPT !.head = (@ + 1) % q_entity.size,
                                    !.len = @ - 1]
    /\ UNCHANGED <<camVars, g_q, crashed, g_mtx, heap, want>>

(* Mutant: an empty queue is left with the mutex locked. *)
UnlockIfTaken == /\ MainGoes("unlock", IF rec = <<>> THEN "lock" ELSE "work")
                 /\ g_mtx' = IF rec = <<>> THEN g_mtx ELSE 0
                 /\ UNCHANGED <<camVars, qVars, crashed, heap, rec, want>>

(* Mutant: the mutex is given back on the way that sleeps only. *)
UnlockIfEmpty == /\ MainGoes("unlock", IF rec = <<>> THEN "lock" ELSE "work")
                 /\ g_mtx' = IF rec = <<>> THEN 0 ELSE g_mtx
                 /\ UNCHANGED <<camVars, qVars, crashed, heap, rec, want>>

(* Nothing taken: the loop sleeps and asks again. *)
main_unlock == /\ MainGoes("unlock", IF rec = <<>> THEN "lock" ELSE "work")
               /\ g_mtx' = 0
               /\ UNCHANGED <<camVars, qVars, crashed, heap, rec, want>>

Whole(bytes) == \E f \in Frame : bytes = Record(f)

(* preprocess, inference and postprocess read the pixels behind the record: *)
(* a torn record is a pointer to anywhere.                                  *)
work == /\ MainGoes("work", "release")
        /\ crashed' = ~(Whole(rec) /\ heap[rec[1][1]] = "live")
        /\ UNCHANGED <<camVars, qVars, g_mtx, heap, rec, want>>

(* Mutant: only the record is freed. *)
ReleaseRecordOnly == /\ MainGoes("release", "lock")
                     /\ rec' = <<>>
                     /\ UNCHANGED <<camVars, qVars, crashed, g_mtx, heap, want>>

(* free of the pixels, then of the record. *)
release == /\ MainGoes("release", "lock")
           /\ heap' = [heap EXCEPT ![rec[1][1]] = "free"]
           /\ crashed' = (heap[rec[1][1]] # "live")
           /\ rec' = <<>>
           /\ UNCHANGED <<camVars, qVars, g_mtx, want>>

-----------------------------------------------------------------------------
Camera == \/ mutex_init \/ queue_init \/ capture \/ camera_lock \/ queue_in
          \/ store \/ camera_unlock \/ report
Main   == \/ session_init \/ main_lock \/ queue_out \/ fetch \/ main_unlock
          \/ work \/ release

Next == ~crashed /\ (Camera \/ Main)

(* Threads are never starved of the processor.  The camera sleeps 25 ms of *)
(* every round outside the mutex, so a main that waits for it gets it.     *)
Fairness == /\ WF_vars(~crashed /\ Camera)
            /\ WF_vars(~crashed /\ Main)
            /\ SF_vars(~crashed /\ main_lock)
            /\ SF_vars(~crashed /\ camera_lock)

Spec == Init /\ [][Next]_vars /\ Fairness

-----------------------------------------------------------------------------
CamPcs  == {"mutex_init", "queue_init", "capture", "lock", "queue_in",
            "store", "unlock", "report"}
MainPcs == {"session_init", "lock", "queue_out", "fetch", "unlock", "work", "release"}

TypeOK ==
    /\ cam \in CamPcs /\ main \in MainPcs
    /\ crashed \in BOOLEAN /\ g_mtx \in {0, 1}
    /\ g_q \in [0..(QSize - 1) -> Byte]
    /\ q_entity \in [size : {0, QSize}, head : 0..(QSize - 1),
                     tail : 0..(QSize - 1), len : 0..QSize]
    /\ img \in Frame \cup {NoFrame} /\ sent \in 0..RecLen /\ ret \in -4..0
    /\ rec \in Seq(Byte) /\ want \in 0..RecLen
    /\ heap \in [Frame -> {"free", "live", "lost"}]

CamIn  == cam \in {"queue_in", "store", "unlock"}
MainIn == main \in {"queue_out", "fetch", "unlock"}

(* The queue is one thread's at a time, although the mutex is initialised  *)
(* by one of the two threads that use it.                                  *)
MutualExclusion == ~(CamIn /\ MainIn)

(* What the ring holds, oldest byte first, and with it what main has taken *)
(* of a record it is in the middle of.                                     *)
Stored  == [i \in 1..q_entity.len |-> g_q[(q_entity.head + i - 1) % QSize]]
Waiting == (IF main = "fetch" THEN rec ELSE <<>>) \o Stored

Chan == [i \in 1..(Len(Waiting) \div RecLen) |-> Waiting[(i - 1) * RecLen + 1][1]]
Hand == IF main \in {"unlock", "work", "release"} /\ rec # <<>> THEN rec[1][1] ELSE NoFrame

(* Whenever no thread is inside the queue it holds whole records, and so   *)
(* does main outside the queue: no interleaving of the byte loops tears    *)
(* one, as a queue_out that takes what there is of a record would.         *)
WholeRecords ==
    /\ ~CamIn /\ ~MainIn =>
          /\ q_entity.len % RecLen = 0
          /\ \A i \in DOMAIN Chan :
                 SubSeq(Stored, (i - 1) * RecLen + 1, i * RecLen) = Record(Chan[i])
    /\ main \in {"work", "release"} => Whole(rec)

(* Pixels a queued or held record points to are allocated, and no two      *)
(* records share them: neither thread frees what the other will follow.    *)
NoDangling ==
    /\ \A i \in DOMAIN Chan : heap[Chan[i]] = "live" /\ Chan[i] # Hand
    /\ \A i, j \in DOMAIN Chan : Chan[i] = Chan[j] => i = j
    /\ Hand # NoFrame => heap[Hand] = "live"

(* Neither the interleaving of the byte loops nor the frees of the two     *)
(* threads spoil a record that is queued or in main's hand.                *)
SoundRecords == WholeRecords /\ NoDangling

(* Live pixels can be reached from the camera, the queue or main: memory   *)
(* is lost with a refused frame only.                                      *)
NothingForgotten ==
    \A f \in Frame : heap[f] = "live" =>
        \/ f = Hand \/ (\E i \in DOMAIN Chan : Chan[i] = f)
        \/ img = f /\ cam \in {"lock", "queue_in", "store"}

Channel == INSTANCE FrameChannel WITH
    chan <- Chan, hand <- Hand, lost <- {f \in Frame : heap[f] = "lost"},
    Capacity <- QSize \div RecLen

(* Frames reach main in the order of their capture, each at most once, and *)
(* one is refused only when the queue is full.                             *)
IsChannel == Channel!Spec

(* README.md: the queue prevents frame loss. *)
NoFrameLoss == \A f \in Frame : heap[f] # "lost"

(* Nothing but a capture that failed ends the program: neither thread      *)
(* follows a record that is torn or whose pixels are gone.                 *)
OnlyNullCrashes == crashed => ret = -1 /\ cam = "capture"

(* Every frame the queue takes is worked on and freed, and the camera is   *)
(* never locked out for good by a main that polls an empty queue.          *)
QueuedIsFreed ==
    \A f \in Frame : (\E i \in DOMAIN Chan : Chan[i] = f) ~> (heap[f] = "free" \/ crashed)
CameraGoesOn  == []<>(cam = "capture" \/ crashed)

(* As long as the program runs both threads get on, although they compete  *)
(* for one mutex without a condition variable.                             *)
BothGoOn == QueuedIsFreed /\ CameraGoesOn
=============================================================================
