# quickrun: a TLA+ verification development

quickrun is a C/C++ program for the RK3588: a camera thread captures JPEG
pictures, a queue carries them to the main thread, which decodes each one in
hardware, runs a YOLOv5 model on it through the RKNN library and reports the
objects found. This directory holds TLA+ modules translated from its source,
TLC configurations that model-check them and proofs that TLAPS checks.
Paths such as `main.cc:112` are relative to `src/`.

## The system

| component | files | state | operations |
|---|---|---|---|
| byte queue | `queue/static_q.cpp` | storage, `size`, `head`, `tail`, `len` | init, erase, len, in, out, preview, delete |
| frame pipeline | `main.cc` | `g_q`, `q_entity`, `g_mtx`, each thread's frame | `camera_phread`, `quickrun_capture`, `main` |
| camera | `libv4l2/capture.cpp`, `libv4l2/v4l2_wrap.cpp` | `fd`, `v4l2_buf`, `v4l2_buf_unit`, the driver's buffers and controls | `v4l2_init`, `capture`, `v4l2_deinit`, `set_exposure`, the wrappers of controls and parameters |
| inference session | `kernel/src/core.cpp` | `session_str`: RKNN context, attributes, buffers, images, callback | `session_init`, `set_user_cb`, `preprocess`, `inference`, `postprocess`, `session_deinit` |
| JPEG decoding | `mpp/encode/jpg2yuv.cpp` | command line, three files, buffers and groups, the MPP context, its tasks or packets | `mpp_jpg2yuv`: the option parser, `decode_advanced`, `decode_simple` |
| post-processing | `kernel/src/postprocess.cpp` | candidate boxes, their order, the result group, the static labels | `post_process`, `deinitPostProcess` |
| MPP utilities | `mpp/encode/utils.cpp` | files of frames and of checksums, the static stride flags of `fill_image` | `dump_mpp_frame_to_file`, `read_image`, `fill_image`, the checksums, the parsers of names and of ops files |
| USB camera lookup | `getusbdevice/find_usbdevice.cpp` | two walks, each with its working directory, a child process, a shared page | `get_usbdevname`, `check_usbdev` |
| MPP headers | `mpp/encode/mpp_common.h`, `mpp_list.h`, `mpp_thread.h` | linked lists; a lock, a condition and a status per signal of a thread | byte order, rounding and extremes; list operations and loops; lock, wait, signal |

How they interact: the camera thread and main share `g_q` and `q_entity` under
`g_mtx`; what travels is an `img_str`, a pointer and a size, so the ownership of
the pixels crosses the queue with it. `capture` calls the V4L2 driver, which
writes into memory shared with the thread. `preprocess` talks to `mpp_jpg2yuv`
through two files with fixed names, `test.jpeg` and `test.nv12`, which every
session of the directory uses; `mpp_jpg2yuv` talks to the decoder's thread
through two ports of one task each, or through a queue of packets and one of
frames. `postprocess` hands the detections to the user's callback. The labels
are static, shared by all sessions.

What is hard here:

* **Two threads over one byte ring.** The mutex is created by one of its two
  users; a record is 16 bytes moved one by one; `queue_out` gives whatever part
  of a record it finds; whoever frees pixels must be the last to follow them.
* **Result codes nobody reads.** `main` ignores every code of the session, the
  camera thread goes on whatever `v4l2_init` returned and uses a NULL from
  `capture`, `preprocess` ignores the decoder. After a failure the next call
  runs on what the failed one left behind.
* **Memory shared with hardware.** A V4L2 buffer changes hands four times per
  picture; MPP buffers rest on groups, a packet on its buffer.
* **Shared names.** Two files and one set of labels serve every session.
* **Dangling members.** `preprocess` and `postprocess` free blocks the session
  still points to.
* **An index indirection.** After the sort of the boxes a place no longer is a
  box, and the suppression uses both.
* **A stream behind a queue.** Packets are refused while the decoder is full,
  frames come late, in groups, and one of them asks for buffers; the last
  packet's frames must all be waited for, within a timeout and beside a limit.
* **Walks over a tree that changes.** Recursion through the working directory,
  in two processes, while a device may disappear.
* **Strides.** The writer and the reader of a picture have strides of their
  own, and `fill_image` remembers that of an earlier call.

`PROJECT.json` lists each hazard at its line, with the properties that would
catch it going wrong, or the reason why none does: where the code does go wrong a
property has the case as its exception and does not count as covering it.

What makes each component correct:

* byte queue: it is a bounded FIFO of bytes, whatever the order of the calls,
  and refuses a put it cannot store entirely.
* frame pipeline: threads exclude each other; records stay whole; pixels are
  owned by exactly one side; frames arrive in order, at most once; every queued
  frame is eventually worked on and freed; the camera is never locked out.
* camera: no buffer has two holders; a picture is one frame; a 0 from
  `v4l2_init` means a running stream, one from `set_exposure` an exposure that
  was set; pictures keep coming.
* session: nothing is freed twice; the detections drawn on a picture were found
  in it, whatever other sessions do; nothing leaks from turn to turn.
* JPEG decoding: options mean what they say; all is released on every exit, in
  an order that respects what rests on what; `test.nv12` never keeps the picture
  before; a stream's pictures are written in order, each once, as many as asked
  for; the decoding ends.
* post-processing: scores and boxes stay together through the sort; the
  suppression is the greedy one; the report is the best of what it keeps, under
  labels that are loaded.
* MPP utilities: a picture read from a file is the one written to it; a checksum
  sees every sample and no padding; a test picture has the documented layout.
* USB lookup: it finds the first camera with the ids and its first name of the
  type asked for, wherever the chunks of a file cut it, and returns.
* MPP headers: loops visit each node once, deletions included; what a wait
  changes it restores.

## The modules

| module | models | composition |
|---|---|---|
| `BoundedFifo` | what the queue promises: a FIFO of bytes that may be refused | abstract |
| `StaticQ` | `static_q.cpp`, one action per call | implements `BoundedFifo` (`IsFifo`) |
| `FrameChannel` | what `main.cc` wants of the queue: a FIFO of frames, a full one loses the new frame | abstract |
| `Pipeline` | both threads of `main.cc`, and inside the mutex the loops of `queue_in` and `queue_out` byte by byte | implements `FrameChannel` (`IsChannel`) |
| `V4l2Capture` | `v4l2_init`, `capture`, `v4l2_deinit`, one action per wrapper call, and the driver | |
| `CameraControls` | `set_exposure` and the wrappers of controls and parameters | extends `V4l2Capture` with a second caller |
| `Session` | `core.cpp` and the loop of `main.cc` that drives it, beside other sessions | uses of `MppDecode` what it leaves in `test.nv12` |
| `DecOptions` | the option parser of `jpg2yuv.cpp`, the names and codings of `utils.cpp` | |
| `DecodeSimple` | `decode_simple`, packet by packet, and the decoder | extends `DecOptions` |
| `MppDecode` | `mpp_jpg2yuv`, one action per acquisition, release and port call, with `decode_advanced` | extends `DecodeSimple`: one program |
| `PostProcess` | `post_process` from the choice of cells to the report, and the labels | uses `Quantise` |
| `Quantise` | the 8-bit threshold | |
| `PixelFormats` | where each format puts a pixel: colours, planes, alignments | |
| `MppCommon` | bytes, rounding, clipping and exclusive or, the macros of `mpp_common.h` that others use | |
| `FrameFiles` | a client of `utils.cpp`: frames, their files and checksums | extends `PixelFormats`, which extends `MppCommon` |
| `UsbScan` | `find_usbdevice.cpp`, parent and child, and unplugging | |
| `MppBytes`, `MppList`, `MppThread` | the three MPP headers | for theorems only |
| `StaticQProofs`, `PipelineProofs`, `CameraProofs`, `SessionProofs`, `DecodeProofs`, `PostProcessProofs`, `UsbProofs` | theorems | each extends the module it is about |
| `MppProofs` | theorems on the frames of `utils.cpp` and on the MPP headers | extends `FrameFiles` and `MppBytes`, with instances of `MppList` and `MppThread` |
| `MC*` | constants and scenarios for TLC | |

State and actions keep the source's names. A variable `pc` (`cam` and `main` in
`Pipeline`) is the call a thread is in. Definitions commented `Mutant:` are
deliberate faults, used only to see that a property notices them.

**StaticQ.** A call runs to its end in one action, as the API's users serialise
the calls. Its copy loop is written in closed form (`Turn`, `Read`); `Pipeline`
has the loops iteration by iteration. `uint32_t` is `Word`, so that the sum
`offset + len` of `queue_preview` wraps; `x % 0`, which the code computes before
`queue_init`, is `x`, as the AArch64 `udiv` makes it. `reply` is what the
call returned, for the refinement.

**Pipeline.** `heap` says of each pixel buffer whether it is free, live or lost;
`rec` holds the bytes main took; `crashed` is a NULL or dangling pointer
followed. A thread's test-then-act sequences are separate steps, so a missing
lock shows. `StartAfterInit` is the assumption that loading the model takes
longer than the first lines of the camera thread.

**V4l2Capture, CameraControls.** The driver fills a buffer in two halves and the
thread copies it in two halves, so a shared buffer shows as a mixed picture.
`start` keeps what `mmap` gave, `"failed"` included, as the code takes
`MAP_FAILED` for an address. The controls belong to a second caller, since
`v4l2_init`'s own call of `set_exposure` is commented out: its ioctls come
between those that start and stop the camera. `told` is what the last call
returned and filled in.

**Session.** `mem` says of each pointer whether it is NULL, live, freed or never
set; `misuse` collects bad accesses, and the program is taken to go on after a
freed one only. The picture's number is followed through `test.nv12`, the image,
the network's input, its result and the outputs to the report. `other_session`
writes either file at any time; `meddled` remembers that it did so between this
session's `save_file` and `get_file`.

**DecOptions, DecodeSimple, MppDecode.** The program calls the parser with a
constant command line, which leads to `decode_advanced`; the options and
`decode_simple` are reached by the other lines of the run. All of them name an
input. In `decode_advanced` a task is at its port, with the user, with the
decoder, ready, or lost by a failed enqueue. In `decode_simple` a byte of the
stream is a picture, a packet is a run of pictures, and a line of an ops file a
sequence of its words; a line that does not parse leaves the command of the
stack's `OpsLine` as it was, so it stands for either of what may be found there, `rst`
or nothing. A line with one number, of which the code would use a value that `sscanf`
never set, is not among them. The decoder, external, may mark
the last picture or give an empty frame after it, and asks for buffers before a
picture of a new size. `gave_up` remembers that a frame of the last packet was
not waited for.

**PostProcess.** Scores are the small integers their quantised values are; of two
boxes only whether their overlap is above the threshold is kept, and every set
of overlaps is tried. The recursion of the sort is a stack of calls. The labels
are loaded by the first session that detects something, step by step, with
another session doing the same; a file may be short, long or empty.

**PixelFormats, FrameFiles.** Memory is a partial function from addresses to
bytes, so that padding nobody wrote can be told from a pixel. A walk over a
frame is a sequence of planes, and `Raster` lists its addresses. A disk may fill
up, and get room again in the middle of a dump, whose later rows then follow
where it was cut (`torn`); a file may come from elsewhere. A pixel and a 32-bit word that is only
xored are sets of bits (a number of 32 bits would be beyond TLC); the sums of a
checksum wrap at `Modulus`, 2^32 in the code. `FrameAssumption` says of the
geometries that width, height and stride are even and that rows, and planes, do
not overlap: the loops over chroma halve all three, and what becomes of an odd one is
not modelled; a luma row longer than its stride is not one a decoder gives.

**UsbScan.** The two recursive walks are stacks of directories with the place in
each; `cwd` and `childcwd` are the working directories in which entries are
looked up. `read_devname` keeps its buffer, its place in the file and the
overlap of a key, chunk by chunk. A buffer that a read filled has no NUL, and `strstr`
and `strchr` (`find_usbdevice.cpp:67`, 74, 97) search on behind it: `behind` is
what lies there, nothing before a NUL, a newline, or a line of another name,
and what a search finds in it moves the place in the file, or is the name
(`Searched`). The child leaves the name in `page`. A failed `read` of a
device's ids ends the program, a failed `open` makes it another device. A name stands
for its place in the file system, so no two directories have the same one (`IsTree`).

**MppBytes, MppList, MppThread.** Macros and inline functions as operators on
integers, sequences of bytes, and the pointers of list nodes. A loop over a list
is a state (the node, the one after, the nodes seen); its body may delete the
node it visits. `MppThread` has one signal's recursive lock, condition and
status; wakeups may be spurious. No caller of these headers is in the
repository, so they are in no run: what there is to say of them is said for
every instance, by theorems.

**Scenarios.** `V4l2Capture`, `Session`, `MppDecode` and `PostProcess` have a
choice made at the start and never changed (`may`, the set of calls that may
fail or be made by others in this behaviour). A call in it fails or succeeds
freely, each time. A property that holds only while some call succeeds says so
by a condition on `may`, and one run covers all scenarios.

## The runs

| run | bounds | shows |
|---|---|---|
| `static_q` | rings of 2 and 3 bytes, buffers of 0 to 4, arguments 0 to 5 | `RingShape`, `IsFifo` under any calls |
| `pipeline` | 4 frames, records of 2 bytes, a queue of 2 records, captures that fail | `MutualExclusion`, `SoundRecords`, `NothingForgotten`, `OnlyNullCrashes`, `IsChannel`, `BothGoOn` |
| `v4l2` | 1 or 2 buffers granted, frame numbers modulo 3, 2 tries of the manual mode, 2 exposures, 2 intervals, four scenarios | `OneHolder`, `PictureWhole`, `InitHonest`, `ExposureTold`, `PicturesKeepComing` |
| `session` | 3 pictures, fresh memory zero or not, three scenarios: alone, beside another session, with a tear-down | `FreedOnce`, `FreshReport`, `OnlyPicturesLost` |
| `mpp_decode` | 20 command lines, 3 streams of up to 4 pictures with an error, two changes of size and ops files, packets of 2, queues of 1 and 2, a timeout tried once again, one rewind, five scenarios | `CommandLineKept`, `ReleasedInOrder`, `NeverOld`, `InOrder`, `AsManyAsAsked`, `Ends` |
| `post_process` | 4 cells in 3 heads, scores 0 to 2 around a threshold of 1, two zero points, a limit of 2, all overlaps; label files of 0 to 2 lines, another session | `SortedTogether`, `IsGreedy`, `ReportsBest`, `LabelsKnown` |
| `frame_files` | pictures of 4 by 2 in four geometries, every format, 2 frames, disks of 15 and 100 bytes, files of 7 and 30, sums modulo 300 | `ReadsPictures`, `ChecksumsTell`, `PixelsAsDocumented` |
| `usb_scan` | a hub and two cameras in 53 trees, 4 requests, 2 calls, chunks of 8, keys of 2 | `FindsFirst`, `NeverAstray`, `Returns` |

Each of them also checks the `TypeOK` of its module. The properties are stated
and explained in the modules, with their exceptions.

Why the bounds are enough. A ring of three bytes wraps in the middle of a
buffer, is filled exactly, overfilled and emptied, and the buffer of four is
longer than any ring. Two records fill the queue while a third is in main's hand
and a fourth in the camera's: every combination of owners occurs, with names
reused. Two byte steps per record are the least that can tear. Two V4L2 buffers
let the driver fill one while the thread copies the other; with three frame
numbers a half of the frame before or after differs from the one wanted. Two
tries (5 in the code) leave one refusal that is tried again and one that is the
last. Three pictures tell the one in hand from its neighbours. A packet of two
pictures leaves a short last packet of a stream of three and none of one of four,
where only the empty read shows the end; a queue of one refuses, and two frames
fill while a third is to come; one more try after a timeout (5 in the code)
tells the try from the giving up. Four boxes give the partition both scans,
equal scores, empty sides and a second level of recursion, and the suppression
chains (a drops b, which would have dropped c). Two rows and four columns have a
second row and an even and odd place in it for chroma, and their sums pass 300; the
geometries have row padding, padding rows, and a stride that fits only when taken
in pixels. A chunk of 8 (1024 in the code) is cut by a name of 5 bytes at each
of its places, as 17 offsets move the name through a file of up to 31, and a key
of 2 is cut in its middle; some of these files fill the buffer to its end, with each
of the three contents behind it.

Deadlock checking is off where a behaviour really ends: after a crash
(`pipeline`, `v4l2`), an abort or a tear-down (`session`), after the single
pass of `mpp_decode` and `post_process`, after the last frame of `frame_files`
and the last call of `usb_scan`.

**Fairness.** `Pipeline`: each thread is scheduled (WF on its steps). `SF` on the
two lock steps: the camera sleeps 25 ms outside the mutex in every round and
main does so whenever it found the queue empty, so a waiter meets a free mutex
again and again and takes it at some time. `V4l2Capture`: the thread runs, and
the sensor fills the buffers it is given; `PicturesKeepComing` also takes it that
the caller goes on calling `capture`, as `camera_phread` does. `MppDecode`: the
thread and the decoder go on while they can; a blocked poll, or a wait for a
frame without a timeout, is not bound to fail (`Owed`), so nothing gets unstuck
by a failure. `UsbScan`: the program runs; nothing is bound to be unplugged. The
other modules claim no liveness.

### What the source and its documents disagree on

Four runs end in a counterexample, each for a sentence of the repository:

* `pipeline_race`: `main.cc:112` initialises `g_mtx` in the camera thread. Without
  `StartAfterInit`, main may hold it then, and both threads are in the queue.
* `pipeline_loss`: a full queue drops the frame (`main.cc:121`), against
  README.md:14, and its pixels are never freed.
* `session_release`: `core.cpp:287` releases outputs through an array freed at 258.
* `post_process_classes`: with `OBJ_CLASS_NUM` 2, a parameter README.md says to
  adapt, `postprocess.cpp:118` looks up the class of a place as if it were a box.
  With the one class that is compiled the suppression is right.

The passing properties have exceptions for what the code does not keep; each is
a condition in the property, and its comment names it:

* `main.cc:126` uses the NULL of a failed capture, where `v4l2_wrap.cpp:395`
  speaks of a dropped frame (`OnlyNullCrashes`).
* `v4l2_wrap.cpp:268` compares with NULL what fails with `MAP_FAILED`; a failed
  open or `v4l2_reqbufs` does not reach `v4l2_init`'s result (`InitHonest`).
* `v4l2_s_ctrl` returns the value it set, where `libv4l2.h:290` has 0 for success;
  after the last refusal `set_exposure` sets an exposure that does not count in
  the automatic mode, and returns 0 (`ExposureTold`).
* another session that writes `test.jpeg` or `test.nv12` between this one's
  `save_file` and `get_file` gives it its own picture, where README.md:22 has
  "Three independent threads for three sessions to execute models concurrently
  without interference." (`FreshReport`, `meddled`).
* `session_deinit` after a turn of the loop frees two blocks a second time
  (`FreedOnce`).
* a `test.nv12` that cannot be opened is read as the current picture (`NeverOld`);
  a frame lent by the decoder is kept when giving it buffers fails
  (`ReleasesAll`), and the ops file is never closed.
* the last packet's frames are taken whatever `-n` says (`WithinLimit`), and are
  lost when the decoder is slower than `-x` allows (`NothingLost`).
* a failed enqueue leaves the next poll of its port waiting for ever, and so does
  `-x -1` after the last frame (`Ends`).
* an option without its value, after a good `-t`, is taken for the end of a good
  line (`BadLinesRefused`): `-t` sets the parser's result to 0. For the same
  reason `-f` (`jpg2yuv.cpp:94`) is refused unless a good `-t` came before it.
* the dump and the reader of planar 4:2:0 differ in where V is, when rows pad the
  buffer (`InStep`, whose luma and U come back, as every later picture does); the
  checksum of a frame takes the chroma from such rows (`utils.cpp:230`), so only its
  luma half is stated for them (`CrcSeesPixels`, `CrcTells`).
* `fwrite`'s result is not looked at: when room comes to a full disk in the middle of a
  dump, the file is out of step and pictures read with `MPP_OK` are not
  those written (`InStep` and `CrcTells`, `torn`).
* a stride in bytes after one in pixels is taken in pixels (`PixelsAsDocumented`).
* `check_usbdev` returns -1 where its comment has 1 (`find_usbdevice.cpp:365`, "0:success
  1:fail"): `FindsFirst` says when the result is 0, and not what it is
  otherwise.
* a camera without a name of the type is a success with an empty name, where
  `find_usbdevice.cpp:180` and 314 have -1 for a name that was not got
  (`FindsFirst`, `Nameless`).
* a device found in a directory inside is lost, as the result of the inner walk is dropped
  (`find_usbdevice.cpp:290`), and the search fails where 268 has 0 for success
  (`FindsFirst`, `Overlooked`).
* a file of the camera that fills the buffer is searched beyond its end, and what lies there may
  be taken for the name, or hide it (`FindsFirst`, `Bounded`).
* when a device is unplugged, a walk ends the program, or its child reads for
  ever and the parent waits (`NeverAstray`, `Returns`).
* two threads that wait for one signal of an `MppThread` can lose a status
  (`StatusKept` is proved for one).

Noted without a property: `session_init` mallocs a structure whose members core.h
initialises; a file that does not open makes `mpp_jpg2yuv` report success; every
picture is decoded a second time with an empty packet, as `fread` of exactly the
file's size does not see the end of the file; `get_file` allocates 1 GiB for a
picture; a failed query of an output attribute is overwritten by the next one's
result; `deinitPostProcess` frees labels that no later session loads again; a
v4l2_init that fails half way releases nothing; README.md:71-72 gives `NMS_THRESH`
0.25 and `BOX_THRESH` 0.5 where `postprocess.h` has 0.45 and 0.25.

## The proofs

* `RingShapeHolds` (`StaticQProofs`): for every word size, byte set, buffers
  and sizes up to half a word, every sequence of calls keeps `TypeOK` and
  `RingShape`. Their conjunction `Shape` is inductive by itself; its proof
  goes call by call and rests on lemmas on indices modulo `size` (`Wrap`,
  `ModRange`, `Advance`). The bound on the sizes is needed: above it
  `head + offset` can wrap inside `queue_preview`.
* `StaticQIsFifo` (`StaticQProofs`): under the same assumption `Spec => IsFifo`,
  with the abstract queue read off the cells from `head` on. The step of each call
  maps to the abstract step of the same name; `PutAppends` (what the loop of
  `queue_in` leaves behind is the old content and the buffer) and `ReadSlice` (a
  read is a slice of the content) carry the argument. `Shape` is the invariant it
  needs.
* `QueueType` (`StaticQProofs`): the same invariant gives `TypeOK` alone.
* `MutexWorks` (`PipelineProofs`): with `StartAfterInit`, `MutualExclusion` always
  holds. `MutualExclusion` is not inductive; `LockInv` adds that the mutex is 1
  exactly while a thread is inside and that main has not started while the
  camera thread initialises.
* `PipelineType`: with `StartAfterInit`, `TypeOK` always holds. It needs `QueueInv`
  beside `LockInv`: the bytes `queue_out` still has to take are there, because no
  one else moves `len` meanwhile. So that `head`, `tail` and `len` stay in range
  is a consequence of the exclusion.
* `RecordsStaySound`, `NothingIsForgotten`, `CrashesByNullOnly`
  (`PipelineProofs`): under the same assumption, for any number of frames, length
  of a record and size of the queue. Their invariant is `DataInv`. `Layout` says
  which byte of which record each cell of the ring is, in the middle of either
  loop too; `Owned` gives each pixel buffer its one place. The proof follows both
  byte loops, so it also says that nothing of a record is lost when the ring wraps
  in its middle.
* `PipelineIsChannel`: from `DataInv`, every step of a thread is a step of
  `FrameChannel` or a stutter. A byte moved changes nothing there; the frame goes
  over with the last byte.
* `CameraTypes`, `BufferHasOneHolder`, `PicturesAreWhole`, `InitTellsTruth`,
  `ExposureIsSet` (`CameraProofs`): for any number of buffers and any scenario of
  failing calls, also when the camera is stopped and started again. `CameraInv` is
  inductive; its part `Apart` says where a buffer may be at each place of the
  calls (queued, under the dma, done, in the thread's hand), and `Picture` which
  frame the halves copied so far are of. `ControlInv` follows the tries of
  `set_exposure` beside the first caller's calls.
* `ReportsAreFresh`, `FreesOnce` (`SessionProofs`): for any number of pictures,
  any content of fresh memory, any set of failing calls outside `Needed` and
  any other sessions, in a session that is not torn down, `FreshReport` and
  `FreedOnce` hold. The invariant `Inv` follows the picture in hand from file to
  outputs (`Matches`), as long as nobody meddled with it, and says which
  pointers were set since their last free (`Owns`). `Needed` is what the properties
  rest on: after a failed `imdecode` the old `resize_buf` is freed again, after a
  failed `rknn_inputs_set`, `rknn_run` or opening of `test.nv12` an old picture's
  data is used. `imcheck` is in it as a failing one skips the new outputs array.
* `SessionType`, `OnlyImagesLost`: under any failures, torn down or not, the types
  hold and what is lost is an image, a buffer the release could not find or,
  at the end, `orig_img`.
* `DecodingReleases` (`DecodeProofs`): for any command lines, streams, failing
  calls and sizes of packets and queues. `HoldInv` says what is held at each
  step: a prefix of the acquisitions, then all of them, then what the
  releases have left. That what rests on something is acquired later and released
  earlier is a property of the two orders (`SetupFacts`, `ReleaseFacts`).
* `OldIsNeverRead`, `PicturesInOrder`, `AsManyAsTold`: under the same generality.
  A picture is in the file, in the frame in hand, among the frames that are ready,
  in the decoder's work, in its queue, or in the packet in hand. `RowInv` lines
  these up: there are cuts of the stream between them, so that each part is a
  stretch of pictures that begins behind the one before (`InARow`), through
  refused packets, frames without a picture, changes of size and rewinds.
  `DecodeInv` joins it with the types and with `FlowInv`, which says when the
  last packet has been sent and whose frames are waited for.
* `DecodingTypes`: under the same generality, `TypeOK`. Its deepest part is that the
  output holds no more pictures than `Rewinds + 1` laps of the stream. `CountInv`
  counts them along the row: a number for each frame that is ready and each packet
  in the queue, none above what was read in all laps (`Laps`). `OutputInv` has the
  two turns of `decode_advanced`, which writes one picture in each; `RangeInv` says
  that packets, frames and the decoder's work lie in the file and that the queue
  and the frames stay within the decoder's.
* `CommandIsKept`: for any command line of any length. `ParseInv` says that
  the command agrees with the options read so far, the last of each letter
  counting (`Understood`), and that the parser's result is no success before a
  good `-t`. The property's `Max` is found by a least-number argument.
* `FrameTypesOK` (`MppProofs`): for any geometries, formats, counts, disks and
  files from elsewhere. What a step makes of a memory is a memory: what is painted
  is bytes at addresses, what a read brings is laid over what was there, and a
  checksum's sums stay below `Modulus`. `Types` is inductive; beyond `TypeOK` it
  says of what is in the dumps and that a reader that read nothing is at the start.
* `FrameReads`: `ReadsPictures`, for any geometry of the writer and any
  other of the reader with the same width and height, any number of frames
  and any disk, with the exceptions `InStep` names: of planar 4:2:0 with padding
  rows the V plane does not come back, and nothing is said once the file is `torn`. `FileInv` says what the file holds and where the reader is, in closed
  form: byte `(k - 1) * n + i` of the file is the one at place `i` of the walk
  over dump `k` (`Holds`), as far as the disk had room; after `k` reads the reader is
  at `k * n` or at the end, and what the last read brought lies at the places
  of its own walk (`Reached`). A read that is `MPP_OK` then brought a whole
  picture (`Whole`). (`Holds` and what follows from it are stated while the file is
  not torn.) It remains that two walks over a picture agree: each is told
  plane by plane and sample by sample, as two rows of a plane never overlap
  (`OnePlace`, `RowsApart`) and planes follow each other. That is where the exception
  is found: for planar 4:2:0 the third plane is dumped from behind
  `h / 2` rows of the second and read from a quarter of the buffer further on.
* `FrameChecksums`: `ChecksumsTell`. `CrcInv` adds to `FileInv` that the last
  dump is the frame in hand (`LastDumped`), whose checksum a client writes next; that
  the checksums written are those of the first dumps (`CrcsWritten`); and
  that the one read last is the one at its reader's place, the last of the file
  once that has ended (`CrcRead`). That a checksum sees a sample is a matter of
  its sum: `SumTells` carries a difference in one byte to the end of the sum,
  and `StepShows` through the wrap, for less than 256 is less than `Modulus`.
  That it sees no padding follows from its walks being within the picture
  (`SameCrc`; `SameLumaCrc`, `LumaSees` for the luma alone). For the luma this is so in every
  geometry; the chroma, and so the whole checksum, only in buffers without padding
  rows, with which `calc_frm_crc` does sum padding. A packet is told by the xor alone, its last word filled up with zeros
  included (`PacketTells`).
* `FramePixels`: `PixelsAsDocumented`. Each of the table's functions is proved
  to store the fields its comment shows, bit by bit (`FieldShown` and the lemmas on
  numbers made of three fields), at a stride that is the one the caller means as
  long as the static flags found nothing to correct before; painting rows that do not
  overlap keeps every value (`PaintedAt`). It is an invariant of the step that
  makes the picture, so it needs no strengthening.
* `Extremes`, `Rounds`, `Swaps`, `ReadBack32`, `ReadBack64` (`MppProofs`): what
  the macros of `mpp_common.h` compute for all arguments. `Rounds` rests on
  `Division`; the readers and writers of 16, 24, 32 and 64 bits on the digits of a
  number to the base 256. The macro `MPP_SWAP` by exclusive or is stated with a
  set of bits for a number, as `Bitwise` is recursive.
* `ListLinked`, `ListTells`, `LoopVisits` (`MppProofs`): for any number of nodes,
  additions, deletions and loops in any interleaving keep the ring in the order
  asked for. Each node has a rank, given where it was added (a history); the
  invariant `IInv` says that `next` and `prev` lead from each rank to the nearest
  one (`Ranked`, `Linked`), and that a loop has seen what it has passed and still has
  the rest before it (`Ahead` forward, `Behind` in reverse).
* `StatusNotLost`, `LockComesBack`, `DeadlineValid` (`MppProofs`): for any
  number of threads, of which one waits. A wait that is over left the status as
  `set_status` meant it; its invariant says what the waiter's local holds while
  the status is WAITING.
* `PostProcessType`, `SortIsRight`, `GreedyForOneClass`, `ReportIsBest`,
  `LabelsAreKnown` (`PostProcessProofs`): for any heads, classes, scores, overlaps,
  sizes of the report and label files. `ProposeInv` says that the boxes so far are
  those of the heads so far. `SortInv` is about the order in which the boxes would
  lie with the key put back in the hole (`Order`): each box has a place in it, a
  side in hand is parted as far as `low` and `high` have come (`Partition`), and two
  places are in order unless a call that is still to come has both (`Settled`).
  Moving a box into the hole exchanges two boxes of this order (`SwapKeeps`), and
  placing the key leaves it as it is (`SplitKeeps`). `NmsInv` says of the places that
  had their turn that no later box overlaps theirs, and that what is gone overlaps
  one of them (`Suppressed`); `GroupInv` that the report is the first of the places
  left. `GreedyForOneClass` asks that the boxes found are of one class, however many
  classes there are, as the run with two shows it must. `ReportIsBest` asks that the
  threshold is one of each head's numbers (`Representable`): beyond them the smallest
  number is refused as a class score however good it is, and the largest passes as
  a confidence however bad.
* `ThresholdWithinStep` (`PostProcessProofs`): for any zero point and scale the
  8-bit test of a score agrees with the threshold up to one step of the scale,
  where the threshold can be represented; `ReportIsBest` rests on it.

* `LookupType`, `OnlyUnplugsEndIt`, `ChildKeepsItsPlace`, `SearchTellsRight`
  (`UsbProofs`): for any trees, requests, number of calls and size of a chunk.
  `LookupInv` says that each of the two walks is a path of the tree, with each
  directory the entry its parent is at (`Scanning`, `Walking`), and that the process
  is in the directory on top, so that an entry is looked up where it was read. So
  a name that is not found was unplugged. `SearchTellsRight` is the half `ToldRight` of
  `FindsFirst`, with its exceptions `Nameless` and `Overlooked`; its invariant says
  that a search that goes on, or found nothing, has passed no link with the ids asked
  for (`Searching`, `Resulted`): a directory that is left was seen to its end. Of
  `read_devname` it says that the place in the file stays in it through the
  overlaps (`ReadingNext`), when a NUL lies behind the buffer; else a key found
  there may leave it beyond the end.

What the proofs assume is what the modules' named assumptions say of the
constants, and `StartAfterInit`, `Loops` where a theorem names them. Induction
over a number goes through the well-foundedness of the naturals: a set of
counterexamples would have a least element.

Proofs also corrected the model: two cases of a `CASE` in `DecodeSimple` both
applied, of which TLC always took the first, and `OptionsUnderstood` claimed too
much for a line in which a refused timeout follows a good `-t` (what stands behind
it is never read, `jpg2yuv.cpp:893`); no line of the run was of that form until
the proof asked for it.

Model-checked only:

* every liveness property (`BothGoOn`, `PicturesKeepComing`, `Ends`, `Returns`), as
  liveness under fairness is out of TLAPS's reach;
* of `UsbScan`, that the name is the right one (`NamedRight` in `FindsFirst`), as its
  reference is a recursive function over the tree.

## Not modelled

* Box decoding and intersection areas (floating point), drawing, `updatefps`,
  `saveFloat`, `get_pixel_depth`, and what is only printed.
* In the MPP headers: what they only declare. The timers, threads and logs behind
  them are in the library, and the other headers (`rk_venc_cmd.h`, `drm.h`, `ion.h`,
  `vpu_api.h` and more) declare structures and numbers without behaviour.
* The chroma of pictures with an odd number of rows or columns (`FrameFiles`);
  an ops line with one number, and a command line without an input (`MppDecode`).
* The task code under `test_multi_pthread_model 0`, which does not compile: its
  call of `preprocess` is of an earlier form.
* OpenCV, RGA, RKNN, MPP and the driver beyond what their callers here see of them;
  `v4l2_init` never reaches the USB lookup, as its `argc` is the constant 3.

## Plan

1. *done* `StaticQ` with `BoundedFifo`, `Pipeline` with `FrameChannel`, `V4l2Capture`,
   `Session`, `MppDecode`, `PostProcess`; proofs of the ring, its refinement, the
   mutex and the session.
2. *done* Other sessions in `Session` and the labels in `PostProcess`, against
   README.md:22; `FrameFiles`, `UsbScan`, `DecOptions` and `DecodeSimple`,
   `CameraControls`, the MPP headers with their theorems.
3. *done* Proofs of the pipeline's data and its refinement, of the camera, the
   session's types and losses, and of the decoding: what it holds, what it writes
   how much of it, and what it takes from the command line; of the sort, the suppression, the
   report and the labels; of the walks of the USB lookup; of the frames, their
   files, checksums and pixels.

New modules keep to the same form: constants with their assumptions, one action
per call, scenarios for what may fail, recursion as functions or stacks of calls.
