------------------------------- MODULE Session -------------------------------
(***************************************************************************)
(* The inference session of src/kernel/src/core.cpp and the loop of main.cc *)
(* that drives it: the blocks a session_str points to, the results that    *)
(* the RKNN context holds, and which picture each of them belongs to.      *)
(*                                                                         *)
(* No caller looks at a result code, so after a failure the next call runs *)
(* on whatever the failed one left behind.  Two files of fixed names,      *)
(* test.jpeg and test.nv12, carry a picture through the JPEG decoder; any  *)
(* other session in the same directory uses the same two.                  *)
(***************************************************************************)
EXTENDS Integers, FiniteSets

CONSTANTS Pictures, \* pictures are numbered 1..Pictures, then from 1 again
          HeapMay,  \* what a pointer in fresh memory may be: "null", "wild"
          Scenarios \* what else may happen in a behaviour: sets of calls
                    \* that may fail, "deinit" when the caller is that of
                    \* the test API, which ends after one picture, and
                    \* "others" when other sessions use the same directory

ASSUME SessionAssumption == /\ Pictures \in Nat \ {0, 1}
                            /\ HeapMay \in SUBSET {"null", "wild"} /\ HeapMay # {}

VARIABLES may,      \* the scenario of this behaviour
          pc,       \* the part of the calls the caller is in
          mem,      \* the session's pointers: see Pointer and Block
          ctx,      \* the RKNN context: "wild", "ready", "destroyed"
          size,     \* the model's input against the decoded picture's:
                    \* "wild", "same", "other"
          cb,       \* the user's callback is set
          picture,  \* the picture the caller has in hand
          orig_img, \* the picture in entity->orig_img, 0 for an empty one
          jpeg, nv12,\* the pictures in test.jpeg and in test.nv12
          yuv,      \* the picture in the image made of test.nv12
          meddled,  \* another session wrote one of the files between this
                    \* one's save_file and get_file
          input, result, out, \* picture that is in the context's input, that
                    \* its last run was about, that outputs[].buf is about
          report,   \* <<picture drawn on, picture inferred>>, or <<>>
          lost,     \* blocks nothing points to any more
          misuse    \* bad accesses so far

ctxVars == <<ctx, size, cb>>
fileVars == <<jpeg, nv12, yuv, meddled>>
picVars == <<picture, orig_img, fileVars, input, result, out, report>>
vars    == <<may, pc, mem, ctxVars, picVars, lost, misuse>>

Pointer == {"entity", "model_data", "input_attrs", "output_attrs", "resize_buf",
            "outputs", "orig_img"}
Block   == {"null", "wild", "live", "freed"}
Picture == 1..Pictures
Blank   == -1 \* no picture: the zeros of a new buffer
Old     == -2 \* a picture of an earlier run of the program
Other   == -3 \* a picture of another session

Init == /\ may \in Scenarios
        /\ pc = "load_model"
        /\ mem = [p \in Pointer |-> "null"]
        /\ ctx = "wild" /\ size = "wild" /\ cb = FALSE
        /\ picture = Pictures /\ orig_img = 0
        /\ jpeg = Old /\ nv12 = Old /\ yuv = Blank /\ meddled = FALSE
        /\ input = 0 /\ result = 0 /\ out = 0 /\ report = <<>>
        /\ lost = {} /\ misuse = {}

Fails(call) == call \in may
Goes(from, to) == pc = from /\ pc' = to

(* Misuse of a pointer: following it unless it is live, freeing it unless  *)
(* it is live or NULL.                                                     *)
Bad(p)     == IF mem[p] = "live" THEN {} ELSE {mem[p]}
BadFree(p) == CASE mem[p] = "freed" -> {"twice"} [] mem[p] = "wild" -> {"wild"} [] OTHER -> {}
Freed(p)   == IF mem[p] = "null" THEN "null" ELSE "freed"

-----------------------------------------------------------------------------
(* session_init *)

(* session_init mallocs its structure: no member is initialised by it, not *)
(* even those core.h gives a value.                                        *)
load_model ==
    /\ Goes("load_model", "rknn_init")
    /\ \E fresh \in HeapMay :
           mem' \in {[p \in Pointer |-> CASE p = "entity" -> "live"
                                          [] p = "model_data" -> data
                                          [] OTHER -> fresh]
                     : data \in {"live"} \cup (IF Fails("load_model") THEN {"null"} ELSE {})}
    /\ UNCHANGED <<ctxVars, picVars, lost, misuse>>

rknn_init ==
    /\ pc = "rknn_init"
    /\ \/ mem.model_data = "live" /\ pc' = "attributes" /\ ctx' = "ready"
       \/ (mem.model_data = "null" \/ Fails("rknn_init")) /\ pc' = "set_user_cb" /\ UNCHANGED ctx
    /\ UNCHANGED <<mem, size, cb, picVars, lost, misuse>>

(* The queries of the version and of the tensor numbers end session_init   *)
(* when they fail, one of an input tensor too; one of an output tensor is  *)
(* not looked at.                                                          *)
attributes ==
    /\ Goes("attributes", "set_user_cb")
    /\ \/ /\ Fails("query") /\ UNCHANGED <<mem, size>>
       \/ /\ Fails("input_attr") /\ mem' = [mem EXCEPT !.input_attrs = "live"]
          /\ UNCHANGED size
       \/ /\ mem' = [mem EXCEPT !.input_attrs = "live", !.output_attrs = "live"]
          /\ size' \in {"same", "other"}
    /\ cb' = FALSE
    /\ UNCHANGED <<ctx, picVars, lost, misuse>>

set_user_cb == /\ Goes("set_user_cb", "imdecode")
               /\ cb' = TRUE
               /\ UNCHANGED <<mem, ctx, size, picVars, lost, misuse>>

-----------------------------------------------------------------------------
(* preprocess *)

(* Mutant: the picture after the one in hand is decoded. *)
DecodeNext ==
    /\ Goes("imdecode", "save_file")
    /\ picture' = (picture % Pictures) + 1
    /\ orig_img' = picture' + 1
    /\ mem' = [mem EXCEPT !.orig_img = "live"]
    /\ misuse' = misuse \cup ({size, mem.orig_img} \cap {"wild"})
    /\ UNCHANGED <<ctxVars, fileVars, input, result, out, report, lost>>

(* The model's size is read from fields only session_init sets; the        *)
(* assignment to orig_img lets go of the image it held.                    *)
imdecode ==
    /\ Goes("imdecode", "save_file")
    /\ picture' = (picture % Pictures) + 1
    /\ orig_img' \in {picture'} \cup (IF Fails("imdecode") THEN {0} ELSE {})
    /\ mem' = [mem EXCEPT !.orig_img = "live"]
    /\ misuse' = misuse \cup ({size, mem.orig_img} \cap {"wild"})
    /\ UNCHANGED <<ctxVars, fileVars, input, result, out, report, lost>>

(* The picture goes to test.jpeg; a file that does not open is an assert.  *)
save_file ==
    /\ pc = "save_file"
    /\ \/ pc' = "mpp_jpg2yuv" /\ jpeg' = picture
       \/ Fails("save_file") /\ pc' = "aborted" /\ UNCHANGED jpeg
    /\ UNCHANGED <<mem, ctxVars, picture, orig_img, nv12, yuv, meddled, input, result, out, report,
                   lost, misuse>>

(* What module MppDecode shows of the decoding: test.nv12 holds the        *)
(* picture of test.jpeg or, when it fails, nothing; what it held before    *)
(* when it does not open.  The result is not looked at.                    *)
mpp_jpg2yuv ==
    /\ Goes("mpp_jpg2yuv", "get_file")
    /\ nv12' \in {jpeg} \cup (IF Fails("mpp_jpg2yuv") THEN {Blank} ELSE {})
                         \cup (IF Fails("fp_output") THEN {nv12} ELSE {})
    /\ UNCHANGED <<mem, ctxVars, picture, orig_img, jpeg, yuv, meddled, input, result, out, report,
                   lost, misuse>>

(* Another session saves its picture, or decodes what test.jpeg holds or   *)
(* held: nothing locks the files.                                          *)
other_session ==
    /\ "others" \in may
    /\ \/ jpeg' = Other /\ UNCHANGED nv12
       \/ nv12' \in {Other, jpeg, Blank} /\ UNCHANGED jpeg
    /\ meddled' = (meddled \/ pc \in {"mpp_jpg2yuv", "get_file"})
    /\ UNCHANGED <<pc, mem, ctxVars, picture, orig_img, yuv, input, result, out, report, lost, misuse>>

(* A picture OpenCV did not decode goes to the label end at once, past the *)
(* resizing, the context's input and the new outputs.                      *)
AfterFile == IF orig_img = 0 THEN "cleanup" ELSE "resize"

(* test.nv12 into a zeroed block that nothing frees; only then does        *)
(* preprocess look whether the picture was decoded.                        *)
get_file ==
    /\ pc = "get_file"
    /\ \/ /\ pc' = AfterFile
          /\ yuv' = nv12 /\ lost' = lost \cup {"yuv"}
       \/ /\ Fails("get_file") /\ pc' = "aborted"
          /\ UNCHANGED <<yuv, lost>>
    /\ UNCHANGED <<mem, ctxVars, picture, orig_img, jpeg, nv12, meddled, input, result, out, report, misuse>>

(* Mutant: a buffer that is there is used again. *)
ReuseResizeBuf ==
    /\ Goes("resize", "inputs_set")
    /\ mem' = IF size = "same" \/ mem.resize_buf # "null" THEN mem
              ELSE [mem EXCEPT !.resize_buf = "live"]
    /\ UNCHANGED <<ctxVars, picVars, lost, misuse>>

(* resize_buf = nullptr, then a new one, all zero, unless the sizes agree. *)
resize ==
    /\ pc = "resize"
    /\ \/ /\ size # "same"
          /\ mem' = [mem EXCEPT !.resize_buf = "live"]
          /\ pc' \in {"inputs_set"} \cup (IF Fails("imcheck") THEN {"cleanup"} ELSE {})
          /\ yuv' \in {yuv} \cup (IF Fails("imresize") THEN {Blank} ELSE {})
       \/ /\ size = "same"
          /\ mem' = [mem EXCEPT !.resize_buf = "null"]
          /\ pc' = "inputs_set"
          /\ UNCHANGED yuv
    /\ UNCHANGED <<ctxVars, picture, orig_img, jpeg, nv12, meddled, input, result, out, report, lost,
                   misuse>>

(* Mutant: a context that has its input is not given another. *)
InputOnce ==
    /\ Goes("inputs_set", "cleanup")
    /\ input' = IF input = 0 THEN yuv ELSE input
    /\ lost' = lost \cup (IF mem.outputs = "live" THEN {"outputs"} ELSE {})
    /\ mem' = [mem EXCEPT !.outputs = "live"]
    /\ out' = 0
    /\ UNCHANGED <<ctxVars, picture, orig_img, fileVars, result, report, misuse>>

(* rknn_inputs_set copies the pixels, its result is not looked at; a new   *)
(* array for the outputs, all zero.                                        *)
inputs_set ==
    /\ Goes("inputs_set", "cleanup")
    /\ IF ctx = "ready" THEN input' \in {yuv} \cup (IF Fails("inputs_set") THEN {input} ELSE {})
                        ELSE input' = input
    /\ lost' = lost \cup (IF mem.outputs = "live" THEN {"outputs"} ELSE {})
    /\ mem' = [mem EXCEPT !.outputs = "live"]
    /\ out' = 0
    /\ misuse' = misuse \cup ({ctx} \cap {"wild"})
    /\ UNCHANGED <<ctxVars, picture, orig_img, fileVars, result, report>>

(* end: free(resize_buf), which stays in the session. *)
cleanup ==
    /\ Goes("cleanup", "inference")
    /\ misuse' = misuse \cup BadFree("resize_buf")
    /\ mem' = [mem EXCEPT !.resize_buf = Freed("resize_buf")]
    /\ UNCHANGED <<ctxVars, picVars, lost>>

-----------------------------------------------------------------------------
(* inference: rknn_run, then rknn_outputs_get fills the array. *)
inference ==
    /\ Goes("inference", "postprocess")
    /\ IF ctx = "ready" THEN /\ result' \in {input} \cup (IF Fails("run") THEN {result} ELSE {})
                             /\ out' \in {result'} \cup (IF Fails("outputs_get") THEN {out} ELSE {})
                        ELSE UNCHANGED <<result, out>>
    /\ misuse' = misuse \cup Bad("outputs") \cup ({ctx} \cap {"wild"})
    /\ UNCHANGED <<mem, ctxVars, picture, orig_img, fileVars, input, report, lost>>

-----------------------------------------------------------------------------
(* postprocess *)

(* Mutant: the array is not freed. *)
KeepOutputs ==
    /\ Goes("postprocess", "outputs_release")
    /\ misuse' = misuse \cup Bad("outputs") \cup Bad("output_attrs")
                        \cup (IF out = 0 THEN {"null"} ELSE {})
    /\ report' = IF out # 0 /\ cb THEN <<orig_img, out>> ELSE report
    /\ UNCHANGED <<mem, ctxVars, picture, orig_img, fileVars, input, result, out, lost>>

(* post_process reads the buffers, free(outputs), then the detections are  *)
(* drawn on orig_img and given to the callback.                            *)
postprocess ==
    /\ Goes("postprocess", "outputs_release")
    /\ misuse' = misuse \cup Bad("outputs") \cup BadFree("outputs") \cup Bad("output_attrs")
                        \cup (IF out = 0 THEN {"null"} ELSE {})
    /\ report' = IF out # 0 /\ cb THEN <<orig_img, out>> ELSE report
    /\ mem' = [mem EXCEPT !.outputs = Freed("outputs")]
    /\ UNCHANGED <<ctxVars, picture, orig_img, fileVars, input, result, out, lost>>

(* The main of the test API runs one picture through the session and ends  *)
(* it; main.cc's loop takes the next picture.                              *)
NextCall == IF "deinit" \in may THEN "deinit" ELSE "imdecode"

(* rknn_outputs_release reads from the array which buffers to free: what   *)
(* the array still says after its free is anyone's guess.                  *)
outputs_release ==
    /\ Goes("outputs_release", NextCall)
    /\ misuse' = misuse \cup Bad("outputs")
    /\ out' = 0
    /\ lost' \in {lost} \cup (IF mem.outputs = "freed" THEN {lost \cup {"out_buf"}} ELSE {})
    /\ UNCHANGED <<mem, ctxVars, picture, orig_img, fileVars, input, result, report>>

-----------------------------------------------------------------------------
(* session_deinit frees every pointer that is not NULL; orig_img, which    *)
(* needs its destructor, is lost with the structure.                       *)
Owned == {"model_data", "resize_buf", "input_attrs", "output_attrs", "outputs"}

session_deinit ==
    /\ Goes("deinit", "done")
    /\ ctx' = "destroyed"
    /\ misuse' = misuse \cup UNION {BadFree(p) : p \in Owned}
    /\ mem' = [p \in Pointer |-> IF p = "orig_img" THEN mem[p] ELSE Freed(p)]
    /\ lost' = lost \cup (IF mem.orig_img = "live" THEN {"orig_img"} ELSE {})
    /\ UNCHANGED <<size, cb, picVars>>

-----------------------------------------------------------------------------
Running == misuse \subseteq {"freed"}
Next == /\ Running
        /\ \/ load_model \/ rknn_init \/ attributes \/ set_user_cb
           \/ imdecode \/ save_file \/ mpp_jpg2yuv \/ get_file \/ resize \/ inputs_set \/ cleanup
           \/ other_session
           \/ inference \/ postprocess \/ outputs_release \/ session_deinit
        /\ UNCHANGED may

Spec == Init /\ [][Next]_vars

-----------------------------------------------------------------------------
Pcs == {"load_model", "rknn_init", "attributes", "set_user_cb", "imdecode", "save_file",
        "mpp_jpg2yuv", "get_file", "aborted", "resize", "inputs_set", "cleanup",
        "inference", "postprocess", "outputs_release", "deinit", "done"}
Held == {Other, Old, Blank} \cup 0..Pictures

TypeOK ==
    /\ may \in Scenarios /\ pc \in Pcs /\ mem \in [Pointer -> Block]
    /\ ctx \in {"wild", "ready", "destroyed"} /\ size \in {"wild", "same", "other"}
    /\ cb \in BOOLEAN /\ picture \in Picture
    /\ orig_img \in 0..Pictures /\ meddled \in BOOLEAN
    /\ {jpeg, nv12, yuv, input, result, out} \subseteq Held
    /\ report = <<>> \/ report \in Held \X Held
    /\ lost \subseteq {"yuv", "outputs", "out_buf", "orig_img"}
    /\ misuse \subseteq {"null", "wild", "freed", "twice"}

(* No block is freed twice while the loop runs: preprocess and postprocess *)
(* leave dangling pointers in the session, and every later free must find  *)
(* a new block behind them, or NULL.                                       *)
FreedOnce == "deinit" \notin may => "twice" \notin misuse

(* The detections given to the callback and drawn are those of the picture *)
(* they are drawn on, or of a blank image, never those of an earlier one,  *)
(* although no result code is looked at between preprocess and the report; *)
(* and what other sessions do with the two files matters only between this *)
(* one's save_file and get_file.                                           *)
FreshReport == report # <<>> /\ ~meddled => report[2] \in {report[1], Blank}

(* The session loses nothing but the decoded image and, maybe, the buffers *)
(* the release no longer finds; session_deinit loses orig_img.             *)
OnlyPicturesLost ==
    /\ lost \subseteq {"yuv", "out_buf"} \cup (IF pc = "done" THEN {"orig_img"} ELSE {})
    /\ pc = "done" => \A p \in Pointer \ {"orig_img"} : mem[p] # "live"

(* rknn_api.h: rknn_outputs_release is given the outputs rknn_outputs_get  *)
(* filled, not memory freed since.                                         *)
ReleasesOutputs == "freed" \notin misuse
=============================================================================
