---------------------------- MODULE SessionProofs ----------------------------
(***************************************************************************)
(* The loop of main.cc neither frees a block twice nor reports the         *)
(* detections of another picture, for any number of pictures, any content  *)
(* of fresh memory and any failing call outside Needed, as long as the     *)
(* session is not torn down; under any failures it keeps its types and     *)
(* loses nothing but pictures.                                             *)
(***************************************************************************)
EXTENDS Session, TLAPS

Needed == {"imdecode", "imcheck", "fp_output", "inputs_set", "run"}
Loops  == \A s \in Scenarios : s \cap Needed = {} /\ "deinit" \notin s

Fed    == pc \in {"cleanup", "inference"}
Filled == pc \in {"cleanup", "inference", "postprocess"}

Decoded == pc \in {"save_file", "mpp_jpg2yuv", "get_file", "resize", "inputs_set",
                   "cleanup", "inference", "postprocess"}

(* What the loop knows of its pointers: a new array waits for the outputs  *)
(* of the inference, and resize_buf was set since it was last freed.       *)
Owns ==
    /\ "twice" \notin misuse
    /\ pc \in {"inputs_set", "cleanup"} => mem.resize_buf \in {"live", "null"}
    /\ Filled => mem.outputs = "live"

(* And of its pictures, while no other session came between its own calls: *)
(* from the files to the outputs each holds the one in hand or a blank     *)
(* image, and the outputs are empty until the inference.                   *)
Ours == {picture, Blank}

Unmixed ==
    /\ pc = "mpp_jpg2yuv" => jpeg = picture
    /\ pc = "get_file" => nv12 \in Ours
    /\ pc \in {"resize", "inputs_set"} => yuv \in Ours
    /\ Fed => out = 0 /\ (ctx = "ready" => input \in Ours)
    /\ pc = "postprocess" => out \in {0} \cup Ours
    /\ report # <<>> => report[2] \in {report[1], Blank}

Matches == /\ picture \in Nat \ {0}
           /\ Decoded => orig_img = picture
           /\ meddled \/ Unmixed

Inv == may \in Scenarios /\ mem \in [Pointer -> Block] /\ pc # "deinit" /\ Owns /\ Matches

LEMMA InvInit == ASSUME SessionAssumption, Init PROVE Inv
BY DEF SessionAssumption, Init, Inv, Owns, Matches, Unmixed, Decoded, Fed, Filled, FreshReport, Pointer, Block

LEMMA InvNext == ASSUME SessionAssumption, Loops, Inv, [Next]_vars PROVE Inv'
<1> USE DEF Inv, Goes, Decoded, Ours, FreshReport, fileVars
<1>. /\ "imdecode" \notin may /\ "imcheck" \notin may /\ "inputs_set" \notin may
     /\ "run" \notin may /\ "fp_output" \notin may /\ "deinit" \notin may /\ may' \in Scenarios
  BY DEF Loops, Needed, Next, vars
<1>1. CASE load_model
  <2>1. pc' = "rknn_init" /\ UNCHANGED <<picVars, misuse>>
    BY <1>1 DEF load_model
  <2>2. mem' \in [Pointer -> Block]
    BY <1>1 DEF load_model, SessionAssumption, Block
  <2> QED BY <2>1, <2>2 DEF Owns, Matches, Unmixed, Fed, Filled, picVars
<1>2. CASE rknn_init
  BY <1>2 DEF rknn_init, Owns, Matches, Unmixed, Fed, Filled, picVars
<1>3. CASE attributes
  <2>1. mem' \in [Pointer -> Block]
    BY <1>3 DEF attributes, Pointer, Block
  <2> QED BY <1>3, <2>1 DEF attributes, Owns, Matches, Unmixed, Fed, Filled, picVars
<1>4. CASE set_user_cb
  BY <1>4 DEF set_user_cb, Owns, Matches, Unmixed, Fed, Filled, picVars
<1>5. CASE imdecode
  <2>1. mem' \in [Pointer -> Block]
    BY <1>5 DEF imdecode, Pointer, Block
  <2>2. picture' \in Nat \ {0}
    BY <1>5 DEF imdecode, Matches, SessionAssumption
  <2>3. pc' = "save_file" /\ orig_img' = picture' /\ report' = report /\ meddled' = meddled
    BY <1>5 DEF imdecode, Fails
  <2>4. "twice" \notin misuse'
    BY <1>5 DEF imdecode, Owns
  <2> QED BY <2>1, <2>2, <2>3, <2>4 DEF Owns, Matches, Unmixed, Fed, Filled
<1>14. CASE save_file
  BY <1>14 DEF save_file, Owns, Matches, Unmixed, Fed, Filled
<1>15. CASE mpp_jpg2yuv
  <2>1. meddled \/ nv12' \in Ours
    BY <1>15 DEF mpp_jpg2yuv, Fails, Matches, Unmixed
  <2> QED BY <1>15, <2>1 DEF mpp_jpg2yuv, Owns, Matches, Unmixed, Fed, Filled
<1>16. CASE get_file
  BY <1>16 DEF get_file, AfterFile, Owns, Matches, Unmixed, Fed, Filled
<1>6. CASE resize
  <2>1. mem' \in [Pointer -> Block]
    BY <1>6 DEF resize, Pointer, Block
  <2>2. pc' = "inputs_set" /\ mem'.resize_buf \in {"live", "null"}
    BY <1>6 DEF resize, Fails, Pointer
  <2>3. meddled \/ yuv' \in Ours
    BY <1>6 DEF resize, Fails, Matches, Unmixed
  <2> QED BY <1>6, <2>1, <2>2, <2>3 DEF resize, Owns, Matches, Unmixed, Fed, Filled, picVars
<1>7. CASE inputs_set
  <2>1. mem' \in [Pointer -> Block] /\ mem'.outputs = "live" /\ mem'.resize_buf = mem.resize_buf
    BY <1>7 DEF inputs_set, Pointer, Block
  <2>2. meddled \/ (ctx = "ready" => input' \in Ours)
    BY <1>7 DEF inputs_set, Fails, Matches, Unmixed
  <2> QED BY <1>7, <2>1, <2>2 DEF inputs_set, Owns, Matches, Unmixed, Fed, Filled, ctxVars
<1>8. CASE cleanup
  <2>1. mem' \in [Pointer -> Block] /\ mem'.outputs = mem.outputs
    BY <1>8 DEF cleanup, Freed, Pointer, Block
  <2>2. "twice" \notin misuse'
    BY <1>8 DEF cleanup, BadFree, Owns
  <2> QED BY <1>8, <2>1, <2>2 DEF cleanup, Owns, Matches, Unmixed, Fed, Filled, ctxVars, picVars
<1>9. CASE inference
  <2>1. meddled \/ out' \in {0} \cup Ours'
    BY <1>9 DEF inference, Fails, Matches, Unmixed, Fed
  <2>2. "twice" \notin misuse'
    BY <1>9, mem.outputs = "live" DEF inference, Bad, Owns, Filled
  <2> QED BY <1>9, <2>1, <2>2 DEF inference, Owns, Matches, Unmixed, Fed, Filled
<1>10. CASE postprocess
  <2>1. mem' \in [Pointer -> Block]
    BY <1>10 DEF postprocess, Freed, Pointer, Block
  <2>2. mem.outputs = "live" /\ mem.output_attrs \in Block
    BY <1>10 DEF postprocess, Owns, Filled, Pointer
  <2>3. "twice" \notin misuse'
    BY <1>10, <2>2 DEF postprocess, Bad, BadFree, Owns, Block
  <2>4. meddled \/ (report' # <<>> => report'[2] \in {report'[1], Blank})
    BY <1>10 DEF postprocess, Matches, Unmixed
  <2> QED BY <1>10, <2>1, <2>3, <2>4 DEF postprocess, Owns, Matches, Unmixed, Fed, Filled
<1>11. CASE outputs_release
  <2>1. "twice" \notin misuse'
    BY <1>11, mem.outputs \in Block DEF outputs_release, NextCall, Bad, Block, Owns, Pointer
  <2> QED BY <1>11, <2>1 DEF outputs_release, NextCall, Owns, Matches, Unmixed, Fed, Filled, ctxVars
<1>17. CASE other_session
  <2>1. CASE pc \in {"mpp_jpg2yuv", "get_file"}
    BY <1>17, <2>1 DEF other_session, Owns, Matches, Fed, Filled
  <2>2. CASE pc \notin {"mpp_jpg2yuv", "get_file"}
    BY <1>17, <2>2 DEF other_session, Owns, Matches, Unmixed, Fed, Filled, ctxVars
  <2> QED BY <2>1, <2>2
<1>12. CASE session_deinit
  BY <1>12 DEF session_deinit
<1>13. CASE UNCHANGED vars
  BY <1>13 DEF vars, picVars, ctxVars, Owns, Matches, Unmixed, Fed, Filled
<1> QED
  BY <1>1, <1>2, <1>3, <1>4, <1>5, <1>6, <1>7, <1>8, <1>9, <1>10, <1>11, <1>12, <1>13, <1>14, <1>15, <1>16, <1>17 DEF Next

(* A session driven by the loop reports, of every picture, the detections  *)
(* found in that picture.                                                  *)
THEOREM ReportsAreFresh == ASSUME Loops PROVE Spec => []FreshReport
<1>1. Inv => FreshReport BY DEF Inv, Matches, Unmixed, FreshReport
<1>2. Init => Inv BY SessionAssumption, InvInit
<1>3. Inv /\ [Next]_vars => Inv' BY SessionAssumption, InvNext
<1> QED BY <1>1, <1>2, <1>3, PTL DEF Spec

(* The pointers the loop leaves dangling are set again before they are     *)
(* freed again.                                                            *)
THEOREM FreesOnce == ASSUME Loops PROVE Spec => []FreedOnce
<1>1. Inv => FreedOnce BY DEF Inv, Owns, FreedOnce
<1>2. Init => Inv BY SessionAssumption, InvInit
<1>3. Inv /\ [Next]_vars => Inv' BY SessionAssumption, InvNext
<1> QED BY <1>1, <1>2, <1>3, PTL DEF Spec

-----------------------------------------------------------------------------
(* Whatever fails and whoever calls: the types, and what is lost.          *)
(* TypeOK, variable by variable. *)
Contents ==
    /\ jpeg \in Held /\ nv12 \in Held /\ yuv \in Held
    /\ input \in Held /\ result \in Held /\ out \in Held
    /\ report = <<>> \/ report \in Held \X Held
Shape ==
    /\ may \in Scenarios /\ pc \in Pcs /\ mem \in [Pointer -> Block]
    /\ ctx \in {"wild", "ready", "destroyed"} /\ size \in {"wild", "same", "other"}
    /\ cb \in BOOLEAN /\ picture \in Picture
    /\ orig_img \in 0..Pictures /\ meddled \in BOOLEAN
    /\ lost \subseteq {"yuv", "outputs", "out_buf", "orig_img"}
    /\ misuse \subseteq {"null", "wild", "freed", "twice"}

LEMMA TypeParts == TypeOK <=> Shape /\ Contents
  BY DEF TypeOK, Shape, Contents

LEMMA TypeInit == ASSUME SessionAssumption, Init PROVE Shape /\ Contents
  <1>1. Pictures \in Nat \ {0, 1}
    BY DEF SessionAssumption
  <1>2. Pictures \in Picture /\ 0 \in 0..Pictures
    BY <1>1 DEF Picture
  <1>3. Contents
    BY <1>2 DEF Init, Contents, Held
  <1>4. mem \in [Pointer -> Block]
    BY DEF Init, Block
  <1> QED BY <1>2, <1>3, <1>4 DEF Init, Shape, Pcs

LEMMA NextPicture ==
    ASSUME SessionAssumption, picture \in Picture PROVE (picture % Pictures) + 1 \in Picture
  <1>1. Pictures \in Nat \ {0, 1} /\ picture \in Nat
    BY DEF SessionAssumption, Picture
  <1>2. picture % Pictures \in 0..(Pictures - 1)
    BY <1>1
  <1> QED BY <1>1, <1>2 DEF Picture

LEMMA TypeNext == ASSUME SessionAssumption, Shape, Contents, [Next]_vars PROVE Shape' /\ Contents'
  <1> USE DEF Shape, Contents, Goes, Fails, ctxVars, fileVars, picVars
  <1>0. /\ 0 \in Held /\ Blank \in Held /\ Other \in Held /\ Picture \subseteq Held
        /\ Picture \subseteq 0..Pictures /\ 0 \in 0..Pictures /\ 0..Pictures \subseteq Held
    BY DEF SessionAssumption, Held, Picture
  <1> USE <1>0
  <1> may' = may
    BY DEF Next, vars
  <1>1. CASE load_model
    <2>1. mem' \in [Pointer -> Block]
      BY <1>1 DEF load_model, SessionAssumption, Block
    <2> QED BY <1>1, <2>1 DEF load_model, Pcs
  <1>2. CASE rknn_init \/ set_user_cb
    BY <1>2 DEF rknn_init, set_user_cb, Pcs
  <1>3. CASE attributes
    <2>1. \/ mem' = mem
          \/ mem' = [mem EXCEPT !.input_attrs = "live"]
          \/ mem' = [mem EXCEPT !.input_attrs = "live", !.output_attrs = "live"]
      BY <1>3 DEF attributes
    <2>2. mem' \in [Pointer -> Block]
      BY <2>1 DEF Block
    <2> QED BY <1>3, <2>2 DEF attributes, Pcs
  <1>4. CASE imdecode
    <2>1. mem' \in [Pointer -> Block]
      BY <1>4 DEF imdecode, Pointer, Block
    <2>2. picture' \in Picture
      BY <1>4, NextPicture DEF imdecode
    <2>3. orig_img' \in 0..Pictures
      BY <1>4, <2>2 DEF imdecode
    <2> QED BY <1>4, <2>1, <2>2, <2>3 DEF imdecode, Pcs
  <1>5. CASE save_file \/ mpp_jpg2yuv
    BY <1>5 DEF save_file, mpp_jpg2yuv, Pcs
  <1>14. CASE get_file
    BY <1>14 DEF get_file, AfterFile, Pcs
  <1>15. CASE other_session
    BY <1>15 DEF other_session
  <1>6. CASE resize
    <2>1. mem' \in [Pointer -> Block]
      BY <1>6 DEF resize, Pointer, Block
    <2> QED BY <1>6, <2>1 DEF resize, Pcs
  <1>7. CASE inputs_set
    <2>1. mem' \in [Pointer -> Block]
      BY <1>7 DEF inputs_set, Pointer, Block
    <2> QED BY <1>7, <2>1 DEF inputs_set, Pcs
  <1>8. CASE cleanup
    <2>1. mem' \in [Pointer -> Block]
      BY <1>8 DEF cleanup, Freed, Pointer, Block
    <2> QED BY <1>8, <2>1 DEF cleanup, BadFree, Pcs
  <1>9. CASE inference
    <2>1. Bad("outputs") \subseteq {"null", "wild", "freed"}
      BY DEF Bad, Pointer, Block
    <2> QED BY <1>9, <2>1 DEF inference, Pcs
  <1>10. CASE postprocess
    <2>1. Bad("outputs") \cup Bad("output_attrs") \subseteq {"null", "wild", "freed"}
      BY DEF Bad, Pointer, Block
    <2>2. BadFree("outputs") \subseteq {"twice", "wild"}
      BY DEF BadFree
    <2>3. mem' \in [Pointer -> Block]
      BY <1>10 DEF postprocess, Freed, Pointer, Block
    <2>4. report' = <<>> \/ report' \in Held \X Held
      BY <1>10 DEF postprocess
    <2> QED BY <1>10, <2>1, <2>2, <2>3, <2>4 DEF postprocess, Pcs
  <1>11. CASE outputs_release
    <2>1. Bad("outputs") \subseteq {"null", "wild", "freed"}
      BY DEF Bad, Pointer, Block
    <2> QED BY <1>11, <2>1 DEF outputs_release, NextCall, Pcs
  <1>12. CASE session_deinit
    <2>1. mem' \in [Pointer -> Block]
      BY <1>12 DEF session_deinit, Freed, Block
    <2>2. UNION {BadFree(p) : p \in Owned} \subseteq {"twice", "wild"}
      BY DEF BadFree
    <2> QED BY <1>12, <2>1, <2>2 DEF session_deinit, Pcs
  <1>13. CASE UNCHANGED vars
    BY <1>13 DEF vars
  <1> QED BY <1>1, <1>2, <1>3, <1>4, <1>5, <1>6, <1>7, <1>8, <1>9, <1>10, <1>11, <1>12, <1>13, <1>14, <1>15 DEF Next

(* Whatever calls fail, and whoever else writes the files, every variable  *)
(* of the session keeps its type.                                          *)
THEOREM SessionType == Spec => []TypeOK
  <1>1. Init => Shape /\ Contents
    BY SessionAssumption, TypeInit
  <1>2. Shape /\ Contents /\ [Next]_vars => Shape' /\ Contents'
    BY SessionAssumption, TypeNext
  <1> QED BY <1>1, <1>2, TypeParts, PTL DEF Spec

(* The outputs are freed before preprocess makes an array of them anew.    *)
Kept == OnlyPicturesLost /\ (mem.outputs = "live" => Filled)

LEMMA KeptNext == ASSUME SessionAssumption, Shape, Kept, [Next]_vars PROVE Kept'
  <1> USE DEF Kept, OnlyPicturesLost, Filled, Goes, ctxVars, fileVars, picVars
  <1>0. mem \in [Pointer -> Block] /\ "outputs" \in Pointer /\ "resize_buf" \in Pointer
    BY DEF Shape, Pointer
  <1>1. CASE load_model
    <2>1. mem'.outputs # "live"
      BY <1>1 DEF load_model, SessionAssumption, Pointer
    <2> QED BY <1>1, <2>1 DEF load_model
  <1>2. CASE rknn_init \/ set_user_cb \/ save_file \/ mpp_jpg2yuv
    BY <1>2 DEF rknn_init, set_user_cb, save_file, mpp_jpg2yuv
  <1>3. CASE attributes \/ imdecode
    <2>1. mem'.outputs = mem.outputs
      BY <1>0, <1>3 DEF attributes, imdecode
    <2> QED BY <1>3, <2>1 DEF attributes, imdecode
  <1>4. CASE get_file
    BY <1>4 DEF get_file, AfterFile
  <1>5. CASE other_session
    BY <1>5 DEF other_session
  <1>6. CASE resize
    <2>1. mem'.outputs = mem.outputs
      BY <1>0, <1>6 DEF resize
    <2> QED BY <1>6, <2>1 DEF resize, Fails
  <1>7. CASE inputs_set
    BY <1>7 DEF inputs_set
  <1>8. CASE cleanup
    <2>1. mem'.outputs = mem.outputs
      BY <1>0, <1>8 DEF cleanup
    <2> QED BY <1>8, <2>1 DEF cleanup
  <1>9. CASE inference
    BY <1>9 DEF inference
  <1>10. CASE postprocess
    <2>1. mem'.outputs # "live"
      BY <1>0, <1>10 DEF postprocess, Freed
    <2> QED BY <1>10, <2>1 DEF postprocess
  <1>11. CASE outputs_release
    BY <1>11 DEF outputs_release, NextCall
  <1>12. CASE session_deinit
    <2>1. \A p \in Pointer \ {"orig_img"} : mem'[p] # "live"
      BY <1>12 DEF session_deinit, Freed
    <2> QED BY <1>0, <1>12, <2>1 DEF session_deinit
  <1>13. CASE UNCHANGED vars
    BY <1>13 DEF vars
  <1> QED BY <1>1, <1>2, <1>3, <1>4, <1>5, <1>6, <1>7, <1>8, <1>9, <1>10, <1>11, <1>12, <1>13 DEF Next

(* The blocks no pointer leads to any more are decoded images and buffers  *)
(* the release could not find, and at the end of the session orig_img.     *)
THEOREM OnlyImagesLost == Spec => []OnlyPicturesLost
  <1>1. Init => Kept
    BY DEF Init, Kept, OnlyPicturesLost, Pointer
  <1>2. Init => Shape /\ Contents
    BY SessionAssumption, TypeInit
  <1>3. Shape /\ Contents /\ Kept /\ [Next]_vars => Shape' /\ Contents' /\ Kept'
    BY SessionAssumption, TypeNext, KeptNext
  <1>4. Kept => OnlyPicturesLost
    BY DEF Kept
  <1> QED BY <1>1, <1>2, <1>3, <1>4, PTL DEF Spec
=============================================================================
