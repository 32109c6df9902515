------------------------------ MODULE MCSession ------------------------------
(* Three pictures tell the one in hand from the one before and the one     *)
(* after.  Tolerated are the failures the loop survives, or that end it    *)
(* before a detection is reported; another session works alongside.        *)
EXTENDS Session

Tolerated    == {"load_model", "rknn_init", "query", "input_attr",
                 "save_file", "mpp_jpg2yuv", "get_file", "imresize",
                 "outputs_get"}
AllScenarios == {Tolerated, Tolerated \cup {"others"}, {"deinit"}}
Loop         == {{}}
=============================================================================
