---------------------------- MODULE MCFrameFiles ----------------------------
(***************************************************************************)
(* Pictures of 4 by 2: without padding, with padded rows, with padding     *)
(* rows too, and with a stride just wide enough for 32-bit pixels.         *)
(***************************************************************************)
EXTENDS FrameFiles

G(hs, vs) == [w |-> 4, h |-> 2, hs |-> hs, vs |-> vs]
MCGeometries == {G(4, 2), G(10, 2), G(6, 4), G(16, 2)}
MCDumpFormats == {"YUV420SP", "YUV420P", "YUV422SP", "YUV444SP", "YUV400", "YUV411SP"}
MCFillFormats == {"YUV420SP", "YUV420P", "YUV422_UYVY"} \cup Rgb16 \cup Rgb32
MCReadFormats == MCDumpFormats \cup Fbc
                 \cup {name_to_frame_format(ext, "YUV400") : ext \in DOMAIN map_ext_to_frm_fmt \cup {"bin"}}
=============================================================================
