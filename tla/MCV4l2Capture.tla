---------------------------- MODULE MCV4l2Capture ----------------------------
(* Rings of one and two buffers; frame numbers modulo three tell the frame *)
(* before and the frame after from the one in a buffer.  Everything may    *)
(* fail; everything but what loses the device or its buffers; nothing; the  *)
(* controls, of a camera that is stopped and started.                      *)
EXTENDS CameraControls

AllCalls == {"open", "querycap", "enuminput", "s_input", "enum_fmt", "s_fmt", "reqbufs",
             "querybuf", "mmap", "qbuf_all", "streamon", "poll", "dqbuf", "qbuf", "streamoff"}

AllScenarios == {AllCalls \cup {"deinit"},
                 (AllCalls \cup {"deinit"}) \ {"open", "reqbufs", "mmap"},
                 {},
                 {"deinit", "exposure", "g_mode", "s_mode", "g_abs", "s_abs"}}
=============================================================================
