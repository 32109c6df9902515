---------------------------- MODULE MCMppDecode ----------------------------
(***************************************************************************)
(* mpp_jpg2yuv's own command line and others, good and bad, with every     *)
(* call that can fail failing at will: all of them; all but opening a      *)
(* file; all but the last two; all but those the decoding may wait for     *)
(* for ever; none.                                                         *)
(***************************************************************************)
EXTENDS MppDecode

Line(ext, more) == <<Option("i"), Name(ext), Option("o"), Name("nv12")>> \o more
Of(c, n) == <<Option(c), Number(n)>>
Ops      == <<Option("c"), Name("ops")>>

MCCommandLines ==
    {Line("jpeg", Of("w", 640) \o Of("h", 360)),
     Line("h264", <<>>), Line("h264", Of("n", 2)), Line("h264", Of("x", 1)),
     Line("h265", Of("n", 1) \o Of("x", 1)), Line("h264", Of("n", -1)), Line("h264", Ops),
     Line("h264", Ops \o Of("n", -1)), <<Option("i"), Name("avc")>>,
     Line("bin", Of("t", MJPEG)), Line("bin", Of("t", AVC) \o Of("f", 4)), Line("jpeg", Of("f", 4)),
     Line("h264", Of("t", AVC) \o Of("x", -1) \o Of("n", 2)), Line("h264", Of("x", -1)), Line("h264", Of("t", 3)),
     Line("h264", <<Option("n")>>), Line("h264", <<Option("help")>>),
     Line("h264", Of("z", 1) \o Of("n", 1) \o Of("n", 2)),
     Line("h264", <<DashDash, Option("n"), Number(1)>>), <<Number(5)>> \o Line("jpeg", <<>>)}

Stream(size, bad, changes, lines) ==
    [size |-> size, bad |-> bad, changes |-> changes, lines |-> lines]
PktLine(n) == <<"pkt", 0, n>>
MCStreams == {Stream(0, {}, {}, <<>>), Stream(3, {}, {1}, <<PktLine(1), <<"idr">>, PktLine(2), <<"rst">>>>),
              Stream(4, {3}, {1, 3}, <<<<>>, PktLine(3)>>), Stream(2, {}, {1}, <<<<"rst">>, PktLine(2)>>)}

SetupCalls == {"frm_grp", "pkt_grp", "frame", "frm_buf", "pkt_buf", "buf", "packet", "ctx",
               "control", "timeout", "mpp_init"}
Waits      == {"poll_in", "dequeue_in", "poll_out", "dequeue_out"}
Ending     == {"query", "reset"}
AllCalls   == SetupCalls \cup Files \cup Waits \cup Ending \cup Stuck
MCScenarios == {AllCalls, AllCalls \ Files, AllCalls \ Ending, AllCalls \ Stuck, {}}
=============================================================================
