------------------------------ MODULE MppDecode ------------------------------
(***************************************************************************)
(* mpp_jpg2yuv of src/mpp/encode/jpg2yuv.cpp: one decoding of test.jpeg to *)
(* test.nv12, or of another stream when its command line says so.  The     *)
(* options are parsed (DecOptions), mpi_dec_test_decode acquires its       *)
(* resources one by one, runs decode_advanced for MJPEG and decode_simple  *)
(* (DecodeSimple) for all else until the end of the stream, and releases   *)
(* what it holds.  For decode_advanced the Rockchip decoder is reached     *)
(* through two ports, each with one task: a task is taken from a port,     *)
(* filled or read, and given back.                                         *)
(***************************************************************************)
EXTENDS DecodeSimple

CONSTANTS Scenarios \* sets of calls that may fail in one decoding

VARIABLES step,      \* the resource acquired, or released, next
          packet,    \* what the packet holds: "picture" or "nothing"
          in, out,   \* each port's task: at the "port", the "user", the
                     \* "decoder", "ready" with a frame in it, or "lost"
                     \* when a failed enqueue kept it
          job,       \* what the decoder works on: a packet, or "idle"
          image      \* content of the output frame: "blank", "picture"

advancedVars == <<step, packet, in, out, job, image>>
vars == <<pc, optVars, may, shared, eos, simpleVars, advancedVars>>

Simple == cmd.t # MJPEG

(* The acquisitions in their order, as the options ask for them; the       *)
(* packet of decode_advanced is wrapped around its buffer at once, the     *)
(* controls and mpp_init leave nothing to release.                         *)
If(condition, calls) == IF condition THEN calls ELSE <<>>
Setup == <<"fp_input">>
         \o If(cmd.o # None, <<"fp_output">>) \o If(cmd.c # None, <<"fp_config">>)
         \o (IF Simple THEN <<"buf", "packet">>
                       ELSE <<"frm_grp", "pkt_grp", "frame", "frm_buf", "pkt_buf">>)
         \o <<"ctx", "control">> \o If(cmd.x # 0, <<"timeout">>) \o <<"mpp_init">>
Files == {"fp_input", "fp_output", "fp_config"}

(* Mutant: the groups go before the buffers they gave. *)
GroupsFirst == <<"packet", "frame", "ctx", "buf", "pkt_grp", "frm_grp", "pkt_buf", "frm_buf",
                 "fp_output", "fp_input">>

(* The releases after MPP_TEST_OUT, in their order; the ops file is not    *)
(* among them.                                                             *)
Release == <<"packet", "frame", "ctx", "buf", "pkt_buf", "frm_buf", "pkt_grp", "frm_grp",
             "fp_output", "fp_input">>

Old == 0      \* the picture of another decoding
Init == /\ OptionsInit /\ SimpleInit
        /\ may = {} /\ ret = "ok" /\ held = {} /\ file = <<Old>> /\ eos = FALSE
        /\ step = 1 /\ packet = "nothing"
        /\ in = "port" /\ out = "port" /\ job = "idle" /\ image = "blank"

Goes(from, to) == pc = from /\ pc' = to

(* goto MPP_TEST_OUT *)
Out == pc' = "release" /\ step' = 1

-----------------------------------------------------------------------------
(* mpp_jpg2yuv: no decoding after an error of the parser.  Here the model  *)
(* chooses the file and the calls that may fail.                           *)
mpp_jpg2yuv ==
    /\ pc = "parsed"
    /\ IF err # "MPP_OK"
       THEN pc' = "done" /\ ret' = "error" /\ UNCHANGED <<may, stream>>
       ELSE /\ pc' = "setup" /\ UNCHANGED ret
            /\ may' \in Scenarios
            /\ stream' \in IF Simple THEN Streams
                          ELSE {[NoStream EXCEPT !.size = n] : n \in {0, 1}}
    /\ UNCHANGED <<optVars, held, file, eos, src, line, rewinds, callVars, decoderVars, gave_up,
                   advancedVars>>

-----------------------------------------------------------------------------
(* mpi_dec_test_decode, up to the loop *)

Acquires(resources) ==
    /\ held' = held \cup resources
    /\ IF step = Len(Setup) THEN pc' = (IF Simple THEN "packet" ELSE "read") /\ UNCHANGED step
                            ELSE step' = step + 1 /\ UNCHANGED pc

still == <<optVars, may, eos, simpleVars, packet, in, out, job, image>>

(* A file that does not open ends the decoding with the ret there is. *)
open_input ==
    /\ pc = "setup" /\ Setup[step] \in {"fp_input", "fp_config"}
    /\ \/ Acquires({Setup[step]})
       \/ Fails(Setup[step]) /\ Out /\ UNCHANGED held
    /\ UNCHANGED <<ret, file, still>>

(* Mutant: the output is opened without emptying it. *)
OpenToUpdate ==
    /\ pc = "setup" /\ Setup[step] = "fp_output"
    /\ Acquires({"fp_output"})
    /\ UNCHANGED <<ret, file, still>>

open_output ==
    /\ pc = "setup" /\ Setup[step] = "fp_output"
    /\ \/ Acquires({"fp_output"}) /\ file' = <<>>
       \/ Fails("fp_output") /\ Out /\ UNCHANGED <<held, file>>
    /\ UNCHANGED <<ret, still>>

Gains(call) == CASE call = "pkt_buf" -> {"pkt_buf", "packet"}
                 [] call \in {"control", "timeout", "mpp_init"} -> {}
                 [] OTHER -> {call}

(* Groups, frame, buffers, context; a MJPEG packet has the file's size and *)
(* there is no buffer of size 0.  mpp_malloc leaves ret as it was.         *)
get_buffers ==
    /\ pc = "setup" /\ Setup[step] \notin Files
    /\ LET call == Setup[step]
           none == call = "pkt_buf" /\ stream.size = 0
       IN  \/ ~none /\ Acquires(Gains(call)) /\ ret' = "ok"
           \/ /\ none \/ Fails(call)
              /\ Out /\ ret' = (IF call = "buf" THEN ret ELSE "error") /\ UNCHANGED held
    /\ UNCHANGED <<file, still>>

-----------------------------------------------------------------------------
(* decode_advanced; the loop calls it again until data.eos, whatever it    *)
(* returns.                                                                *)

Again == IF eos THEN "query" ELSE "read"
Returns == pc' = Again

Rest == <<optVars, may, ret, held, stream, line, rewinds, callVars, decoderVars, gave_up, step>>
Io   == <<Rest, file, eos, src, packet>>

(* Mutant: the end of the stream is looked for in the packet's length. *)
EosUnseen ==
    /\ Goes("read", "put_poll")
    /\ packet' = IF src < stream.size THEN "picture" ELSE "nothing"
    /\ src' = stream.size
    /\ UNCHANGED <<Rest, file, eos, in, out, job, image>>

(* fread asks for exactly the file's size: the first call gets it all and  *)
(* does not see the end, the second gets nothing and does.                 *)
read ==
    /\ Goes("read", "put_poll")
    /\ packet' = IF src < stream.size THEN "picture" ELSE "nothing"
    /\ src' = stream.size
    /\ eos' = (src = stream.size)
    /\ UNCHANGED <<Rest, file, in, out, job, image>>

(* poll blocks until the port has a task. *)
put_poll == /\ pc = "put_poll"
            /\ \/ in = "port" /\ pc' = "put"
               \/ Fails("poll_in") /\ Returns
            /\ UNCHANGED <<Io, in, out, job, image>>

put_dequeue == /\ pc = "put" /\ in = "port"
               /\ \/ in' = "user" /\ pc' = "put_enqueue"
                  \/ Fails("dequeue_in") /\ Returns /\ UNCHANGED in
               /\ UNCHANGED <<Io, out, job, image>>

put_enqueue == /\ pc = "put_enqueue"
               /\ \/ in' = "decoder" /\ pc' = "get_poll"
                  \/ Fails("enqueue_in") /\ in' = "lost" /\ Returns
               /\ UNCHANGED <<Io, out, job, image>>

get_poll == /\ pc = "get_poll"
            /\ \/ out = "ready" /\ pc' = "get"
               \/ Fails("poll_out") /\ Returns
            /\ UNCHANGED <<Io, in, out, job, image>>

get_dequeue == /\ pc = "get" /\ out = "ready"
               /\ \/ out' = "user" /\ pc' = "write"
                  \/ Fails("dequeue_out") /\ Returns /\ UNCHANGED out
               /\ UNCHANGED <<Io, in, job, image>>

Picture == 1
Dumped  == IF image = "blank" \/ cmd.o = None THEN <<>> ELSE <<Picture>>

(* Mutant: the output task is kept. *)
KeepTask == /\ pc = "write"
            /\ file' = file \o Dumped
            /\ out' = "lost"
            /\ Returns
            /\ UNCHANGED <<Rest, eos, src, packet, in, job, image>>

(* dump_mpp_frame_to_file writes nothing of a frame the decoder has given  *)
(* no size; then the task goes back.                                       *)
write == /\ pc = "write"
         /\ file' = file \o Dumped
         /\ \/ out' = "port"
            \/ Fails("enqueue_out") /\ out' = "lost"
         /\ Returns
         /\ UNCHANGED <<Rest, eos, src, packet, in, job, image>>

-----------------------------------------------------------------------------
(* The query and the reset give the decoding its result; the reset takes   *)
(* the decoder's work, its tasks and its frames back.                      *)
Stopped == /\ in' = "port" /\ out' = "port" /\ job' = "idle"
           /\ queue' = <<>> /\ decoding' = Idle /\ ready' = <<>> /\ asked' = "no"

query == /\ pc = "query" /\ Out
         /\ \/ ret' = "ok" /\ Stopped
            \/ /\ Fails("query") \/ Fails("reset")
               /\ ret' = "error" /\ UNCHANGED <<in, out, job, decoderVars>>
         /\ UNCHANGED <<optVars, may, held, file, eos, sourceVars, callVars, gave_up, packet, image>>

Released == IF step = Len(Release) THEN pc' = "done" /\ UNCHANGED step
                                   ELSE step' = step + 1 /\ UNCHANGED pc

(* Mutant: the groups are left to the library. *)
KeepGroups == /\ pc = "release"
              /\ held' = held \ ({Release[step]} \ {"frm_grp", "pkt_grp"})
              /\ Released
              /\ UNCHANGED <<ret, file, still>>

(* MPP_TEST_OUT: each resource, if it is held; the decoder's thread ends   *)
(* with its context.                                                       *)
release == /\ pc = "release"
           /\ held' = held \ {Release[step]}
           /\ Released
           /\ IF Release[step] = "ctx"
              THEN job' = "idle" /\ queue' = <<>> /\ decoding' = Idle /\ ready' = <<>> /\ asked' = "no"
              ELSE UNCHANGED <<job, decoderVars>>
           /\ UNCHANGED <<optVars, may, ret, file, eos, sourceVars, callVars, gave_up, packet,
                          in, out, image>>

-----------------------------------------------------------------------------
(* The decoder at its ports *)

take == /\ "ctx" \in held /\ in = "decoder" /\ job = "idle"
        /\ job' = packet
        /\ UNCHANGED <<pc, Io, in, out, image>>

(* An empty packet leaves the frame as it was. *)
decode == /\ job # "idle" /\ out = "port"
          /\ image' = IF job = "picture" THEN "picture" ELSE image
          /\ out' = "ready" /\ in' = "port" /\ job' = "idle"
          /\ UNCHANGED <<pc, Io>>

-----------------------------------------------------------------------------
Thread == \/ ParseStep /\ UNCHANGED <<may, shared, eos, simpleVars, advancedVars>>
          \/ mpp_jpg2yuv
          \/ open_input \/ open_output \/ get_buffers \/ query \/ release
          \/ read \/ put_poll \/ put_dequeue \/ put_enqueue
          \/ get_poll \/ get_dequeue \/ write
          \/ SimpleStep /\ UNCHANGED <<optVars, may, advancedVars>>

Decoder == \/ take \/ decode
           \/ SimpleDecoder /\ UNCHANGED <<optVars, may, advancedVars>>

Next == Thread \/ Decoder

(* Neither the thread nor the decoder stops while it can go on; a call     *)
(* that waits is not bound to fail.                                        *)
Owed == /\ pc = "put_poll" => in = "port"
        /\ pc = "get_poll" => out = "ready"
        /\ pc = "receive" /\ cmd.x < 0 => ready # <<>>
Spec == Init /\ [][Next]_vars /\ WF_vars(Thread /\ Owed) /\ WF_vars(Decoder)

-----------------------------------------------------------------------------
Pcs == {"options", "parsed", "setup", "read", "put_poll", "put", "put_enqueue", "get_poll", "get",
        "write", "packet", "send", "receive", "info", "got", "turn", "query", "release", "done"}
Resources == Range(Release) \cup {"fp_config", "got"}
IsFrame(f) == f.kind \in {"none", "info", "picture", "empty"} /\ f.eos \in BOOLEAN

TypeOK ==
    /\ cmd \in MpiDecTestCmd({None} \cup {argv[k].ext : k \in DOMAIN argv},
                           {0, BUTT, AVC, HEVC, MJPEG} \cup {argv[k].n : k \in DOMAIN argv})
    /\ pc \in Pcs /\ err \in {"MPP_OK", "MPP_NOK", "help"} /\ optindex \in 1..(Len(argv) + 2)
    /\ may \in Scenarios \cup {{}} /\ ret \in {"ok", "error"} /\ held \subseteq Resources
    /\ step \in 1..Len(Setup) \cup 1..Len(Release)
    /\ eos \in BOOLEAN /\ src \in 0..stream.size /\ line \in 0..(Len(stream.lines) + 1)
    /\ pkt.first \in 1..(stream.size + 1) /\ pkt.n \in 0..stream.size
    /\ pkt_done \in BOOLEAN /\ times \in 0..Times /\ rewinds \in 0..Rewinds
    /\ IsFrame(frame) /\ (\A i \in DOMAIN ready : IsFrame(ready[i]))
    /\ Len(queue) <= Queue /\ Len(ready) <= FrameBuffers /\ asked \in {"no", "waiting", "given"}
    /\ packet \in {"picture", "nothing"} /\ image \in {"picture", "blank"}
    /\ in \in {"port", "user", "decoder", "lost"} /\ out \in {"port", "user", "ready", "lost"}
    /\ job \in {"picture", "nothing", "idle"}
    /\ file \in Seq(0..stream.size) /\ Len(file) <= 1 + (Rewinds + 1) * stream.size

(* What the command line says: every option has the value given last, all  *)
(* else its default, the type comes from the last of -i and -t, and -c     *)
(* asks for large packets.  For lines of pairs the parser takes to the     *)
(* end, unless a negative timeout follows a good -t: that stops it with    *)
(* the err that is 0 since then, and what stands behind is not looked at.  *)
Options == {k \in DOMAIN argv : k % 2 = 1}
Pairs   == Len(argv) % 2 = 0 /\ \A k \in Options : argv[k].c \in Known
Given(c) == {k \in Options : k < optindex /\ argv[k].c \in c}
Value(c) == argv[Max(Given({c})) + 1]
OptionsUnderstood ==
    pc \notin {"options", "parsed", "done"} /\ Pairs =>
        /\ optindex > Len(argv) \/ cmd.x < 0
        /\ \A c \in {"d", "w", "h", "n", "x", "f"} :
              cmd[c] = IF Given({c}) = {} THEN Defaults[c] ELSE Value(c).n
        /\ \A c \in {"i", "o", "c"} :
              cmd[c] = IF Given({c}) = {} THEN None ELSE Value(c).ext
        /\ (cmd.pkt_size = Large) <=> Given({"c"}) # {}
        /\ LET typed == {k \in Given({"i", "t"}) :
                            argv[k].c = "t" \/ \E set \in Range(Codings) : argv[k + 1].ext \in set}
           IN  typed # {} =>
                   LET k == Max(typed)
                   IN  IF argv[k].c = "t" THEN cmd.t = argv[k + 1].n
                       ELSE Simple <=> argv[k + 1].ext \notin Codings.MJPEG

(* A line that ends with an option without its value, or names a timeout   *)
(* below 0, starts no decoding, unless a good -t came before: that leaves  *)
(* err at 0, and the parser's error is taken for success.                  *)
BadLinesRefused ==
    pc \notin {"options", "parsed", "done"} /\ (\A k \in Options : argv[k].c \in Known) =>
        \/ Given({"t"}) # {}
        \/ Len(argv) % 2 = 0 /\ cmd.x >= 0

(* The decoder is given what the line says, or nothing. *)
CommandLineKept == OptionsUnderstood /\ BadLinesRefused

(* Every exit, from a failed first step to the end, releases all it holds  *)
(* but the ops file, and also the frames got from the decoder unless       *)
(* giving it its buffers failed.                                           *)
GroupCallNames == {"group", "ext_group", "clear", "limit", "info_ready"}
ReleasesAll ==
    pc = "done" =>
        held \subseteq {"fp_config"} \cup (IF may \cap GroupCallNames = {} THEN {} ELSE {"got"})

(* What a resource rests on outlives it: a buffer its group, a packet its  *)
(* buffer, and, when the query and the reset succeed, the decoder at work  *)
(* its packet and its frame.                                               *)
Outlives ==
    /\ "packet" \in held => "pkt_buf" \in held \/ "buf" \in held
    /\ "pkt_buf" \in held => "pkt_grp" \in held
    /\ "frm_buf" \in held => "frm_grp" \in held
    /\ job # "idle" /\ may \cap {"query", "reset"} = {} =>
           {"packet", "frame", "pkt_buf", "frm_buf"} \subseteq held

(* Resources are released on every path, and in an order in which nothing  *)
(* is used after its release.                                              *)
ReleasedInOrder == ReleasesAll /\ Outlives

(* core.cpp ignores the result and reads the first frame of the file: that *)
(* is this picture, or the file is empty, never the picture before, unless *)
(* the command line was refused, names no output or a file did not open.   *)
NeverOld ==
    pc = "done" /\ err = "MPP_OK" /\ cmd.o # None /\ may \cap Files = {} =>
        file = <<>> \/ file[1] # Old

(* The pictures of a stream are dumped in its order, each once; those      *)
(* with an error are not, and -n -1 begins again with the first.           *)
InOrder ==
    Simple /\ pc \in {"packet", "send", "receive", "info", "got", "turn", "query"} /\ cmd.o # None =>
        LET good(p) == p \notin stream.bad
            follows(p, q) == p < q /\ \A r \in (p + 1)..(q - 1) : ~good(r)
        IN  /\ \A i \in DOMAIN file : good(file[i])
            /\ file # <<>> => follows(0, file[1])
            /\ \A i \in 1..(Len(file) - 1) :
                  follows(file[i], file[i + 1]) \/ (Loops /\ follows(0, file[i + 1]))

(* When the decoding is over, all its pictures are there, if no limit and  *)
(* no ops file was given, no call failed and the last packet's frames were *)
(* waited for.                                                             *)
NothingLost ==
    Simple /\ pc = "query" /\ cmd.o # None /\ cmd.c = None /\ cmd.n = 0 /\ ~gave_up
    /\ may \cap (GroupCallNames \cup {"get_frame"}) = {} =>
        {file[i] : i \in DOMAIN file} = 1..stream.size \ stream.bad

(* -n: no more frames than that, unless the last packet brings more: its   *)
(* frames are taken to the end before the limit is looked at.              *)
WithinLimit == cmd.n > 0 /\ frame_count > cmd.n => pkt.eos /\ pkt_done

(* All the pictures that were asked for, and no more. *)
AsManyAsAsked == NothingLost /\ WithinLimit

(* The decoding ends, whatever fails but giving a task back to its port,   *)
(* the decoder its buffers, or taking its frames; not with -n -1, nor with *)
(* -x -1, which waits for a frame where no more is to come.                *)
Stuck == {"enqueue_in", "enqueue_out", "get_frame"} \cup GroupCallNames
Ends == <>(pc = "done" \/ may \cap Stuck # {} \/ cmd.n < 0 \/ cmd.x < 0)
=============================================================================
