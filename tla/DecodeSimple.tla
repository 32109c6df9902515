---------------------------- MODULE DecodeSimple ----------------------------
(***************************************************************************)
(* decode_simple of src/mpp/encode/jpg2yuv.cpp: how a stream that is not   *)
(* MJPEG is decoded.  Each call reads one packet from the file, puts it    *)
(* into the decoder's queue and takes the frames that are ready.  The      *)
(* Rockchip decoder is a thread of its own; it asks for buffers with a     *)
(* frame of its own kind and waits for the answer.                         *)
(*                                                                         *)
(* A byte of the file is one coded picture, and a picture is its number.   *)
(***************************************************************************)
EXTENDS DecOptions

CONSTANTS Streams,   \* [size, bad, changes, lines] of the files: how many
                     \* pictures, which has an error, before which the
                     \* decoder asks for buffers, the lines of the ops file
          PacketSize,            \* pkt_size in pictures, without -c
          Queue, FrameBuffers,   \* the decoder's packets and frames
          Times,                 \* 5: how often a timeout is tried again
          Rewinds                \* bound: how often -n -1 starts again

ASSUME DecoderAssumption ==
    /\ PacketSize \in Nat \ {0} /\ Queue \in Nat \ {0} /\ FrameBuffers \in Nat \ {0}
    /\ Times \in Nat /\ Rewinds \in Nat

(* A file has a size, and a line of its ops file that gives a number gives *)
(* both.                                                                   *)
ASSUME StreamAssumption ==
    \A s \in Streams :
        /\ s.size \in Nat /\ Len(s.lines) \in Nat
        /\ \A k \in 1..Len(s.lines) : LET l == s.lines[k]
                                     IN  Len(l) \in {0, 1, 3} /\ (Len(l) = 3 => l[3] \in Nat)

VARIABLES may, ret, held, file, \* shared with mpi_dec_test_decode
          eos,               \* data.eos
          stream, src, line, \* the file, and where fp_input and fp_config are
          rewinds,
          pkt,               \* the packet: [first, n, eos]
          pkt_done, times,
          frame_count, frame,
          queue,             \* the decoder's packets
          decoding,               \* what it works on: [next, last, eos] or Idle
          asked,             \* "no", "waiting" for buffers, "given"
          ready,               \* its frames
          gave_up            \* history: a frame of the last packet was not
                             \* waited for

sourceVars  == <<stream, src, line, rewinds>>
callVars    == <<pkt, pkt_done, times, frame_count, frame>>
decoderVars == <<queue, decoding, asked, ready>>
simpleVars  == <<sourceVars, callVars, decoderVars, gave_up>>
shared      == <<ret, held, file>>

Idle == [next |-> 1, last |-> 0, eos |-> FALSE]
NoFrame == [kind |-> "none", picture |-> 0, eos |-> FALSE]
Frame(kind, picture, last) == [kind |-> kind, picture |-> picture, eos |-> last]

NoStream == [size |-> 0, bad |-> {}, changes |-> {}, lines |-> <<>>]

SimpleInit == /\ stream = NoStream /\ src = 0 /\ line = 0 /\ rewinds = 0
              /\ pkt = [first |-> 1, n |-> 0, eos |-> FALSE] /\ pkt_done = FALSE /\ times = 0
              /\ frame_count = 0 /\ frame = NoFrame
              /\ queue = <<>> /\ decoding = Idle /\ asked = "no" /\ ready = <<>> /\ gave_up = FALSE

Fails(call) == call \in may
Loops == cmd.n < 0
Limit == cmd.n > 0 /\ frame_count >= cmd.n

-----------------------------------------------------------------------------
(* Reading.  A line of the ops file is the sequence of what stands behind  *)
(* its index: a command and two numbers, a command alone, or nothing.  For *)
(* a line that does not parse the command is what the stack holds: <<>>    *)
(* stands for one that finds no "rst" there, and one that finds it does    *)
(* what <<"rst">> does.  Streams has lines of both kinds.                  *)

(* What sscanf finds in a line, and how much; the rest of info stays as it *)
(* was on the stack, which a line with one number is not given to show.    *)
Unset == -1
parse_config_line(l) == [cnt    |-> IF l = <<>> THEN 0 ELSE Len(l) + 1,
                         cmd    |-> IF l = <<>> THEN "" ELSE l[1],
                         value2 |-> IF Len(l) = 3 THEN l[3] ELSE Unset]

Pkt(info) == info.cnt >= 3 /\ info.cmd = "pkt"
Rst(info) == info.cmd = "rst"

(* The place of the next line that counts, one behind the end if none. *)
NextLine == SelectInSubSeq(stream.lines, line + 1, Len(stream.lines),
                           LAMBDA l : Pkt(parse_config_line(l)) \/ Rst(parse_config_line(l)))
UsedLine == IF NextLine = 0 THEN Len(stream.lines) + 1 ELSE NextLine

packet_size ==
    IF cmd.c = None THEN PacketSize
    ELSE IF NextLine = 0 THEN 0
         ELSE LET info == parse_config_line(stream.lines[NextLine])
              IN  IF Pkt(info) THEN info.value2 ELSE 0

Rewind(got) == /\ rewinds < Rewinds
               /\ src' = 0 /\ line' = 0 /\ rewinds' = rewinds + 1

(* fread sees the end of the file only when it asks for more than is left. *)
read_packet ==
    /\ pc = "packet"
    /\ LET size == packet_size
           left == stream.size - src
           got  == IF left < size THEN left ELSE size
           last == size = 0 \/ got < size
       IN  /\ IF last /\ Loops
              THEN Rewind(got) /\ eos' = FALSE
              ELSE src' = src + got /\ line' = UsedLine /\ eos' = last /\ UNCHANGED rewinds
           /\ pkt' = [first |-> src + 1, n |-> got, eos |-> last /\ ~Loops]
           /\ pc' = IF got = 0 /\ last /\ Loops THEN "packet" ELSE "send"
    /\ pkt_done' = FALSE /\ times' = Times
    /\ UNCHANGED <<shared, stream, frame_count, frame, decoderVars, gave_up>>

-----------------------------------------------------------------------------
(* Putting the packet and getting frames *)

(* Mutant: the result of the put is not looked at. *)
PutUnchecked ==
    /\ pc = "send" /\ pc' = "receive" /\ pkt_done' = TRUE
    /\ queue' = IF Len(queue) < Queue THEN Append(queue, pkt) ELSE queue
    /\ UNCHANGED <<shared, eos, sourceVars, pkt, times, frame_count, frame, decoding, asked, ready, gave_up>>

(* A full queue refuses the packet; it is tried again after the frames. *)
decode_put_packet ==
    /\ pc = "send" /\ pc' = "receive"
    /\ IF Len(queue) < Queue
       THEN queue' = Append(queue, pkt) /\ pkt_done' = TRUE
       ELSE UNCHANGED <<queue, pkt_done>>
    /\ UNCHANGED <<shared, eos, sourceVars, pkt, times, frame_count, frame, decoding, asked, ready, gave_up>>

(* Without -x an empty decoder is no error.  With it the call may give up  *)
(* after its time; it is tried again a few times, over all the frames of   *)
(* one turn, then the turn ends.  With -x -1 it waits.                     *)
a_frame ==
    /\ ready # <<>>
    /\ frame' = Head(ready) /\ ready' = Tail(ready) /\ held' = held \cup {"got"}
    /\ pc' = IF Head(ready).kind = "info" THEN "info" ELSE "got"
    /\ UNCHANGED <<times, gave_up>>

no_frame ==
    /\ ready = <<>> /\ cmd.x = 0
    /\ frame' = NoFrame /\ pc' = "got"
    /\ UNCHANGED <<held, ready, times, gave_up>>

timed_out ==
    /\ ready = <<>> /\ cmd.x > 0 /\ times > 0
    /\ times' = times - 1
    /\ UNCHANGED <<pc, held, ready, frame, gave_up>>

no_more ==
    /\ Fails("get_frame") \/ (ready = <<>> /\ cmd.x > 0 /\ times = 0)
    /\ pc' = "turn" /\ gave_up' = (gave_up \/ (pkt.eos /\ pkt_done))
    /\ UNCHANGED <<held, ready, frame, times>>

decode_get_frame ==
    /\ pc = "receive"
    /\ a_frame \/ no_frame \/ timed_out \/ no_more
    /\ UNCHANGED <<ret, file, eos, sourceVars, pkt, pkt_done, frame_count, queue, decoding, asked>>

(* The group is made once and cleared from then on; one call that fails    *)
(* leaves the decoder waiting and the frame where it is.                   *)
GroupCalls == IF "frm_grp" \in held THEN <<"clear", "limit", "info_ready">>
                                    ELSE <<"group", "ext_group", "limit", "info_ready">>

info_change ==
    /\ pc = "info"
    /\ \/ /\ held' = (held \cup {"frm_grp"}) \ {"got"}
          /\ asked' = "given" /\ pc' = "got" /\ ret' = "ok"
       \/ /\ \E i \in DOMAIN GroupCalls : /\ Fails(GroupCalls[i])
                                          /\ held' = held \cup (IF i > 1 THEN {"frm_grp"} ELSE {})
          /\ pc' = "turn" /\ UNCHANGED asked
    /\ UNCHANGED <<ret, file, eos, sourceVars, callVars, queue, decoding, ready, gave_up>>

(* The last packet was sent, and its last frame is still to come.          *)
Awaited(frm_eos) == pkt.eos /\ pkt_done /\ ~frm_eos

(* Mutant: the limit is not looked at while frames are taken. *)
NoLimitInside(frm_eos) ==
    IF Awaited(frm_eos) \/ (~frm_eos /\ frame.kind # "none") THEN "receive" ELSE "turn"

(* Mutant: the last packet's frames are not waited for. *)
NoWait(frm_eos) ==
    IF ~frm_eos /\ ~(cmd.n > 0 /\ frame_count' >= cmd.n) /\ frame.kind # "none"
    THEN "receive" ELSE "turn"

(* After a frame, or none: the last packet's frames are all waited for,    *)
(* whatever the limit.                                                     *)
AfterFrame(frm_eos) ==
    IF \/ Awaited(frm_eos)
       \/ ~frm_eos /\ ~(cmd.n > 0 /\ frame_count' >= cmd.n) /\ frame.kind # "none"
    THEN "receive" ELSE "turn"

(* The frame is counted and dumped, unless the decoder found an error; an  *)
(* empty one has nothing to dump.                                          *)
use_frame ==
    /\ pc = "got"
    /\ frame_count' = frame_count + (IF frame.kind \in {"picture", "empty"} THEN 1 ELSE 0)
    /\ file' = file \o (IF /\ frame.kind = "picture" /\ cmd.o # None
                           /\ frame.picture \notin stream.bad
                        THEN <<frame.picture>> ELSE <<>>)
    /\ held' = held \ {"got"}
    /\ pc' = AfterFrame(frame.eos)
    /\ eos' = (eos \/ (pc' = "turn" /\ ~frame.eos /\ cmd.n > 0 /\ frame_count' >= cmd.n))
    /\ frame' = NoFrame
    /\ UNCHANGED <<ret, sourceVars, pkt, pkt_done, times, decoderVars, gave_up>>

(* The end of a turn: the limit, the packet is sent, or again.  The call   *)
(* may return with frames still to come when the decoder was too slow.    *)
end_turn ==
    /\ pc = "turn"
    /\ eos' = (eos \/ Limit)
    /\ IF Limit \/ pkt_done
       THEN /\ pc' = IF eos' THEN "query" ELSE "packet"
            /\ UNCHANGED times
       ELSE pc' = "send" /\ times' = Times
    /\ UNCHANGED <<shared, sourceVars, pkt, pkt_done, frame_count, frame, decoderVars, gave_up>>

-----------------------------------------------------------------------------
(* The decoder, external: it takes packets in their order and gives their  *)
(* pictures in theirs, asks for buffers before the pictures of a new size, *)
(* and marks the last frame, or gives an empty one, after the last packet. *)

MoreToDo == decoding.next <= decoding.last \/ decoding.eos

take_packet ==
    /\ "ctx" \in held /\ ~MoreToDo /\ queue # <<>>
    /\ LET p == Head(queue)
       IN  decoding' = [next |-> p.first, last |-> p.first + p.n - 1, eos |-> p.eos]
    /\ queue' = Tail(queue)
    /\ UNCHANGED <<asked, ready>>

ask_for_buffers ==
    /\ asked = "no" /\ decoding.next <= decoding.last /\ decoding.next \in stream.changes
    /\ Len(ready) < FrameBuffers
    /\ ready' = Append(ready, Frame("info", 0, FALSE)) /\ asked' = "waiting"
    /\ UNCHANGED <<queue, decoding>>

decode_picture ==
    /\ decoding.next <= decoding.last /\ Len(ready) < FrameBuffers
    /\ decoding.next \in stream.changes => asked = "given"
    /\ \E marked \in BOOLEAN :
          /\ marked => decoding.eos /\ decoding.next = decoding.last
          /\ ready' = Append(ready, Frame("picture", decoding.next, marked))
          /\ decoding' = [decoding EXCEPT !.next = @ + 1, !.eos = @ /\ ~marked]
    /\ asked' = "no"
    /\ UNCHANGED queue

decode_end ==
    /\ decoding.next > decoding.last /\ decoding.eos /\ Len(ready) < FrameBuffers
    /\ ready' = Append(ready, Frame("empty", 0, TRUE))
    /\ decoding' = Idle
    /\ UNCHANGED <<queue, asked>>

SimpleDecoder ==
    /\ take_packet \/ ask_for_buffers \/ decode_picture \/ decode_end
    /\ UNCHANGED <<pc, shared, eos, sourceVars, callVars, gave_up>>

SimpleStep == read_packet \/ decode_put_packet \/ decode_get_frame
              \/ info_change \/ use_frame \/ end_turn
=============================================================================
