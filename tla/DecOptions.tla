----------------------------- MODULE DecOptions -----------------------------
(***************************************************************************)
(* The command line of the decoder: mpi_dec_test_parse_options of          *)
(* src/mpp/encode/jpg2yuv.cpp, one argument or pair of arguments a step.   *)
(* mpp_jpg2yuv calls it with a command line of its own, written in the     *)
(* code in place of main's (jpg2yuv.cpp:935).                              *)
(*                                                                         *)
(* An argument is a record: what kind it is, the option's letter, the      *)
(* number atoi makes of it and the extension of the file it names.         *)
(***************************************************************************)
EXTENDS Integers, FiniteSets, SequencesExt

CONSTANT CommandLines \* sequences of arguments, argv[0] left out

VARIABLES pc, argv, optindex, handleoptions, err, cmd

optVars == <<argv, optindex, handleoptions, err, cmd>>

None == "none"

(* Only an option has a letter.                                            *)
Argument == {a \in [is : {"option", "--", "word"}, c : STRING, n : Int, ext : STRING] :
                a.is # "option" => a.c = ""}

ASSUME CommandAssumption == CommandLines \subseteq Seq(Argument)

Option(c)      == [is |-> "option", c |-> c, n |-> 0, ext |-> ""]   \* -c, --c, -c...
DashDash       == [is |-> "--", c |-> "", n |-> 0, ext |-> ""]
Number(n)      == [is |-> "word", c |-> "", n |-> n, ext |-> ""]
Name(ext)      == [is |-> "word", c |-> "", n |-> 0, ext |-> ext]   \* name.ext, or -

(* The coding types count up from 0, and again from 0x01000000.            *)
MppCodingType ==
    [Unused |-> 0, AutoDetect |-> 1, MPEG2 |-> 2, H263 |-> 3, MPEG4 |-> 4, WMV |-> 5, RV |-> 6,
     AVC |-> 7, MJPEG |-> 8, VP8 |-> 9, VP9 |-> 10, VC1 |-> 16777216, FLV1 |-> 16777217,
     DIVX3 |-> 16777218, VP6 |-> 16777219, HEVC |-> 16777220, AVSPLUS |-> 16777221, AVS |-> 16777222]

AVC   == MppCodingType.AVC
HEVC  == MppCodingType.HEVC
MJPEG == MppCodingType.MJPEG
Codings == [AVC |-> {"h264", "264", "avc"}, HEVC |-> {"h265", "265", "hevc"},
            MJPEG |-> {"jpg", "jpeg", "mjpeg"}]

(* A file whose extension says nothing leaves the type as it is. *)
name_to_coding_type(name, coding) ==
    CASE name.ext \in Codings.AVC   -> AVC
      [] name.ext \in Codings.HEVC  -> HEVC
      [] name.ext \in Codings.MJPEG -> MJPEG
      [] OTHER                      -> coding

BUTT == -1      \* MPP_FMT_BUTT: no output format asked for
Small == "4K"
Large == "1M"

(* What the command line may make of it. *)
MpiDecTestCmd(files, numbers) ==
    [i : files, o : files, c : files, d : numbers, w : numbers, h : numbers, t : numbers,
     f : numbers, x : numbers, n : numbers, pkt_size : {Small, Large}]

Defaults == [i |-> None, o |-> None, c |-> None, d |-> 0, w |-> 0, h |-> 0, t |-> 0,
             f |-> BUTT, x |-> 0, n |-> 0, pkt_size |-> Small]

OptionsInit == /\ pc = "options" /\ argv \in CommandLines /\ optindex = 1
               /\ handleoptions = TRUE /\ err = "MPP_NOK" /\ cmd = Defaults

-----------------------------------------------------------------------------
Known == {"i", "o", "c", "d", "w", "h", "t", "f", "x", "n"}

(* Mutant: the packets stay small with -c. *)
SmallPackets(c, next) ==
    CASE c = "i" -> [cmd EXCEPT !.i = next.ext, !.t = name_to_coding_type(next, @)]
      [] c = "o" -> [cmd EXCEPT !.o = next.ext]
      [] c = "c" -> [cmd EXCEPT !.c = next.ext]
      [] OTHER   -> [cmd EXCEPT ![c] = next.n]

(* What an option and the argument behind it make of cmd. *)
Assigned(c, next) ==
    CASE c = "i" -> [cmd EXCEPT !.i = next.ext, !.t = name_to_coding_type(next, @)]
      [] c = "o" -> [cmd EXCEPT !.o = next.ext]
      [] c = "c" -> [cmd EXCEPT !.c = next.ext, !.pkt_size = Large]
      [] OTHER   -> [cmd EXCEPT ![c] = next.n]

(* mpp_check_support_format of the coding type: external. *)
Supported(type) == type \in {AVC, HEVC, MJPEG}
Checked(c, next, e) ==
    IF c = "t" THEN IF Supported(next.n) THEN "MPP_OK" ELSE "MPP_NOK" ELSE e

(* Mutant: the timeout's sign is not looked at. *)
AnyTimeout(c, next, e) == c \in {"t", "f"} /\ e # "MPP_OK"

(* Where the parser stops: -t with a type it does not know, -f while err   *)
(* is not 0 - which it only is after a good -t -, a negative timeout.      *)
Stops(c, next, e) == (c \in {"t", "f"} /\ e # "MPP_OK") \/ (c = "x" /\ next.n < 0)

Here == argv[optindex]
Next1 == argv[optindex + 1]
IsOption == Here.is = "option" /\ handleoptions
HasNext == optindex < Len(argv)

(* A word alone is passed over, whatever it is. *)
skip_word ==
    /\ pc = "options" /\ optindex <= Len(argv)
    /\ Here.is = "word" \/ ~handleoptions
    /\ optindex' = optindex + 1
    /\ UNCHANGED <<pc, argv, handleoptions, err, cmd>>

end_of_options ==
    /\ pc = "options" /\ optindex <= Len(argv) /\ handleoptions /\ Here.is = "--"
    /\ handleoptions' = FALSE /\ optindex' = optindex + 1
    /\ UNCHANGED <<pc, argv, err, cmd>>

(* An option takes the next argument, whatever it looks like; so does one  *)
(* that is not known.                                                      *)
take_option ==
    /\ pc = "options" /\ optindex <= Len(argv) /\ IsOption
    /\ Here.c \in Known => HasNext
    /\ Here.c # "help"
    /\ optindex' = optindex + 2
    /\ IF Here.c \in Known
       THEN LET e == Checked(Here.c, Next1, err)
            IN  /\ cmd' = Assigned(Here.c, Next1)
                /\ err' = e
                /\ pc' = IF Stops(Here.c, Next1, e) THEN "parsed" ELSE pc
       ELSE UNCHANGED <<cmd, err, pc>>
    /\ UNCHANGED <<argv, handleoptions>>

(* goto PARSE_OPINIONS_OUT with the err there is; -help sets it. *)
stop_parsing ==
    /\ pc = "options" /\ optindex <= Len(argv) /\ IsOption
    /\ \/ Here.c = "help" /\ err' = "help"
       \/ Here.c \in Known /\ ~HasNext /\ UNCHANGED err
    /\ pc' = "parsed"
    /\ UNCHANGED <<argv, optindex, handleoptions, cmd>>

(* All arguments are read; mpp_jpg2yuv's is never empty. *)
all_parsed ==
    /\ pc = "options" /\ optindex > Len(argv)
    /\ pc' = "parsed" /\ err' = "MPP_OK"
    /\ UNCHANGED <<argv, optindex, handleoptions, cmd>>

ParseStep == skip_word \/ end_of_options \/ take_option \/ stop_parsing \/ all_parsed
=============================================================================
