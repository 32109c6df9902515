---------------------------- MODULE DecodeProofs ----------------------------
(***************************************************************************)
(* What one decoding of jpg2yuv.cpp holds and when it lets go of it, and   *)
(* what it leaves in its output file: for every command line, stream and   *)
(* set of failing calls, whatever the decoder's thread does meanwhile.     *)
(***************************************************************************)
EXTENDS MppDecode, SequenceTheorems, WellFoundedInduction, TLAPS

AdvancedPcs == {"read", "put_poll", "put", "put_enqueue", "get_poll", "get", "write"}
SimplePcs   == {"packet", "send", "receive", "info", "got", "turn"}
LoopPcs     == AdvancedPcs \cup SimplePcs \cup {"query"}
Early       == {"options", "parsed"}

(* What a decoding may have to acquire. *)
Calls == {"fp_input", "fp_output", "fp_config", "buf", "packet", "frm_grp", "pkt_grp", "frame",
          "frm_buf", "pkt_buf", "ctx", "control", "timeout", "mpp_init"}

-----------------------------------------------------------------------------
(* The order of the acquisitions. *)

(* What rests on something comes behind it. *)
Ordered(s) ==
    \A j \in 1..Len(s) :
        /\ s[j] = "packet"  => \E i \in 1..(j - 1) : s[i] = "buf"
        /\ s[j] = "pkt_buf" => \E i \in 1..(j - 1) : s[i] = "pkt_grp"
        /\ s[j] = "frm_buf" => \E i \in 1..(j - 1) : s[i] = "frm_grp"

Has(s, call) == \E i \in 1..Len(s) : s[i] = call

LEMMA ConcatParts ==
    ASSUME NEW s \in Seq(Calls), NEW t \in Seq(Calls)
    PROVE  /\ s \o t \in Seq(Calls) /\ Len(s \o t) = Len(s) + Len(t)
           /\ Len(s) \in Nat /\ Len(t) \in Nat
           /\ \A j \in 1..Len(s) : (s \o t)[j] = s[j]
           /\ \A j \in 1..Len(t) : (s \o t)[Len(s) + j] = t[j]
           /\ \A j \in 1..(Len(s) + Len(t)) :
                  j \in 1..Len(s) \/ \E k \in 1..Len(t) : j = Len(s) + k
  <1>1. Len(s) \in Nat /\ Len(t) \in Nat
    BY LenProperties
  <1>2. /\ s \o t \in Seq(Calls) /\ Len(s \o t) = Len(s) + Len(t)
        /\ \A j \in 1..Len(s) : (s \o t)[j] = s[j]
        /\ \A j \in 1..Len(t) : (s \o t)[Len(s) + j] = t[j]
    BY ConcatProperties
  <1>3. ASSUME NEW j \in 1..(Len(s) + Len(t)), j \notin 1..Len(s)
        PROVE  \E k \in 1..Len(t) : j = Len(s) + k
    <2>1. j - Len(s) \in 1..Len(t) /\ j = Len(s) + (j - Len(s))
      BY <1>1, <1>3
    <2> QED BY <2>1
  <1> QED BY <1>1, <1>2, <1>3

LEMMA OrderedConcat ==
    ASSUME NEW s \in Seq(Calls), NEW t \in Seq(Calls), Ordered(s), Ordered(t)
    PROVE  Ordered(s \o t)
  <1> DEFINE n == Len(s)
             m == Len(t)
             u == s \o t
  <1>1. /\ n \in Nat /\ m \in Nat /\ Len(u) = n + m
        /\ \A j \in 1..n : u[j] = s[j]
        /\ \A j \in 1..m : u[n + j] = t[j]
        /\ \A j \in 1..(n + m) : j \in 1..n \/ \E k \in 1..m : j = n + k
    BY ConcatParts
  <1> HIDE DEF u
  <1>2. ASSUME NEW a, NEW b,
               \A j \in 1..n : s[j] = b => \E i \in 1..(j - 1) : s[i] = a,
               \A j \in 1..m : t[j] = b => \E i \in 1..(j - 1) : t[i] = a,
               NEW j \in 1..(n + m), u[j] = b
        PROVE  \E i \in 1..(j - 1) : u[i] = a
    <2> HIDE DEF n, m
    <2>1. CASE j \in 1..n
      <3>1. PICK i \in 1..(j - 1) : s[i] = a
        BY <1>1, <1>2, <2>1
      <3>2. i \in 1..n
        BY <1>1, <2>1
      <3> QED BY <1>1, <3>1, <3>2
    <2>2. CASE \E k \in 1..m : j = n + k
      <3>1. PICK k \in 1..m : j = n + k
        BY <2>2
      <3>2. PICK i \in 1..(k - 1) : t[i] = a
        BY <1>1, <1>2, <3>1
      <3>3. i \in 1..m /\ n + i \in 1..(j - 1)
        BY <1>1, <3>1
      <3> QED BY <1>1, <3>2, <3>3
    <2> QED BY <1>1, <2>1, <2>2
  <1> HIDE DEF n, m
  <1>3. ASSUME NEW j \in 1..(n + m) PROVE u[j] = "packet" => \E i \in 1..(j - 1) : u[i] = "buf"
    <2> SUFFICES ASSUME u[j] = "packet" PROVE \E i \in 1..(j - 1) : u[i] = "buf"
      OBVIOUS
    <2>1. /\ \A k \in 1..n : s[k] = "packet" => \E i \in 1..(k - 1) : s[i] = "buf"
          /\ \A k \in 1..m : t[k] = "packet" => \E i \in 1..(k - 1) : t[i] = "buf"
      BY DEF Ordered, n, m
    <2> QED BY <1>2, <2>1
  <1>4. ASSUME NEW j \in 1..(n + m) PROVE u[j] = "pkt_buf" => \E i \in 1..(j - 1) : u[i] = "pkt_grp"
    <2> SUFFICES ASSUME u[j] = "pkt_buf" PROVE \E i \in 1..(j - 1) : u[i] = "pkt_grp"
      OBVIOUS
    <2>1. /\ \A k \in 1..n : s[k] = "pkt_buf" => \E i \in 1..(k - 1) : s[i] = "pkt_grp"
          /\ \A k \in 1..m : t[k] = "pkt_buf" => \E i \in 1..(k - 1) : t[i] = "pkt_grp"
      BY DEF Ordered, n, m
    <2> QED BY <1>2, <2>1
  <1>5. ASSUME NEW j \in 1..(n + m) PROVE u[j] = "frm_buf" => \E i \in 1..(j - 1) : u[i] = "frm_grp"
    <2> SUFFICES ASSUME u[j] = "frm_buf" PROVE \E i \in 1..(j - 1) : u[i] = "frm_grp"
      OBVIOUS
    <2>1. /\ \A k \in 1..n : s[k] = "frm_buf" => \E i \in 1..(k - 1) : s[i] = "frm_grp"
          /\ \A k \in 1..m : t[k] = "frm_buf" => \E i \in 1..(k - 1) : t[i] = "frm_grp"
      BY DEF Ordered, n, m
    <2> QED BY <1>2, <2>1
  <1>6. Ordered(u)
    BY <1>1, <1>3, <1>4, <1>5 DEF Ordered
  <1> QED BY <1>6 DEF u

LEMMA HasConcat ==
    ASSUME NEW s \in Seq(Calls), NEW t \in Seq(Calls), NEW call
    PROVE  Has(s, call) \/ Has(t, call) => Has(s \o t, call)
  <1>1. /\ Len(s) \in Nat /\ Len(t) \in Nat /\ Len(s \o t) = Len(s) + Len(t)
        /\ \A j \in 1..Len(s) : (s \o t)[j] = s[j]
        /\ \A j \in 1..Len(t) : (s \o t)[Len(s) + j] = t[j]
    BY ConcatParts
  <1> DEFINE n == Len(s)
             m == Len(t)
             u == s \o t
  <1> HIDE DEF n, m, u
  <1>2. ASSUME NEW i \in 1..n, s[i] = call PROVE \E j \in 1..Len(u) : u[j] = call
    <2>1. i \in 1..Len(u) /\ u[i] = call
      BY <1>1, <1>2 DEF n, m, u
    <2> QED BY <2>1
  <1>3. ASSUME NEW i \in 1..m, t[i] = call PROVE \E j \in 1..Len(u) : u[j] = call
    <2>1. n + i \in 1..Len(u) /\ u[n + i] = call
      BY <1>1, <1>3 DEF n, m, u
    <2> QED BY <2>1
  <1> QED BY <1>2, <1>3 DEF Has, n, m, u

(* Appending to a sequence leaves its beginning and keeps what holds.      *)
LEMMA Grow ==
    ASSUME NEW s \in Seq(Calls), NEW t \in Seq(Calls), Ordered(s), Ordered(t), Len(s) >= 1
    PROVE  /\ s \o t \in Seq(Calls) /\ Ordered(s \o t)
           /\ Len(s) \in Nat /\ Len(s \o t) \in Nat /\ Len(s \o t) = Len(s) + Len(t)
           /\ Len(s \o t) >= Len(s)
           /\ (s \o t)[1] = s[1]
           /\ Len(s) >= 2 => (s \o t)[2] = s[2]
           /\ \A call : Has(s, call) \/ Has(t, call) => Has(s \o t, call)
  <1>1. /\ s \o t \in Seq(Calls) /\ Len(s) \in Nat /\ Len(t) \in Nat /\ Len(s \o t) = Len(s) + Len(t)
        /\ \A j \in 1..Len(s) : (s \o t)[j] = s[j]
    BY ConcatParts
  <1>2. Ordered(s \o t)
    BY OrderedConcat
  <1>3. \A call : Has(s, call) \/ Has(t, call) => Has(s \o t, call)
    BY HasConcat
  <1> DEFINE n == Len(s)
             m == Len(t)
             u == s \o t
  <1>4. u[1] = s[1] /\ (n >= 2 => u[2] = s[2])
    <2> HIDE DEF u, n, m
    <2>1. n \in Nat /\ n >= 1 /\ \A j \in 1..n : u[j] = s[j]
      BY <1>1 DEF n, u
    <2> QED BY <2>1
  <1> HIDE DEF u, n, m
  <1>5. Len(u) \in Nat /\ Len(u) >= n
    BY <1>1 DEF u, n, m
  <1> QED BY <1>1, <1>2, <1>3, <1>4, <1>5 DEF u, n

LEMMA Single ==
    ASSUME NEW a \in Calls
    PROVE  <<a>> \in Seq(Calls) /\ Len(<<a>>) = 1 /\ <<a>>[1] = a
OBVIOUS

LEMMA Double ==
    ASSUME NEW a \in Calls, NEW b \in Calls
    PROVE  /\ <<a, b>> \in Seq(Calls) /\ Len(<<a, b>>) = 2
           /\ <<a, b>>[1] = a /\ <<a, b>>[2] = b
OBVIOUS

LEMMA Five ==
    ASSUME NEW a \in Calls, NEW b \in Calls, NEW c \in Calls, NEW d \in Calls, NEW e \in Calls
    PROVE  /\ <<a, b, c, d, e>> \in Seq(Calls) /\ Len(<<a, b, c, d, e>>) = 5
           /\ <<a, b, c, d, e>>[1] = a /\ <<a, b, c, d, e>>[2] = b /\ <<a, b, c, d, e>>[3] = c
           /\ <<a, b, c, d, e>>[4] = d /\ <<a, b, c, d, e>>[5] = e
  <1>4. <<a, b, c, d, e>> \in Seq(Calls)
    OBVIOUS
  <1>5. Len(<<a, b, c, d, e>>) = 5
    OBVIOUS
  <1>6. /\ <<a, b, c, d, e>>[1] = a /\ <<a, b, c, d, e>>[2] = b /\ <<a, b, c, d, e>>[3] = c
        /\ <<a, b, c, d, e>>[4] = d /\ <<a, b, c, d, e>>[5] = e
    OBVIOUS
  <1> QED BY <1>4, <1>5, <1>6

(* The sequences Setup is put together from. *)
LEMMA LiteralParts ==
    /\ \A t \in {<<"fp_input">>, <<"fp_output">>, <<"fp_config">>, <<"timeout">>, <<"mpp_init">>,
                 <<"buf", "packet">>, <<"ctx", "control">>, <<>>,
                 <<"frm_grp", "pkt_grp", "frame", "frm_buf", "pkt_buf">>} :
           t \in Seq(Calls) /\ Ordered(t)
    /\ LET a == <<"frm_grp", "pkt_grp", "frame", "frm_buf", "pkt_buf">>
       IN  Has(a, "frame") /\ Has(a, "frm_buf") /\ Has(a, "pkt_buf")
  <1>1. ASSUME NEW a, a \in Calls, a \notin {"packet", "pkt_buf", "frm_buf"}
        PROVE  <<a>> \in Seq(Calls) /\ Ordered(<<a>>)
    <2> DEFINE s == <<a>>
    <2>1. s \in Seq(Calls) /\ Len(s) = 1 /\ s[1] = a
      BY <1>1, Single
    <2> HIDE DEF s
    <2>2. Ordered(s)
      BY <1>1, <2>1 DEF Ordered
    <2> QED BY <2>1, <2>2 DEF s
  <1>2. \A t \in {<<"fp_input">>, <<"fp_output">>, <<"fp_config">>, <<"timeout">>, <<"mpp_init">>} :
           t \in Seq(Calls) /\ Ordered(t)
    <2>1. /\ <<"fp_input">> \in Seq(Calls) /\ Ordered(<<"fp_input">>)
          /\ <<"fp_output">> \in Seq(Calls) /\ Ordered(<<"fp_output">>)
          /\ <<"fp_config">> \in Seq(Calls) /\ Ordered(<<"fp_config">>)
          /\ <<"timeout">> \in Seq(Calls) /\ Ordered(<<"timeout">>)
          /\ <<"mpp_init">> \in Seq(Calls) /\ Ordered(<<"mpp_init">>)
      <3> DEFINE P(a) == <<a>> \in Seq(Calls) /\ Ordered(<<a>>)
      <3>1. ASSUME NEW a, a \in Calls, a \notin {"packet", "pkt_buf", "frm_buf"} PROVE P(a)
        BY <1>1, <3>1
      <3> HIDE DEF P
      <3>2. P("fp_input") /\ P("fp_output") /\ P("fp_config") /\ P("timeout") /\ P("mpp_init")
        BY <3>1 DEF Calls
      <3> QED BY <3>2 DEF P
    <2> QED BY <2>1
  <1>3. <<"buf", "packet">> \in Seq(Calls) /\ Ordered(<<"buf", "packet">>)
    <2> DEFINE s == <<"buf", "packet">>
    <2>1. "buf" \in Calls /\ "packet" \in Calls
      BY DEF Calls
    <2>2. s \in Seq(Calls) /\ Len(s) = 2 /\ s[1] = "buf" /\ s[2] = "packet"
      BY <2>1, Double
    <2> HIDE DEF s
    <2>3. 1 \in 1..(2 - 1)
      OBVIOUS
    <2>4. Ordered(s)
      BY <2>2, <2>3 DEF Ordered
    <2> QED BY <2>2, <2>4 DEF s
  <1>4. <<"ctx", "control">> \in Seq(Calls) /\ Ordered(<<"ctx", "control">>)
    <2> DEFINE s == <<"ctx", "control">>
    <2>1. "ctx" \in Calls /\ "control" \in Calls
      BY DEF Calls
    <2>2. s \in Seq(Calls) /\ Len(s) = 2 /\ s[1] = "ctx" /\ s[2] = "control"
      BY <2>1, Double
    <2> HIDE DEF s
    <2>3. Ordered(s)
      BY <2>2 DEF Ordered
    <2> QED BY <2>2, <2>3 DEF s
  <1>5. <<>> \in Seq(Calls) /\ Ordered(<<>>)
    BY DEF Ordered
  <1> DEFINE a == <<"frm_grp", "pkt_grp", "frame", "frm_buf", "pkt_buf">>
  <1>6. a \in Seq(Calls) /\ Len(a) = 5
        /\ a[1] = "frm_grp" /\ a[2] = "pkt_grp" /\ a[3] = "frame" /\ a[4] = "frm_buf" /\ a[5] = "pkt_buf"
    <2>1. /\ "frm_grp" \in Calls /\ "pkt_grp" \in Calls /\ "frame" \in Calls
          /\ "frm_buf" \in Calls /\ "pkt_buf" \in Calls
      BY DEF Calls
    <2> QED BY <2>1, Five
  <1> HIDE DEF a
  <1>7. Ordered(a)
    <2>1. ASSUME NEW j \in 1..5 PROVE
            /\ a[j] # "packet"
            /\ a[j] = "pkt_buf" => \E i \in 1..(j - 1) : a[i] = "pkt_grp"
            /\ a[j] = "frm_buf" => \E i \in 1..(j - 1) : a[i] = "frm_grp"
      <3>1. j = 1 \/ j = 2 \/ j = 3 \/ j = 4 \/ j = 5
        BY <2>1
      <3>2. j = 5 => 2 \in 1..(j - 1)
        OBVIOUS
      <3>3. j = 4 => 1 \in 1..(j - 1)
        OBVIOUS
      <3> QED BY <1>6, <3>1, <3>2, <3>3
    <2> QED BY <1>6, <2>1 DEF Ordered
  <1>8. Has(a, "frame") /\ Has(a, "frm_buf") /\ Has(a, "pkt_buf")
    <2>1. 3 \in 1..5 /\ 4 \in 1..5 /\ 5 \in 1..5
      OBVIOUS
    <2> QED BY <1>6, <2>1 DEF Has
  <1> QED BY <1>2, <1>3, <1>4, <1>5, <1>6, <1>7, <1>8 DEF a

(* What the proofs need of the order in which a decoding acquires: the     *)
(* input comes first and the output, when there is one, right behind it.   *)
LEMMA SetupFacts ==
    /\ Setup \in Seq(Calls) /\ Len(Setup) \in Nat /\ Len(Setup) >= 3
    /\ \A j \in 1..Len(Setup) : Setup[j] \in Calls
    /\ Ordered(Setup)
    /\ Setup[1] = "fp_input"
    /\ cmd.o # None => Setup[2] = "fp_output"
    /\ ~Simple => Has(Setup, "frame") /\ Has(Setup, "frm_buf") /\ Has(Setup, "pkt_buf")
  <1> DEFINE Ok(s) == s \in Seq(Calls) /\ Ordered(s)
             a0 == <<"fp_input">>
             b1 == If(cmd.o # None, <<"fp_output">>)
             b2 == If(cmd.c # None, <<"fp_config">>)
             b3 == IF Simple THEN <<"buf", "packet">>
                             ELSE <<"frm_grp", "pkt_grp", "frame", "frm_buf", "pkt_buf">>
             b4 == <<"ctx", "control">>
             b5 == If(cmd.x # 0, <<"timeout">>)
             b6 == <<"mpp_init">>
             a1 == a0 \o b1
             a2 == a1 \o b2
             a3 == a2 \o b3
             a4 == a3 \o b4
             a5 == a4 \o b5
             a6 == a5 \o b6
  <1>1. Setup = a6
    BY DEF Setup
  <1>2. Ok(a0) /\ Ok(b1) /\ Ok(b2) /\ Ok(b3) /\ Ok(b4) /\ Ok(b5) /\ Ok(b6)
    BY LiteralParts DEF If
  <1>3. Len(a0) = 1 /\ a0[1] = "fp_input" /\ Len(b4) = 2
    OBVIOUS
  <1>4. cmd.o # None => Len(b1) = 1 /\ b1[1] = "fp_output"
    BY DEF If
  <1>5. cmd.o # None => Len(a1) = 2 /\ a1[2] = "fp_output"
    <2> SUFFICES ASSUME cmd.o # None PROVE Len(a0 \o b1) = 2 /\ (a0 \o b1)[2] = "fp_output"
      OBVIOUS
    <2>1. Len(b1) = 1 /\ b1[1] = "fp_output" /\ 1 \in 1..1
      BY <1>4
    <2> HIDE DEF a0, b1
    <2>2. Len(a0 \o b1) = Len(a0) + Len(b1) /\ \A j \in 1..Len(b1) : (a0 \o b1)[Len(a0) + j] = b1[j]
      BY <1>2, ConcatParts
    <2>3. (a0 \o b1)[Len(a0) + 1] = b1[1]
      BY <2>1, <2>2
    <2>4. Len(a0) + 1 = 2 /\ Len(a0) + Len(b1) = 2
      BY <1>3, <2>1
    <2> QED BY <2>1, <2>2, <2>3, <2>4
  <1>6. ~Simple => Has(b3, "frame") /\ Has(b3, "frm_buf") /\ Has(b3, "pkt_buf")
    BY LiteralParts
  <1> DEFINE Got(s, t, u) ==
               /\ Ok(u) /\ Len(s) \in Nat /\ Len(u) \in Nat /\ Len(u) = Len(s) + Len(t) /\ Len(u) >= Len(s)
               /\ u[1] = s[1] /\ (Len(s) >= 2 => u[2] = s[2])
               /\ \A call : Has(s, call) \/ Has(t, call) => Has(u, call)
  <1>7. ASSUME NEW s, NEW t, Ok(s), Ok(t), Len(s) >= 1 PROVE Got(s, t, s \o t)
    BY <1>7, Grow
  <1> HIDE DEF Ok, Got, b1, b2, b3, b4, b5, b6
  <1>8. Got(a0, b1, a1)
    BY <1>2, <1>3, <1>7
  <1> HIDE DEF a0, a1
  <1>9. Ok(a1) /\ Len(a1) >= 1 /\ a1[1] = "fp_input"
    BY <1>3, <1>8 DEF Got
  <1>10. Got(a1, b2, a2)
    BY <1>2, <1>7, <1>9
  <1> HIDE DEF a2
  <1>11. Ok(a2) /\ Len(a2) >= 1 /\ a2[1] = "fp_input" /\ (cmd.o # None => Len(a2) >= 2 /\ a2[2] = "fp_output")
    BY <1>5, <1>9, <1>10 DEF Got
  <1>12. Got(a2, b3, a3)
    BY <1>2, <1>7, <1>11
  <1> HIDE DEF a3
  <1>13. /\ Ok(a3) /\ Len(a3) >= 1 /\ a3[1] = "fp_input"
         /\ cmd.o # None => Len(a3) >= 2 /\ a3[2] = "fp_output"
         /\ ~Simple => Has(a3, "frame") /\ Has(a3, "frm_buf") /\ Has(a3, "pkt_buf")
    BY <1>6, <1>11, <1>12 DEF Got
  <1>14. Got(a3, b4, a4)
    BY <1>2, <1>7, <1>13
  <1> HIDE DEF a4
  <1>15. /\ Ok(a4) /\ Len(a4) >= 3 /\ a4[1] = "fp_input"
         /\ cmd.o # None => a4[2] = "fp_output"
         /\ ~Simple => Has(a4, "frame") /\ Has(a4, "frm_buf") /\ Has(a4, "pkt_buf")
    BY <1>3, <1>13, <1>14 DEF Got
  <1>16. Got(a4, b5, a5)
    BY <1>2, <1>7, <1>15
  <1> HIDE DEF a5
  <1>17. /\ Ok(a5) /\ Len(a5) >= 3 /\ a5[1] = "fp_input"
         /\ cmd.o # None => a5[2] = "fp_output"
         /\ ~Simple => Has(a5, "frame") /\ Has(a5, "frm_buf") /\ Has(a5, "pkt_buf")
    BY <1>15, <1>16 DEF Got
  <1>18. Got(a5, b6, a6)
    BY <1>2, <1>7, <1>17
  <1> HIDE DEF a6
  <1>19. /\ Ok(a6) /\ Len(a6) \in Nat /\ Len(a6) >= 3 /\ a6[1] = "fp_input"
         /\ cmd.o # None => a6[2] = "fp_output"
         /\ ~Simple => Has(a6, "frame") /\ Has(a6, "frm_buf") /\ Has(a6, "pkt_buf")
    BY <1>17, <1>18 DEF Got
  <1>20. \A j \in 1..Len(a6) : a6[j] \in Calls
    BY <1>19, ElementOfSeq DEF Ok
  <1> QED BY <1>1, <1>19, <1>20 DEF Ok

-----------------------------------------------------------------------------
(* What is held, and when it is released. *)

AdvancedJob == in = "decoder" \/ job # "idle"
NoReset     == may \cap {"query", "reset"} = {}

(* The first n acquisitions are held. *)
Acquired(n) == \A k \in 1..n : Gains(Setup[k]) \subseteq held

HoldInv ==
    /\ pc \in Pcs
    /\ held \subseteq Resources
    /\ pc \in Early => held = {} /\ step = 1
    /\ pc = "setup" => step \in 1..Len(Setup) /\ Acquired(step - 1)
    /\ pc \in LoopPcs => Acquired(Len(Setup))
    /\ pc = "release" => step \in 1..10 /\ \A k \in 1..(step - 1) : Release[k] \notin held
    /\ pc = "done" => \A k \in 1..10 : Release[k] \notin held
    /\ "got" \in held => pc \in {"info", "got"} \/ may \cap GroupCallNames # {}
    /\ "packet" \in held => "pkt_buf" \in held \/ "buf" \in held
    /\ "pkt_buf" \in held => "pkt_grp" \in held
    /\ "frm_buf" \in held => "frm_grp" \in held
    /\ pc \in AdvancedPcs => ~Simple
    /\ pc \in SimplePcs => Simple
    /\ AdvancedJob => pc \notin Early \cup {"setup"}
    /\ AdvancedJob /\ NoReset => pc \in AdvancedPcs \cup {"query"} /\ ~Simple

LEMMA ReleaseFacts ==
    /\ Len(Release) = 10 /\ DOMAIN Release = 1..10
    /\ Release[1] = "packet" /\ Release[2] = "frame" /\ Release[3] = "ctx" /\ Release[4] = "buf"
    /\ Release[5] = "pkt_buf" /\ Release[6] = "frm_buf" /\ Release[7] = "pkt_grp"
    /\ Release[8] = "frm_grp" /\ Release[9] = "fp_output" /\ Release[10] = "fp_input"
BY DEF Release

LEMMA ResourcesAre ==
    Resources = {"packet", "frame", "ctx", "buf", "pkt_buf", "frm_buf", "pkt_grp", "frm_grp",
                 "fp_output", "fp_input", "fp_config", "got"}
  <1>1. Range(Release) = {"packet", "frame", "ctx", "buf", "pkt_buf", "frm_buf", "pkt_grp", "frm_grp",
                 "fp_output", "fp_input"}
    <2>1. Range(Release) = {Release[k] : k \in 1..10}
      BY ReleaseFacts DEF Range
    <2>2. \A k \in 1..10 : k = 1 \/ k = 2 \/ k = 3 \/ k = 4 \/ k = 5 \/ k = 6 \/ k = 7 \/ k = 8 \/ k = 9 \/ k = 10
      OBVIOUS
    <2> QED BY <2>1, <2>2, ReleaseFacts
  <1> QED BY <1>1 DEF Resources

LEMMA GainsAre ==
    ASSUME NEW call
    PROVE  Gains(call) = IF call = "pkt_buf" THEN {"pkt_buf", "packet"}
                         ELSE IF call \in {"control", "timeout", "mpp_init"} THEN {} ELSE {call}
BY DEF Gains

LEMMA GainsHeld ==
    ASSUME NEW call \in Calls
    PROVE  Gains(call) \subseteq Resources \ {"got"}
BY GainsAre, ResourcesAre DEF Calls

LEMMA PcsAre ==
    Pcs = Early \cup {"setup"} \cup AdvancedPcs \cup SimplePcs \cup {"query", "release", "done"}
BY DEF Pcs, Early, AdvancedPcs, SimplePcs

LEMMA HoldInit == Init => HoldInv
  <1> SUFFICES ASSUME Init PROVE HoldInv
    OBVIOUS
  <1>1. pc = "options" /\ held = {} /\ step = 1 /\ in = "port" /\ job = "idle"
    BY DEF Init, OptionsInit, SimpleInit
  <1> QED BY <1>1, PcsAre DEF HoldInv, Early, AdvancedPcs, SimplePcs, LoopPcs, AdvancedJob

(* The options are no longer parsed: what depends on them stays. *)
LEMMA CmdKept ==
    ASSUME cmd' = cmd
    PROVE  Setup' = Setup /\ Simple' = Simple
BY DEF Setup, Simple, If

(* The next resource is acquired. *)
LEMMA Acquire ==
    ASSUME HoldInv, pc = "setup", Acquires(Gains(Setup[step])), cmd' = cmd, may' = may, in' = in, job' = job
    PROVE  HoldInv'
  <1> DEFINE n == Len(Setup)
             gain == Gains(Setup[step])
  <1>1. Setup' = Setup /\ Simple' = Simple
    BY CmdKept
  <1>2. n \in Nat /\ n >= 3 /\ step \in 1..n /\ Acquired(step - 1) /\ ~AdvancedJob
    BY SetupFacts DEF HoldInv, Early
  <1>3. held' = held \cup gain /\ ~AdvancedJob'
    BY <1>2 DEF Acquires, AdvancedJob
  <1>4. gain \subseteq Resources \ {"got"}
    BY <1>2, SetupFacts, GainsHeld
  <1>5. \A k \in 1..step : Gains(Setup[k]) \subseteq held'
    <2> HIDE DEF n
    <2>1. \A k \in 1..step : k \in 1..(step - 1) \/ k = step
      BY <1>2
    <2> QED BY <1>2, <1>3, <2>1 DEF Acquired
  <1>6. IF step = n THEN pc' = (IF Simple THEN "packet" ELSE "read") ELSE pc' = "setup" /\ step' = step + 1
    BY DEF Acquires
  <1>7. /\ "packet" \in gain => "pkt_buf" \in gain \/ "buf" \in held
        /\ "pkt_buf" \in gain => "pkt_grp" \in held
        /\ "frm_buf" \in gain => "frm_grp" \in held
    <2>1. /\ "packet" \in gain => Setup[step] = "packet" \/ Setup[step] = "pkt_buf"
          /\ "pkt_buf" \in gain => Setup[step] = "pkt_buf"
          /\ "frm_buf" \in gain => Setup[step] = "frm_buf"
          /\ Setup[step] = "pkt_buf" => "pkt_buf" \in gain
      BY GainsAre
    <2>2. ASSUME NEW a, Gains(a) = {a}, \E i \in 1..(step - 1) : Setup[i] = a
          PROVE  a \in held
      BY <1>2, <2>2 DEF Acquired
    <2>3. Gains("buf") = {"buf"} /\ Gains("pkt_grp") = {"pkt_grp"} /\ Gains("frm_grp") = {"frm_grp"}
      BY GainsAre
    <2>4. /\ Setup[step] = "packet" => \E i \in 1..(step - 1) : Setup[i] = "buf"
          /\ Setup[step] = "pkt_buf" => \E i \in 1..(step - 1) : Setup[i] = "pkt_grp"
          /\ Setup[step] = "frm_buf" => \E i \in 1..(step - 1) : Setup[i] = "frm_grp"
      BY <1>2, SetupFacts DEF Ordered
    <2> HIDE DEF gain
    <2> QED BY <2>1, <2>2, <2>3, <2>4
  <1> HIDE DEF gain
  <1>8. /\ "packet" \in held' => "pkt_buf" \in held' \/ "buf" \in held'
        /\ "pkt_buf" \in held' => "pkt_grp" \in held'
        /\ "frm_buf" \in held' => "frm_grp" \in held'
        /\ held' \subseteq Resources
        /\ "got" \in held' => may' \cap GroupCallNames # {}
    BY <1>3, <1>4, <1>7 DEF HoldInv
  <1>9. CASE step = n
    <2>1. /\ pc' \in {"packet", "read"} /\ (pc' = "packet" => Simple) /\ (pc' = "read" => ~Simple)
          /\ Acquired(n)'
      BY <1>1, <1>5, <1>6, <1>9 DEF Acquired
    <2> QED BY <1>1, <1>3, <1>8, <2>1, PcsAre
            DEF HoldInv, Early, AdvancedPcs, SimplePcs, LoopPcs
  <1>10. CASE step # n
    <2>1. pc' = "setup" /\ step' \in 1..n /\ step' - 1 = step
      BY <1>2, <1>6, <1>10
    <2>2. Acquired(step - 1)'
      BY <1>1, <1>5, <2>1 DEF Acquired
    <2> QED BY <1>1, <1>3, <1>8, <2>1, <2>2, PcsAre
            DEF HoldInv, Early, AdvancedPcs, SimplePcs, LoopPcs
  <1> QED BY <1>9, <1>10

(* A step of the loops: nothing acquired is let go of. *)
LEMMA InLoop ==
    ASSUME HoldInv, pc \in LoopPcs, pc' \in LoopPcs, cmd' = cmd, may' = may,
           held \ {"got"} \subseteq held', held' \subseteq held \cup {"got", "frm_grp"},
           "got" \in held' => pc' \in {"info", "got"} \/ may \cap GroupCallNames # {},
           pc' \in AdvancedPcs => ~Simple, pc' \in SimplePcs => Simple,
           AdvancedJob' /\ NoReset => pc' \in AdvancedPcs \cup {"query"} /\ ~Simple
    PROVE  HoldInv'
  <1>1. Setup' = Setup /\ Simple' = Simple /\ NoReset' = NoReset
    BY CmdKept DEF NoReset
  <1>2. Acquired(Len(Setup))'
    <2>1. ASSUME NEW k \in 1..Len(Setup) PROVE Gains(Setup[k]) \subseteq held'
      <3>1. Gains(Setup[k]) \subseteq held /\ Setup[k] \in Calls
        BY SetupFacts DEF HoldInv, Acquired
      <3>2. Gains(Setup[k]) \subseteq held \ {"got"}
        BY <3>1, GainsHeld
      <3> QED BY <3>2
    <2> QED BY <1>1, <2>1 DEF Acquired
  <1>3. pc' \notin Early \cup {"setup", "release", "done"} /\ pc' \in Pcs
    BY PcsAre DEF LoopPcs, AdvancedPcs, SimplePcs, Early
  <1>4. /\ "packet" \in held' => "pkt_buf" \in held' \/ "buf" \in held'
        /\ "pkt_buf" \in held' => "pkt_grp" \in held'
        /\ "frm_buf" \in held' => "frm_grp" \in held'
        /\ held' \subseteq Resources
    BY ResourcesAre DEF HoldInv
  <1> QED BY <1>1, <1>2, <1>3, <1>4 DEF HoldInv

(* goto MPP_TEST_OUT, from the acquisitions or the loops. *)
LEMMA ToRelease ==
    ASSUME HoldInv, Out, held' = held, cmd' = cmd, may' = may, pc \notin {"info", "got"},
           AdvancedJob' /\ NoReset => FALSE
    PROVE  HoldInv'
  <1>1. Setup' = Setup /\ Simple' = Simple /\ NoReset' = NoReset
    BY CmdKept DEF NoReset
  <1>2. pc' = "release" /\ step' = 1
    BY DEF Out
  <1>3. step' \in 1..10 /\ \A k \in 1..(step' - 1) : Release[k] \notin held'
    BY <1>2
  <1> QED BY <1>1, <1>2, <1>3, PcsAre DEF HoldInv, LoopPcs, AdvancedPcs, SimplePcs, Early

LEMMA HoldParse ==
    ASSUME HoldInv, ParseStep, UNCHANGED <<may, shared, eos, simpleVars, advancedVars>>
    PROVE  HoldInv'
  <1>1. pc = "options" /\ pc' \in Early
    BY DEF ParseStep, skip_word, end_of_options, take_option, stop_parsing, all_parsed, Early
  <1>2. held' = held /\ may' = may /\ in' = in /\ job' = job /\ step' = step
    BY DEF shared, advancedVars
  <1>3. held = {} /\ ~AdvancedJob /\ ~AdvancedJob'
    BY <1>1, <1>2 DEF HoldInv, Early, AdvancedJob
  <1> QED BY <1>1, <1>2, <1>3, PcsAre DEF HoldInv, Early, LoopPcs, AdvancedPcs, SimplePcs

LEMMA HoldStart ==
    ASSUME HoldInv, mpp_jpg2yuv
    PROVE  HoldInv'
  <1>1. pc = "parsed" /\ pc' \in {"setup", "done"} /\ (pc' = "setup" => step' = step)
    BY DEF mpp_jpg2yuv, advancedVars
  <1>2. held' = held /\ in' = in /\ job' = job /\ step' = step
    BY DEF mpp_jpg2yuv, advancedVars
  <1>3. held = {} /\ ~AdvancedJob /\ ~AdvancedJob'
    BY <1>1, <1>2 DEF HoldInv, Early, AdvancedJob
  <1>4. Setup' = Setup
    BY CmdKept DEF mpp_jpg2yuv, optVars
  <1>5. pc \in Early /\ step' = 1 /\ 1 \in 1..Len(Setup)
    BY <1>1, <1>2, SetupFacts DEF HoldInv, Early
  <1>6. (step \in 1..Len(Setup))' /\ Acquired(step - 1)'
    BY <1>4, <1>5 DEF Acquired
  <1> QED BY <1>1, <1>2, <1>3, <1>5, <1>6, PcsAre
          DEF HoldInv, Early, LoopPcs, AdvancedPcs, SimplePcs

LEMMA HoldSetup ==
    ASSUME HoldInv, open_input \/ open_output \/ get_buffers
    PROVE  HoldInv'
  <1>1. pc = "setup" /\ cmd' = cmd /\ may' = may /\ in' = in /\ job' = job
    BY DEF open_input, open_output, get_buffers, still, optVars
  <1>2. Acquires(Gains(Setup[step])) \/ (Out /\ held' = held)
    <2>1. ASSUME NEW call, call \in Files PROVE Gains(call) = {call}
      BY <2>1, GainsAre DEF Files
    <2>2. CASE open_input
      <3>1. Setup[step] \in Files
        BY <2>2 DEF open_input, Files
      <3> QED BY <2>1, <2>2, <3>1 DEF open_input
    <2>3. CASE open_output
      <3>1. Setup[step] \in Files /\ Setup[step] = "fp_output"
        BY <2>3 DEF open_output, Files
      <3> QED BY <2>1, <2>3, <3>1 DEF open_output
    <2>4. CASE get_buffers
      BY <2>4 DEF get_buffers
    <2> QED BY <2>2, <2>3, <2>4
  <1>3. ~AdvancedJob'
    BY <1>1 DEF HoldInv, AdvancedJob
  <1> QED BY <1>1, <1>2, <1>3, Acquire, ToRelease

LEMMA HoldAdvanced ==
    ASSUME HoldInv, read \/ put_poll \/ put_dequeue \/ put_enqueue \/ get_poll \/ get_dequeue \/ write
    PROVE  HoldInv'
  <1>1. pc \in AdvancedPcs /\ pc' \in AdvancedPcs \cup {"query"}
    BY DEF read, put_poll, put_dequeue, put_enqueue, get_poll, get_dequeue, write, Goes, Returns,
           Again, AdvancedPcs
  <1>2. cmd' = cmd /\ may' = may /\ held' = held
    BY DEF read, put_poll, put_dequeue, put_enqueue, get_poll, get_dequeue, write, Rest, Io, optVars
  <1>3. pc \notin {"info", "got"} /\ pc \in LoopPcs /\ pc' \in LoopPcs /\ pc' \notin SimplePcs /\ ~Simple
    BY <1>1 DEF HoldInv, AdvancedPcs, SimplePcs, LoopPcs
  <1>4. "got" \in held => may \cap GroupCallNames # {}
    BY <1>3 DEF HoldInv
  <1> QED BY <1>1, <1>2, <1>3, <1>4, InLoop

LEMMA AfterFrameGoes ==
    ASSUME NEW last
    PROVE  AfterFrame(last) \in {"receive", "turn"}
BY DEF AfterFrame

LEMMA GroupCallsAre ==
    ASSUME NEW i \in DOMAIN GroupCalls
    PROVE  GroupCalls[i] \in GroupCallNames
  <1> DEFINE a == <<"clear", "limit", "info_ready">>
             b == <<"group", "ext_group", "limit", "info_ready">>
  <1>1. DOMAIN a = 1..3 /\ a[1] = "clear" /\ a[2] = "limit" /\ a[3] = "info_ready"
    OBVIOUS
  <1>2. DOMAIN b = 1..4 /\ b[1] = "group" /\ b[2] = "ext_group" /\ b[3] = "limit" /\ b[4] = "info_ready"
    OBVIOUS
  <1> HIDE DEF a, b
  <1>3. ASSUME NEW k \in DOMAIN a PROVE a[k] \in GroupCallNames
    <2>1. k = 1 \/ k = 2 \/ k = 3
      BY <1>1
    <2> QED BY <1>1, <2>1 DEF GroupCallNames
  <1>4. ASSUME NEW k \in DOMAIN b PROVE b[k] \in GroupCallNames
    <2>1. k = 1 \/ k = 2 \/ k = 3 \/ k = 4
      BY <1>2
    <2> QED BY <1>2, <2>1 DEF GroupCallNames
  <1>5. GroupCalls = a \/ GroupCalls = b
    BY DEF GroupCalls, a, b
  <1> QED BY <1>3, <1>4, <1>5

LEMMA HoldSimple ==
    ASSUME HoldInv, SimpleStep, UNCHANGED <<optVars, may, advancedVars>>
    PROVE  HoldInv'
  <1>1. /\ pc \in SimplePcs /\ pc' \in SimplePcs \cup {"query"}
        /\ held \ {"got"} \subseteq held' /\ held' \subseteq held \cup {"got", "frm_grp"}
        /\ "got" \in held' => pc' \in {"info", "got"} \/ may \cap GroupCallNames # {}
    <2>1. CASE read_packet \/ decode_put_packet \/ end_turn
      <3>1. held' = held
        BY <2>1 DEF read_packet, decode_put_packet, end_turn, shared
      <3>2. /\ pc \in SimplePcs \ {"info", "got"}
            /\ pc' \in SimplePcs \cup {"query"}
        BY <2>1 DEF read_packet, decode_put_packet, end_turn, SimplePcs
      <3> QED BY <3>1, <3>2 DEF HoldInv
    <2>2. CASE decode_get_frame
      <3>1. pc = "receive" /\ (a_frame \/ no_frame \/ timed_out \/ no_more)
        BY <2>2 DEF decode_get_frame
      <3>2. /\ pc' \in {"info", "got", "turn", "receive"}
            /\ (held' = held \cup {"got"} /\ pc' \in {"info", "got"}) \/ held' = held
        BY <3>1 DEF a_frame, no_frame, timed_out, no_more
      <3>3. "got" \in held => may \cap GroupCallNames # {}
        BY <3>1 DEF HoldInv
      <3> QED BY <3>1, <3>2, <3>3 DEF SimplePcs
    <2>3. CASE info_change
      <3>1. pc = "info" /\ pc' \in {"got", "turn"}
        BY <2>3 DEF info_change
      <3>2. CASE held' = (held \cup {"frm_grp"}) \ {"got"}
        BY <3>1, <3>2 DEF SimplePcs
      <3>3. CASE \E i \in DOMAIN GroupCalls : /\ Fails(GroupCalls[i])
                                              /\ held' = held \cup (IF i > 1 THEN {"frm_grp"} ELSE {})
        <4>1. may \cap GroupCallNames # {}
          BY <3>3, GroupCallsAre DEF Fails
        <4>2. held \subseteq held' /\ held' \subseteq held \cup {"frm_grp"}
          BY <3>3
        <4> QED BY <3>1, <4>1, <4>2 DEF SimplePcs
      <3> QED BY <2>3, <3>2, <3>3 DEF info_change
    <2>4. CASE use_frame
      <3>1. pc = "got" /\ held' = held \ {"got"} /\ pc' = AfterFrame(frame.eos)
        BY <2>4 DEF use_frame
      <3> QED BY <3>1, AfterFrameGoes DEF SimplePcs
    <2> QED BY <2>1, <2>2, <2>3, <2>4 DEF SimpleStep
  <1>2. cmd' = cmd /\ may' = may /\ in' = in /\ job' = job
    BY DEF optVars, advancedVars
  <1>3. Simple /\ pc \in LoopPcs /\ pc' \in LoopPcs /\ pc' \notin AdvancedPcs
    BY <1>1 DEF HoldInv, AdvancedPcs, SimplePcs, LoopPcs
  <1>4. ~(AdvancedJob' /\ NoReset)
    BY <1>2, <1>3 DEF HoldInv, AdvancedJob
  <1> QED BY <1>1, <1>2, <1>3, <1>4, InLoop

LEMMA HoldQuery ==
    ASSUME HoldInv, query
    PROVE  HoldInv'
  <1>1. pc = "query" /\ Out /\ cmd' = cmd /\ may' = may /\ held' = held
    BY DEF query, optVars
  <1>2. (in' = "port" /\ job' = "idle") \/ ~NoReset
    BY DEF query, Stopped, Fails, NoReset
  <1>3. AdvancedJob' /\ NoReset => FALSE
    BY <1>2 DEF AdvancedJob
  <1> QED BY <1>1, <1>3, ToRelease

LEMMA HoldRelease ==
    ASSUME HoldInv, release
    PROVE  HoldInv'
  <1>1. /\ pc = "release" /\ cmd' = cmd /\ may' = may /\ held' = held \ {Release[step]}
        /\ in' = in /\ (job' = job \/ job' = "idle")
    BY DEF release, optVars
  <1>2. step \in 1..10 /\ \A k \in 1..(step - 1) : Release[k] \notin held
    BY <1>1 DEF HoldInv
  <1>3. \A k \in 1..step : Release[k] \notin held'
    <2>1. \A k \in 1..step : k \in 1..(step - 1) \/ k = step
      BY <1>2
    <2> QED BY <1>1, <1>2, <2>1
  <1>4. IF step = 10 THEN pc' = "done" ELSE pc' = "release" /\ step' = step + 1
    BY <1>1, ReleaseFacts DEF release, Released
  <1>5. /\ pc' = "release" => step' \in 1..10 /\ \A k \in 1..(step' - 1) : Release[k] \notin held'
        /\ pc' = "done" => \A k \in 1..10 : Release[k] \notin held'
        /\ pc' \in {"release", "done"}
    <2>1. CASE step = 10
      BY <1>3, <1>4, <2>1
    <2>2. CASE step # 10
      <3>1. step' \in 1..10 /\ step' - 1 = step /\ pc' = "release"
        BY <1>2, <1>4, <2>2
      <3> QED BY <1>3, <3>1
    <2> QED BY <2>1, <2>2
  <1>6. /\ "packet" \in held' => "pkt_buf" \in held' \/ "buf" \in held'
        /\ "pkt_buf" \in held' => "pkt_grp" \in held'
        /\ "frm_buf" \in held' => "frm_grp" \in held'
    <2>1. \A k \in 1..10 : k = 1 \/ k = 2 \/ k = 3 \/ k = 4 \/ k = 5 \/ k = 6 \/ k = 7 \/ k = 8 \/ k = 9 \/ k = 10
      OBVIOUS
    <2>2. Release[step] \in {"buf", "pkt_buf"} => "packet" \notin held
      <3>1. Release[step] \in {"buf", "pkt_buf"} => step = 4 \/ step = 5
        BY <1>2, <2>1, ReleaseFacts
      <3>2. step = 4 \/ step = 5 => 1 \in 1..(step - 1)
        OBVIOUS
      <3> QED BY <1>2, <3>1, <3>2, ReleaseFacts
    <2>3. Release[step] = "pkt_grp" => "pkt_buf" \notin held
      <3>1. Release[step] = "pkt_grp" => step = 7
        BY <1>2, <2>1, ReleaseFacts
      <3>2. step = 7 => 5 \in 1..(step - 1)
        OBVIOUS
      <3> QED BY <1>2, <3>1, <3>2, ReleaseFacts
    <2>4. Release[step] = "frm_grp" => "frm_buf" \notin held
      <3>1. Release[step] = "frm_grp" => step = 8
        BY <1>2, <2>1, ReleaseFacts
      <3>2. step = 8 => 6 \in 1..(step - 1)
        OBVIOUS
      <3> QED BY <1>2, <3>1, <3>2, ReleaseFacts
    <2> QED BY <1>1, <2>2, <2>3, <2>4 DEF HoldInv
  <1>7. Setup' = Setup /\ Simple' = Simple /\ NoReset' = NoReset
    BY <1>1, CmdKept DEF NoReset
  <1>8. ~(AdvancedJob' /\ NoReset)
    <2>1. ~(AdvancedJob /\ NoReset)
      BY <1>1 DEF HoldInv, AdvancedPcs
    <2> QED BY <1>1, <2>1 DEF AdvancedJob
  <1>9. held' \subseteq Resources /\ ("got" \in held' => may \cap GroupCallNames # {})
    BY <1>1 DEF HoldInv
  <1> QED BY <1>1, <1>5, <1>6, <1>7, <1>8, <1>9, PcsAre
          DEF HoldInv, LoopPcs, AdvancedPcs, SimplePcs, Early

LEMMA HoldDecoder ==
    ASSUME HoldInv, Decoder
    PROVE  HoldInv'
  <1>1. cmd' = cmd /\ may' = may /\ held' = held /\ pc' = pc /\ step' = step
    BY DEF Decoder, take, decode, SimpleDecoder, shared, advancedVars, optVars, Io, Rest
  <1>2. AdvancedJob' => AdvancedJob
    BY DEF Decoder, take, decode, SimpleDecoder, advancedVars, AdvancedJob
  <1>3. Setup' = Setup /\ Simple' = Simple /\ NoReset' = NoReset
    BY <1>1, CmdKept DEF NoReset
  <1>4. \A n : Acquired(n)' = Acquired(n)
    BY <1>1, <1>3 DEF Acquired
  <1> QED BY <1>1, <1>2, <1>3, <1>4 DEF HoldInv

LEMMA HoldStutter ==
    ASSUME HoldInv, UNCHANGED vars
    PROVE  HoldInv'
  <1>1. cmd' = cmd /\ may' = may /\ held' = held /\ pc' = pc /\ step' = step /\ in' = in /\ job' = job
    BY DEF vars, optVars, shared, advancedVars
  <1>2. Setup' = Setup /\ Simple' = Simple /\ NoReset' = NoReset /\ AdvancedJob' = AdvancedJob
    BY <1>1, CmdKept DEF NoReset, AdvancedJob
  <1>3. \A n : Acquired(n)' = Acquired(n)
    BY <1>1, <1>2 DEF Acquired
  <1> QED BY <1>1, <1>2, <1>3 DEF HoldInv

LEMMA HoldNext == HoldInv /\ [Next]_vars => HoldInv'
BY HoldParse, HoldStart, HoldSetup, HoldAdvanced, HoldSimple, HoldQuery, HoldRelease, HoldDecoder,
   HoldStutter DEF Next, Thread

LEMMA HoldImplies == HoldInv => ReleasedInOrder
  <1> SUFFICES ASSUME HoldInv PROVE ReleasedInOrder
    OBVIOUS
  <1>1. ReleasesAll
    <2> SUFFICES ASSUME pc = "done"
                 PROVE  held \subseteq {"fp_config"} \cup (IF may \cap GroupCallNames = {} THEN {} ELSE {"got"})
      BY DEF ReleasesAll
    <2>1. /\ Release[1] \notin held /\ Release[2] \notin held /\ Release[3] \notin held
          /\ Release[4] \notin held /\ Release[5] \notin held /\ Release[6] \notin held
          /\ Release[7] \notin held /\ Release[8] \notin held /\ Release[9] \notin held
          /\ Release[10] \notin held
      BY DEF HoldInv
    <2>2. held \subseteq Resources /\ ("got" \in held => may \cap GroupCallNames # {})
      BY DEF HoldInv
    <2> QED BY <2>1, <2>2, ReleaseFacts, ResourcesAre
  <1>2. job # "idle" /\ NoReset => {"packet", "frame", "pkt_buf", "frm_buf"} \subseteq held
    <2> SUFFICES ASSUME job # "idle", NoReset PROVE {"packet", "frame", "pkt_buf", "frm_buf"} \subseteq held
      OBVIOUS
    <2>1. ~Simple /\ \A k \in 1..Len(Setup) : Gains(Setup[k]) \subseteq held
      BY DEF HoldInv, AdvancedJob, LoopPcs, Acquired
    <2>2. Has(Setup, "frame") /\ Has(Setup, "frm_buf") /\ Has(Setup, "pkt_buf")
      BY <2>1, SetupFacts
    <2>3. Gains("frame") \subseteq held /\ Gains("frm_buf") \subseteq held /\ Gains("pkt_buf") \subseteq held
      BY <2>1, <2>2 DEF Has
    <2>4. Gains("frame") = {"frame"} /\ Gains("frm_buf") = {"frm_buf"} /\ Gains("pkt_buf") = {"pkt_buf", "packet"}
      BY GainsAre
    <2> QED BY <2>3, <2>4
  <1>3. Outlives
    BY <1>2 DEF HoldInv, Outlives, NoReset
  <1> QED BY <1>1, <1>3 DEF ReleasedInOrder

(* Every exit of a decoding releases what it holds, and in an order in     *)
(* which nothing is used after its release, whatever fails and wherever    *)
(* the decoder's thread is.                                                *)
THEOREM DecodingReleases == Spec => []ReleasedInOrder
  <1>1. Init => HoldInv
    BY HoldInit
  <1>2. HoldInv /\ [Next]_vars => HoldInv'
    BY HoldNext
  <1>3. HoldInv => ReleasedInOrder
    BY HoldImplies
  <1> QED BY <1>1, <1>2, <1>3, PTL DEF Spec

-----------------------------------------------------------------------------
(* The pictures on their way from the file to the output. *)

Packet    == [first : Nat \ {0}, n : Nat, eos : BOOLEAN]
Work      == [next : Nat \ {0}, last : Nat, eos : BOOLEAN]
FrameKind == [kind : {"none", "info", "picture", "empty"}, picture : Nat, eos : BOOLEAN]

Names    == {None} \cup {argv[k].ext : k \in DOMAIN argv}
Numbers  == {0, BUTT, AVC, HEVC, MJPEG} \cup {argv[k].n : k \in DOMAIN argv}
CmdType  == cmd \in MpiDecTestCmd(Names, Numbers) /\ cmd.n \in Int /\ cmd.x \in Int

(* A line of the ops file that asks for a packet says how large.           *)
LinesOk == \A k \in 1..Len(stream.lines) :
               Pkt(parse_config_line(stream.lines[k])) => parse_config_line(stream.lines[k]).value2 \in Nat

DataTypes ==
    /\ stream.size \in Nat /\ Len(stream.lines) \in Nat /\ LinesOk
    /\ src \in 0..stream.size /\ line \in Nat
    /\ pkt \in Packet /\ pkt_done \in BOOLEAN /\ eos \in BOOLEAN
    /\ queue \in Seq(Packet) /\ decoding \in Work /\ ready \in Seq(FrameKind) /\ frame \in FrameKind
    /\ frame_count \in Nat
    /\ argv \in Seq(Argument) /\ optindex \in Nat \ {0} /\ CmdType

(* Nothing is on its way before the loops, and in decode_advanced nothing  *)
(* ever goes through the queue.                                            *)
Fresh ==
    /\ pkt = [first |-> 1, n |-> 0, eos |-> FALSE] /\ pkt_done = FALSE /\ frame = NoFrame
    /\ queue = <<>> /\ decoding = Idle /\ ready = <<>> /\ gave_up = FALSE /\ frame_count = 0
FreshInv ==
    /\ pc \in Early \cup {"setup"} => Fresh /\ src = 0 /\ line = 0 /\ eos = FALSE
    /\ pc \in AdvancedPcs => Fresh

(* An output that is named and opens is emptied, and takes pictures only.  *)
Opened == \/ pc = "setup" /\ step > 2
          \/ pc \in LoopPcs \cup {"release"}
          \/ pc = "done" /\ err = "MPP_OK"
FileInv ==
    cmd.o # None /\ may \cap Files = {} /\ Opened => file \in Seq(Nat \ {0})
EmptyInv ==
    cmd.o # None /\ pc = "setup" /\ step > 2 => file = <<>>

(* Picture q comes next after picture d.                                   *)
Successor(d, q) == q = d + 1 \/ (Loops /\ q = 1)
Spoilt(from, to) == \A r \in from..to : r \in stream.bad
Follows(p, q) == p < q /\ Spoilt(p + 1, q - 1)

(* The file, when picture d was the last to leave the decoder.             *)
Shown(d) ==
    /\ file \in Seq(Nat \ {0})
    /\ \A i \in 1..Len(file) : file[i] \notin stream.bad
    /\ file # <<>> => Follows(0, file[1])
    /\ \A i \in 1..(Len(file) - 1) :
          Follows(file[i], file[i + 1]) \/ (Loops /\ Follows(0, file[i + 1]))
    /\ \/ file = <<>> /\ Spoilt(1, d)
       \/ file # <<>> /\ file[Len(file)] <= d /\ Spoilt(file[Len(file)] + 1, d)
       \/ file # <<>> /\ Loops /\ Spoilt(1, d)
    /\ ~Loops => {file[i] : i \in 1..Len(file)} = (1..d) \ stream.bad

(* The pictures first to last follow d, and end at e.                      *)
Stretch(d, first, last, e) == IF first <= last THEN Successor(d, first) /\ e = last ELSE e = d

ReadyFrom(w) ==
    /\ w \in [0..Len(ready) -> Nat]
    /\ \A i \in 1..Len(ready) :
          IF ready[i].kind = "picture" THEN Successor(w[i - 1], ready[i].picture) /\ w[i] = ready[i].picture
                                       ELSE w[i] = w[i - 1]
QueueFrom(v) ==
    /\ v \in [0..Len(queue) -> Nat]
    /\ \A i \in 1..Len(queue) :
          Stretch(v[i - 1], queue[i].first, queue[i].first + queue[i].n - 1, v[i])

(* Everything between the output, at d, and the input, at u, lies in a row.*)
InARow(d, w, v, u) ==
    /\ d \in Nat /\ u \in Nat
    /\ cmd.o # None => Shown(d)
    /\ IF frame.kind = "picture" THEN Successor(d, frame.picture) /\ w[0] = frame.picture ELSE w[0] = d
    /\ ReadyFrom(w)
    /\ Stretch(w[Len(ready)], decoding.next, decoding.last, v[0])
    /\ QueueFrom(v)
    /\ IF pkt_done THEN u = v[Len(queue)]
                   ELSE Stretch(v[Len(queue)], pkt.first, pkt.first + pkt.n - 1, u)
    /\ src = u \/ (Loops /\ src = 0)

RowInv == Simple /\ pc \in SimplePcs \cup {"query"} => \E d, w, v, u : InARow(d, w, v, u)

(* A packet is put only once, the next is read when it is done with, and   *)
(* only a picture that was just taken waits to be shown.                   *)
HandInv ==
    /\ pc = "packet" => (pkt_done \/ pkt.n = 0)
    /\ pc = "send" => ~pkt_done
    /\ pc \in SimplePcs \ {"info", "got"} => frame.kind \in {"none", "info"} /\ ~frame.eos
    /\ pc = "info" => frame.kind = "info" /\ ~frame.eos

(* The end of the stream is the last thing on its way. *)
Sent    == pkt.eos /\ pkt_done
NoMore  == queue = <<>> /\ ~MoreToDo
LastInv ==
    /\ pkt.eos => ~Loops /\ (cmd.c = None => src = stream.size)
    /\ \A i \in 1..Len(queue) : queue[i].eos => i = Len(queue) /\ Sent
    /\ decoding.eos => queue = <<>> /\ Sent
    /\ \A i \in 1..Len(ready) : ready[i].eos => i = Len(ready) /\ NoMore /\ Sent /\ ready[i].kind # "info"
    /\ frame.eos => ready = <<>> /\ NoMore /\ Sent

(* A turn over the last packet ends when nothing is left, if no call fails.*)
AllTaken == ready = <<>> /\ NoMore /\ frame.kind # "picture"
Answered == may \cap (GroupCallNames \cup {"get_frame"}) = {}
TurnInv ==
    Simple =>
        /\ pc \in SimplePcs \cup {"query"} => (pkt.eos => eos) /\ (eos /\ cmd.n = 0 => pkt.eos)
        /\ pc = "packet" => ~eos
        /\ pc \in {"turn", "query"} /\ Sent /\ cmd.n = 0 /\ ~gave_up /\ Answered => AllTaken
        /\ pc = "query" /\ cmd.n = 0 => Sent

(* The limit ends the turn, unless the last packet's frames are awaited.   *)
LimitInv ==
    cmd.n > 0 =>
        /\ frame_count > cmd.n => Sent
        /\ pc \in SimplePcs \ {"turn"} /\ frame_count >= cmd.n => Sent

-----------------------------------------------------------------------------
(* Numbers have a least one: what Min and Max of the model rest on.        *)

LEMMA Least ==
    ASSUME NEW T \in SUBSET Nat, T # {}
    PROVE  \E x \in T : \A y \in T : x <= y
  <1> DEFINE R == OpToRel(<, Nat)
  <1>1. IsWellFoundedOn(R, Nat)
    BY NatLessThanWellFounded
  <1>2. \A x, y \in Nat : y < x => <<y, x>> \in R
    BY DEF OpToRel
  <1> HIDE DEF R
  <1>3. PICK x \in T : \A y \in T : ~(<<y, x>> \in R)
    BY <1>1, WFMin
  <1>4. \A y \in T : ~(y < x) /\ y \in Nat /\ x \in Nat
    BY <1>2, <1>3
  <1>5. \A y \in T : x <= y
    BY <1>4
  <1> QED BY <1>5

LEMMA NextLineIs ==
    ASSUME Len(stream.lines) \in Nat, line \in Nat
    PROVE  /\ NextLine \in 0..Len(stream.lines)
           /\ UsedLine \in Nat
  <1> DEFINE I == {i \in (line + 1)..Len(stream.lines) :
                     Pkt(parse_config_line(stream.lines[i])) \/ Rst(parse_config_line(stream.lines[i]))}
  <1>1. NextLine = IF I # {} THEN Min(I) ELSE 0
    BY DEF NextLine, SelectInSubSeq
  <1>2. I \in SUBSET Nat /\ I \subseteq 1..Len(stream.lines)
    OBVIOUS
  <1> HIDE DEF I
  <1>3. I # {} => Min(I) \in I
    BY <1>2, Least DEF Min
  <1>4. NextLine \in 0..Len(stream.lines)
    <2>1. CASE I = {}
      BY <1>1, <2>1
    <2>2. CASE I # {}
      <3>1. NextLine = Min(I)
        BY <1>1, <2>2
      <3>2. Min(I) \in 1..Len(stream.lines)
        BY <1>2, <1>3, <2>2
      <3> QED BY <3>1, <3>2
    <2> QED BY <2>1, <2>2
  <1>5. UsedLine = IF NextLine = 0 THEN Len(stream.lines) + 1 ELSE NextLine
    BY DEF UsedLine
  <1> QED BY <1>4, <1>5

LEMMA PacketSizeIs ==
    ASSUME DataTypes
    PROVE  packet_size \in Nat /\ (cmd.c = None => packet_size > 0)
  <1>1. NextLine \in 0..Len(stream.lines) /\ Len(stream.lines) \in Nat /\ LinesOk
    BY NextLineIs DEF DataTypes
  <1> DEFINE info == parse_config_line(stream.lines[NextLine])
  <1>2. packet_size = IF cmd.c = None THEN PacketSize ELSE IF NextLine = 0 THEN 0
                      ELSE IF Pkt(info) THEN info.value2 ELSE 0
    BY DEF packet_size
  <1>3. NextLine # 0 /\ Pkt(info) => info.value2 \in Nat
    BY <1>1 DEF LinesOk
  <1>4. PacketSize \in Nat \ {0}
    BY DecoderAssumption
  <1> HIDE DEF info
  <1> QED BY <1>2, <1>3, <1>4

LEMMA StreamLines ==
    ASSUME NEW s \in Streams \cup {NoStream} \cup {[NoStream EXCEPT !.size = n] : n \in {0, 1}}, stream' = s
    PROVE  stream'.size \in Nat /\ Len(stream'.lines) \in Nat /\ LinesOk'
  <1>1. CASE s \in Streams
    <2>1. /\ s.size \in Nat /\ Len(s.lines) \in Nat
          /\ \A k \in 1..Len(s.lines) : Len(s.lines[k]) \in {0, 1, 3} /\ (Len(s.lines[k]) = 3 => s.lines[k][3] \in Nat)
      BY <1>1, StreamAssumption
    <2>2. ASSUME NEW l, Len(l) \in {0, 1, 3}, Len(l) = 3 => l[3] \in Nat, Pkt(parse_config_line(l))
          PROVE  parse_config_line(l).value2 \in Nat
      <3>1. parse_config_line(l).cnt >= 3
        BY <2>2 DEF Pkt
      <3>2. parse_config_line(l).cnt = IF l = <<>> THEN 0 ELSE Len(l) + 1
        BY DEF parse_config_line
      <3>3. Len(l) = 3
        <4>1. l # <<>>
          BY <3>1, <3>2
        <4>2. Len(l) + 1 >= 3
          BY <3>1, <3>2, <4>1
        <4>3. Len(l) = 0 \/ Len(l) = 1 \/ Len(l) = 3
          BY <2>2
        <4>4. ~(0 + 1 >= 3) /\ ~(1 + 1 >= 3)
          OBVIOUS
        <4> QED BY <4>2, <4>3, <4>4
      <3>4. parse_config_line(l).value2 = l[3]
        BY <3>3 DEF parse_config_line
      <3> QED BY <2>2, <3>3, <3>4
    <2> QED BY <2>1, <2>2 DEF LinesOk
  <1>2. CASE s.size \in Nat /\ s.lines = <<>>
    BY <1>2 DEF LinesOk
  <1>3. s \notin Streams => s.size \in Nat /\ s.lines = <<>>
    BY DEF NoStream
  <1> QED BY <1>1, <1>2, <1>3

LEMMA TypesInit == Init => DataTypes
  <1> SUFFICES ASSUME Init PROVE DataTypes
    OBVIOUS
  <1>1. stream = NoStream /\ src = 0 /\ line = 0
    BY DEF Init, SimpleInit
  <1>2. stream.size \in Nat /\ Len(stream.lines) \in Nat /\ LinesOk /\ src \in 0..stream.size /\ line \in Nat
    BY <1>1 DEF NoStream, LinesOk
  <1>3. pkt \in Packet
    BY DEF Init, SimpleInit, Packet
  <1>8. pkt_done \in BOOLEAN /\ eos \in BOOLEAN /\ frame_count \in Nat
    BY DEF Init, SimpleInit
  <1>4. queue \in Seq(Packet) /\ ready \in Seq(FrameKind)
    BY DEF Init, SimpleInit
  <1>5. decoding \in Work /\ frame \in FrameKind
    BY DEF Init, SimpleInit, Work, FrameKind, NoFrame, Idle
  <1>6. argv \in Seq(Argument) /\ optindex \in Nat \ {0}
    BY CommandAssumption DEF Init, OptionsInit
  <1>7. CmdType
    <2>1. cmd = Defaults
      BY DEF Init, OptionsInit
    <2>2. None \in Names /\ 0 \in Numbers /\ BUTT \in Numbers
      BY DEF Names, Numbers
    <2> QED BY <2>1, <2>2 DEF CmdType, MpiDecTestCmd, Defaults, Small, Large
  <1> QED BY <1>2, <1>3, <1>4, <1>5, <1>6, <1>7, <1>8 DEF DataTypes

-----------------------------------------------------------------------------
(* Nothing is on its way before the loops.                                 *)

flowVars == <<pkt, pkt_done, frame, queue, decoding, ready, gave_up, frame_count>>

LEMMA FreshInit == Init => FreshInv
BY DEF Init, SimpleInit, OptionsInit, FreshInv, Fresh, Early, AdvancedPcs

LEMMA FreshKept ==
    ASSUME Fresh, UNCHANGED flowVars
    PROVE  Fresh'
BY DEF Fresh, flowVars

LEMMA FreshSetup ==
    ASSUME FreshInv, mpp_jpg2yuv \/ open_input \/ open_output \/ get_buffers
    PROVE  FreshInv'
  <1>1. pc \in {"parsed", "setup"} /\ pc' \in {"setup", "done", "packet", "read", "release"}
    BY DEF mpp_jpg2yuv, open_input, open_output, get_buffers, Acquires, Out
  <1>2. src' = src /\ line' = line /\ eos' = eos /\ UNCHANGED flowVars
    BY DEF mpp_jpg2yuv, open_input, open_output, get_buffers, still, simpleVars, sourceVars, callVars,
           decoderVars, flowVars
  <1>3. Fresh /\ src = 0 /\ line = 0 /\ eos = FALSE
    BY <1>1 DEF FreshInv, Early
  <1>4. Fresh'
    BY <1>2, <1>3, FreshKept
  <1> QED BY <1>1, <1>2, <1>3, <1>4 DEF FreshInv, Early, AdvancedPcs

LEMMA FreshAdvanced ==
    ASSUME FreshInv, read \/ put_poll \/ put_dequeue \/ put_enqueue \/ get_poll \/ get_dequeue \/ write
    PROVE  FreshInv'
  <1>1. pc \in AdvancedPcs /\ pc' \in AdvancedPcs \cup {"query"}
    BY DEF read, put_poll, put_dequeue, put_enqueue, get_poll, get_dequeue, write, Goes, Returns,
           Again, AdvancedPcs
  <1>2. UNCHANGED flowVars
    BY DEF read, put_poll, put_dequeue, put_enqueue, get_poll, get_dequeue, write, Rest, Io,
           callVars, decoderVars, flowVars
  <1>3. Fresh'
    BY <1>1, <1>2, FreshKept DEF FreshInv
  <1>4. pc' \notin Early \cup {"setup"}
    BY <1>1 DEF AdvancedPcs, Early
  <1> QED BY <1>3, <1>4 DEF FreshInv

LEMMA FreshDecoder ==
    ASSUME FreshInv, Decoder
    PROVE  FreshInv'
  <1>1. CASE take \/ decode
    <2>1. UNCHANGED flowVars /\ src' = src /\ line' = line /\ eos' = eos /\ pc' = pc
      BY <1>1 DEF take, decode, Io, Rest, callVars, decoderVars, flowVars
    <2>2. Fresh => Fresh'
      BY <2>1, FreshKept
    <2> QED BY <2>1, <2>2 DEF FreshInv
  <1>2. CASE SimpleDecoder
    <2>1. ~Fresh
      <3> SUFFICES ASSUME Fresh PROVE FALSE
        OBVIOUS
      <3>1. queue = <<>> /\ decoding.next = 1 /\ decoding.last = 0 /\ decoding.eos = FALSE
        BY DEF Fresh, Idle
      <3> QED BY <1>2, <3>1 DEF SimpleDecoder, take_packet, ask_for_buffers, decode_picture, decode_end
    <2>2. pc' = pc
      BY <1>2 DEF SimpleDecoder
    <2> QED BY <2>1, <2>2 DEF FreshInv
  <1> QED BY <1>1, <1>2 DEF Decoder

LEMMA FreshNext == FreshInv /\ [Next]_vars => FreshInv'
  <1> SUFFICES ASSUME FreshInv, [Next]_vars PROVE FreshInv'
    OBVIOUS
  <1>1. CASE ParseStep /\ UNCHANGED <<may, shared, eos, simpleVars, advancedVars>>
    <2>1. pc = "options" /\ pc' \in Early
      BY <1>1 DEF ParseStep, skip_word, end_of_options, take_option, stop_parsing, all_parsed, Early
    <2>2. src' = src /\ line' = line /\ eos' = eos /\ UNCHANGED flowVars
      BY <1>1 DEF simpleVars, sourceVars, callVars, decoderVars, flowVars
    <2>3. Fresh /\ src = 0 /\ line = 0 /\ eos = FALSE
      BY <2>1 DEF FreshInv, Early
    <2>4. Fresh'
      BY <2>2, <2>3, FreshKept
    <2> QED BY <2>1, <2>2, <2>3, <2>4 DEF FreshInv, Early, AdvancedPcs
  <1>2. CASE mpp_jpg2yuv \/ open_input \/ open_output \/ get_buffers
    BY <1>2, FreshSetup
  <1>3. CASE read \/ put_poll \/ put_dequeue \/ put_enqueue \/ get_poll \/ get_dequeue \/ write
    BY <1>3, FreshAdvanced
  <1>4. CASE query \/ release
    <2>1. pc' \in {"release", "done"}
      BY <1>4 DEF query, release, Out, Released
    <2> QED BY <2>1 DEF FreshInv, Early, AdvancedPcs
  <1>5. CASE SimpleStep
    <2>1. pc' \in SimplePcs \cup {"query"}
      BY <1>5, AfterFrameGoes DEF SimpleStep, read_packet, decode_put_packet, decode_get_frame,
         a_frame, no_frame, timed_out, no_more, info_change, use_frame, end_turn, SimplePcs
    <2> QED BY <2>1 DEF FreshInv, Early, AdvancedPcs, SimplePcs
  <1>6. CASE Decoder
    BY <1>6, FreshDecoder
  <1>7. CASE UNCHANGED vars
    <2>1. UNCHANGED flowVars /\ src' = src /\ line' = line /\ eos' = eos /\ pc' = pc
      BY <1>7 DEF vars, simpleVars, sourceVars, callVars, decoderVars, flowVars
    <2>2. Fresh => Fresh'
      BY <2>1, FreshKept
    <2> QED BY <2>1, <2>2 DEF FreshInv
  <1> QED BY <1>1, <1>2, <1>3, <1>4, <1>5, <1>6, <1>7 DEF Next, Thread

-----------------------------------------------------------------------------
(* The types. *)

optionTypes == <<argv, optindex, cmd>>

LEMMA FlowTypes ==
    ASSUME DataTypes, UNCHANGED <<stream, optionTypes>>,
           src' \in 0..stream.size, line' \in Nat, pkt' \in Packet, pkt_done' \in BOOLEAN, eos' \in BOOLEAN,
           queue' \in Seq(Packet), decoding' \in Work, ready' \in Seq(FrameKind), frame' \in FrameKind,
           frame_count' \in Nat
    PROVE  DataTypes'
  <1>1. LinesOk'
    BY DEF DataTypes, LinesOk
  <1>2. CmdType'
    BY DEF DataTypes, CmdType, Names, Numbers, optionTypes
  <1>3. stream' = stream /\ argv' = argv /\ optindex' = optindex
    BY DEF optionTypes
  <1> QED BY <1>1, <1>2, <1>3 DEF DataTypes

LEMMA TypesRead ==
    ASSUME DataTypes, read_packet, UNCHANGED optVars
    PROVE  DataTypes'
  <1> DEFINE size == packet_size
             left == stream.size - src
             got  == IF left < size THEN left ELSE size
             last == size = 0 \/ got < size
  <1>1. size \in Nat
    BY PacketSizeIs
  <1>2. stream.size \in Nat /\ src \in 0..stream.size /\ UsedLine \in Nat
    BY NextLineIs DEF DataTypes
  <1> HIDE DEF size
  <1>3. left \in Nat /\ got \in Nat /\ src + got \in 0..stream.size /\ src + 1 \in Nat \ {0}
    BY <1>1, <1>2
  <1>4. /\ IF last /\ Loops THEN src' = 0 /\ line' = 0 /\ eos' = FALSE
                           ELSE src' = src + got /\ line' = UsedLine /\ eos' = last
        /\ pkt' = [first |-> src + 1, n |-> got, eos |-> last /\ ~Loops]
        /\ pkt_done' = FALSE
    BY DEF read_packet, Rewind, size
  <1>5. UNCHANGED <<stream, optionTypes, queue, decoding, ready, frame, frame_count>>
    BY DEF read_packet, decoderVars, optVars, optionTypes
  <1> HIDE DEF got, left
  <1>6. src' \in 0..stream.size /\ line' \in Nat /\ eos' \in BOOLEAN
    <2>1. CASE last /\ Loops
      <3>1. src' = 0 /\ line' = 0 /\ eos' = FALSE
        BY <1>4, <2>1
      <3>2. 0 \in 0..stream.size
        BY <1>2
      <3>3. eos' \in BOOLEAN
        BY <3>1
      <3> QED BY <3>1, <3>2, <3>3
    <2>2. CASE ~(last /\ Loops)
      <3>1. src' = src + got /\ line' = UsedLine /\ eos' = last
        BY <1>4, <2>2
      <3>2. last \in BOOLEAN
        OBVIOUS
      <3> QED BY <1>2, <1>3, <3>1, <3>2
    <2> QED BY <2>1, <2>2
  <1>7. pkt' \in Packet /\ pkt_done' \in BOOLEAN
    BY <1>3, <1>4 DEF Packet
  <1>8. queue \in Seq(Packet) /\ decoding \in Work /\ ready \in Seq(FrameKind) /\ frame \in FrameKind
        /\ frame_count \in Nat
    BY DEF DataTypes
  <1> QED BY <1>5, <1>6, <1>7, <1>8, FlowTypes

LEMMA QueueTakes ==
    ASSUME NEW S, NEW q \in Seq(S), NEW x \in S
    PROVE  /\ Append(q, x) \in Seq(S) /\ Len(q) \in Nat /\ Len(Append(q, x)) = Len(q) + 1
           /\ \A i \in 1..Len(q) : Append(q, x)[i] = q[i]
           /\ Append(q, x)[Len(q) + 1] = x
BY AppendProperties

LEMMA QueueGives ==
    ASSUME NEW S, NEW q \in Seq(S), q # <<>>
    PROVE  /\ Head(q) \in S /\ Head(q) = q[1] /\ Tail(q) \in Seq(S) /\ Len(q) \in Nat /\ Len(q) >= 1
           /\ Len(Tail(q)) = Len(q) - 1
           /\ \A i \in 1..(Len(q) - 1) : Tail(q)[i] = q[i + 1]
BY HeadTailProperties, EmptySeq

LEMMA TypesSimple ==
    ASSUME DataTypes, SimpleStep, UNCHANGED optVars
    PROVE  DataTypes'
  <1>1. UNCHANGED <<stream, optionTypes>>
    BY DEF SimpleStep, read_packet, decode_put_packet, decode_get_frame, info_change, use_frame, end_turn,
           sourceVars, optVars, optionTypes
  <1>2. CASE read_packet
    BY <1>2, TypesRead
  <1> DEFINE Source == src \in 0..stream.size /\ line \in Nat
             Call   == pkt \in Packet /\ pkt_done \in BOOLEAN /\ frame \in FrameKind /\ frame_count \in Nat
             Dec    == queue \in Seq(Packet) /\ decoding \in Work /\ ready \in Seq(FrameKind)
  <1>3. Source /\ Call /\ Dec /\ eos \in BOOLEAN
    BY DEF DataTypes
  <1>4. CASE decode_put_packet
    <2>1. UNCHANGED <<src, line, stream, eos, pkt, frame, frame_count, decoding, ready>>
      BY <1>4 DEF decode_put_packet, sourceVars
    <2>2. (queue' = Append(queue, pkt) /\ pkt_done' = TRUE) \/ (queue' = queue /\ pkt_done' = pkt_done)
      BY <1>4 DEF decode_put_packet
    <2>3. queue' \in Seq(Packet) /\ pkt_done' \in BOOLEAN
      BY <1>3, <2>2, QueueTakes
    <2> QED BY <1>1, <1>3, <2>1, <2>3, FlowTypes
  <1>5. CASE decode_get_frame
    <2>1. UNCHANGED <<src, line, stream, eos, pkt, pkt_done, frame_count, queue, decoding>>
      BY <1>5 DEF decode_get_frame, sourceVars
    <2>2. \/ ready # <<>> /\ frame' = Head(ready) /\ ready' = Tail(ready)
          \/ ready' = ready /\ frame' = NoFrame
          \/ ready' = ready /\ frame' = frame
      BY <1>5 DEF decode_get_frame, a_frame, no_frame, timed_out, no_more
    <2>3. NoFrame \in FrameKind
      BY DEF NoFrame, FrameKind
    <2>4. ready' \in Seq(FrameKind) /\ frame' \in FrameKind
      BY <1>3, <2>2, <2>3, QueueGives
    <2> QED BY <1>1, <1>3, <2>1, <2>4, FlowTypes
  <1>6. CASE info_change
    <2>1. UNCHANGED <<src, line, stream, eos, pkt, pkt_done, frame, frame_count, queue, decoding, ready>>
      BY <1>6 DEF info_change, sourceVars, callVars
    <2> QED BY <1>1, <1>3, <2>1, FlowTypes
  <1>7. CASE use_frame
    <2>1. UNCHANGED <<src, line, stream, pkt, pkt_done, queue, decoding, ready>>
      BY <1>7 DEF use_frame, sourceVars, decoderVars
    <2>2. frame' = NoFrame /\ frame_count' = frame_count + (IF frame.kind \in {"picture", "empty"} THEN 1 ELSE 0)
      BY <1>7 DEF use_frame
    <2>3. NoFrame \in FrameKind
      BY DEF NoFrame, FrameKind
    <2>4. frame_count' \in Nat
      BY <1>3, <2>2
    <2>5. eos' = (eos \/ (pc' = "turn" /\ ~frame.eos /\ cmd.n > 0 /\ frame_count' >= cmd.n))
      BY <1>7 DEF use_frame
    <2>6. eos' \in BOOLEAN
      BY <2>5
    <2> QED BY <1>1, <1>3, <2>1, <2>2, <2>3, <2>4, <2>6, FlowTypes
  <1>8. CASE end_turn
    <2>1. UNCHANGED <<src, line, stream, pkt, pkt_done, frame, frame_count, queue, decoding, ready>>
      BY <1>8 DEF end_turn, sourceVars, decoderVars
    <2>2. eos' = (eos \/ Limit)
      BY <1>8 DEF end_turn
    <2>3. eos' \in BOOLEAN
      BY <2>2
    <2> QED BY <1>1, <1>3, <2>1, <2>3, FlowTypes
  <1> QED BY <1>2, <1>4, <1>5, <1>6, <1>7, <1>8 DEF SimpleStep

LEMMA TypesDecoder ==
    ASSUME DataTypes, SimpleDecoder, UNCHANGED optVars
    PROVE  DataTypes'
  <1>1. UNCHANGED <<stream, optionTypes, src, line, eos, pkt, pkt_done, frame, frame_count>>
    BY DEF SimpleDecoder, sourceVars, callVars, optVars, optionTypes
  <1>2. /\ src \in 0..stream.size /\ line \in Nat /\ eos \in BOOLEAN
        /\ pkt \in Packet /\ pkt_done \in BOOLEAN /\ frame \in FrameKind /\ frame_count \in Nat
        /\ queue \in Seq(Packet) /\ decoding \in Work /\ ready \in Seq(FrameKind)
    BY DEF DataTypes
  <1>3. CASE take_packet
    <2>1. queue # <<>> /\ queue' = Tail(queue) /\ ready' = ready
          /\ decoding' = [next |-> Head(queue).first, last |-> Head(queue).first + Head(queue).n - 1,
                          eos |-> Head(queue).eos]
      BY <1>3 DEF take_packet
    <2>2. Head(queue) \in Packet /\ queue' \in Seq(Packet)
      BY <1>2, <2>1, QueueGives
    <2>3. decoding' \in Work
      BY <2>1, <2>2 DEF Packet, Work
    <2> QED BY <1>1, <1>2, <2>1, <2>2, <2>3, FlowTypes
  <1>4. CASE ask_for_buffers
    <2>1. queue' = queue /\ decoding' = decoding /\ ready' = Append(ready, Frame("info", 0, FALSE))
      BY <1>4 DEF ask_for_buffers
    <2>2. Frame("info", 0, FALSE) \in FrameKind
      BY DEF Frame, FrameKind
    <2>3. ready' \in Seq(FrameKind)
      BY <1>2, <2>1, <2>2, QueueTakes
    <2> QED BY <1>1, <1>2, <2>1, <2>3, FlowTypes
  <1>5. CASE decode_picture
    <2>1. PICK marked \in BOOLEAN :
             /\ ready' = Append(ready, Frame("picture", decoding.next, marked))
             /\ decoding' = [decoding EXCEPT !.next = @ + 1, !.eos = @ /\ ~marked]
      BY <1>5 DEF decode_picture
    <2>2. Frame("picture", decoding.next, marked) \in FrameKind
      BY <1>2 DEF Frame, FrameKind, Work
    <2>3. ready' \in Seq(FrameKind)
      BY <1>2, <2>1, <2>2, QueueTakes
    <2>4. decoding' \in Work
      <3>1. decoding' = [next |-> decoding.next + 1, last |-> decoding.last, eos |-> decoding.eos /\ ~marked]
        BY <1>2, <2>1 DEF Work
      <3>2. decoding.next + 1 \in Nat \ {0} /\ decoding.last \in Nat
        BY <1>2 DEF Work
      <3>3. (decoding.eos /\ ~marked) \in BOOLEAN
        OBVIOUS
      <3> QED BY <3>1, <3>2, <3>3 DEF Work
    <2>5. queue' = queue
      BY <1>5 DEF decode_picture
    <2> QED BY <1>1, <1>2, <2>3, <2>4, <2>5, FlowTypes
  <1>6. CASE decode_end
    <2>1. queue' = queue /\ decoding' = Idle /\ ready' = Append(ready, Frame("empty", 0, TRUE))
      BY <1>6 DEF decode_end
    <2>2. Frame("empty", 0, TRUE) \in FrameKind /\ Idle \in Work
      BY DEF Frame, FrameKind, Idle, Work
    <2>3. ready' \in Seq(FrameKind)
      BY <1>2, <2>1, <2>2, QueueTakes
    <2> QED BY <1>1, <1>2, <2>1, <2>2, <2>3, FlowTypes
  <1> QED BY <1>3, <1>4, <1>5, <1>6 DEF SimpleDecoder

(* Queries, releases and acquisitions keep the types: they change neither  *)
(* packets nor frames but to give them up.                                 *)
LEMMA TypesOther ==
    ASSUME DataTypes, FreshInv,
           \/ mpp_jpg2yuv \/ open_input \/ open_output \/ get_buffers \/ query \/ release
           \/ read \/ put_poll \/ put_dequeue \/ put_enqueue \/ get_poll \/ get_dequeue \/ write
           \/ take \/ decode \/ UNCHANGED vars
    PROVE  DataTypes'
  <1>1. UNCHANGED optionTypes /\ UNCHANGED <<line, pkt, pkt_done, frame, frame_count>>
    BY DEF mpp_jpg2yuv, open_input, open_output, get_buffers, query, release, read, put_poll, put_dequeue,
           put_enqueue, get_poll, get_dequeue, write, take, decode, vars, optVars, optionTypes, still,
           simpleVars, sourceVars, callVars, Io, Rest
  <1>2. \/ UNCHANGED <<queue, decoding, ready>>
        \/ queue' = <<>> /\ decoding' = Idle /\ ready' = <<>>
    BY DEF mpp_jpg2yuv, open_input, open_output, get_buffers, query, Stopped, release, read, put_poll, put_dequeue,
           put_enqueue, get_poll, get_dequeue, write, take, decode, vars, still,
           simpleVars, decoderVars, Io, Rest
  <1>3. /\ src \in 0..stream.size /\ stream.size \in Nat /\ line \in Nat /\ eos \in BOOLEAN
        /\ pkt \in Packet /\ pkt_done \in BOOLEAN /\ frame \in FrameKind /\ frame_count \in Nat
        /\ queue \in Seq(Packet) /\ decoding \in Work /\ ready \in Seq(FrameKind)
    BY DEF DataTypes
  <1>4. queue' \in Seq(Packet) /\ decoding' \in Work /\ ready' \in Seq(FrameKind)
    <2>1. Idle \in Work
      BY DEF Idle, Work
    <2>2. <<>> \in Seq(Packet) /\ <<>> \in Seq(FrameKind)
      BY EmptySeq
    <2> QED BY <1>2, <1>3, <2>1, <2>2
  <1>5. CASE mpp_jpg2yuv
    <2>1. src' = src /\ eos' = eos
      BY <1>5 DEF mpp_jpg2yuv
    <2>2. pc = "parsed" /\ src = 0
      BY <1>5 DEF mpp_jpg2yuv, FreshInv, Early
    <2>3. stream' = stream \/ stream' \in Streams \cup {[NoStream EXCEPT !.size = n] : n \in {0, 1}}
      BY <1>5 DEF mpp_jpg2yuv
    <2>4. CASE stream' = stream
      BY <1>1, <1>3, <1>4, <2>1, <2>4, FlowTypes
    <2>5. CASE stream' \in Streams \cup {[NoStream EXCEPT !.size = n] : n \in {0, 1}}
      <3>1. stream'.size \in Nat /\ Len(stream'.lines) \in Nat /\ LinesOk'
        BY <2>5, StreamLines
      <3>2. src' \in 0..stream'.size
        BY <2>1, <2>2, <3>1
      <3>3. CmdType' /\ argv' = argv /\ optindex' = optindex
        BY <1>1 DEF DataTypes, CmdType, Names, Numbers, optionTypes
      <3> QED BY <1>1, <1>3, <1>4, <2>1, <3>1, <3>2, <3>3 DEF DataTypes
    <2> QED BY <2>3, <2>4, <2>5
  <1>6. CASE read
    <2>1. stream' = stream /\ src' = stream.size /\ eos' = (src = stream.size)
      BY <1>6 DEF read, Rest
    <2>2. src' \in 0..stream.size /\ eos' \in BOOLEAN
      BY <1>3, <2>1
    <2> QED BY <1>1, <1>3, <1>4, <2>1, <2>2, FlowTypes
  <1>7. CASE ~mpp_jpg2yuv /\ ~read
    <2>1. stream' = stream /\ src' = src /\ eos' = eos
      BY <1>7 DEF open_input, open_output, get_buffers, query, release, put_poll, put_dequeue,
           put_enqueue, get_poll, get_dequeue, write, take, decode, vars, still,
           simpleVars, sourceVars, Io, Rest
    <2> QED BY <1>1, <1>3, <1>4, <2>1, FlowTypes
  <1> QED BY <1>5, <1>6, <1>7

LEMMA CodingType ==
    ASSUME NEW name, NEW coding
    PROVE  name_to_coding_type(name, coding) \in {AVC, HEVC, MJPEG, coding}
BY DEF name_to_coding_type

(* What an option makes of a command, field by field. *)
LEMMA AssignedIs ==
    ASSUME NEW next, NEW names, NEW numbers, cmd \in MpiDecTestCmd(names, numbers)
    PROVE  /\ Assigned("i", next) = [cmd EXCEPT !.i = next.ext, !.t = name_to_coding_type(next, cmd.t)]
           /\ Assigned("o", next) = [cmd EXCEPT !.o = next.ext]
           /\ Assigned("c", next) = [cmd EXCEPT !.c = next.ext, !.pkt_size = Large]
           /\ \A c \in Known \ {"i", "o", "c"} : Assigned(c, next) = [cmd EXCEPT ![c] = next.n]
  <1>1. Assigned("i", next) = [cmd EXCEPT !.i = next.ext, !.t = name_to_coding_type(next, cmd.t)]
    BY DEF Assigned, MpiDecTestCmd
  <1>2. Assigned("o", next) = [cmd EXCEPT !.o = next.ext] /\ Assigned("c", next) = [cmd EXCEPT !.c = next.ext, !.pkt_size = Large]
    BY DEF Assigned
  <1>3. ASSUME NEW c, c \notin {"i", "o", "c"} PROVE Assigned(c, next) = [cmd EXCEPT ![c] = next.n]
    BY <1>3 DEF Assigned
  <1> QED BY <1>1, <1>2, <1>3

LEMMA AssignedType ==
    ASSUME NEW names, NEW numbers, cmd \in MpiDecTestCmd(names, numbers),
           AVC \in numbers, HEVC \in numbers, MJPEG \in numbers,
           NEW next, next.ext \in names, next.n \in numbers, NEW c \in Known
    PROVE  /\ Assigned(c, next) \in MpiDecTestCmd(names, numbers)
           /\ Assigned(c, next).n = IF c = "n" THEN next.n ELSE cmd.n
           /\ Assigned(c, next).x = IF c = "x" THEN next.n ELSE cmd.x
  <1> DEFINE P(r) == /\ r \in MpiDecTestCmd(names, numbers)
                     /\ r.n = IF c = "n" THEN next.n ELSE cmd.n
                     /\ r.x = IF c = "x" THEN next.n ELSE cmd.x
  <1>1. CASE c = "i"
    <2>1. name_to_coding_type(next, cmd.t) \in numbers
      BY CodingType DEF MpiDecTestCmd
    <2>2. P([cmd EXCEPT !.i = next.ext, !.t = name_to_coding_type(next, cmd.t)])
      BY <1>1, <2>1 DEF MpiDecTestCmd
    <2> QED BY <1>1, <2>2, AssignedIs
  <1>2. CASE c = "o"
    <2>1. P([cmd EXCEPT !.o = next.ext])
      BY <1>2 DEF MpiDecTestCmd
    <2> QED BY <1>2, <2>1, AssignedIs
  <1>3. CASE c = "c"
    <2>1. P([cmd EXCEPT !.c = next.ext, !.pkt_size = Large])
      BY <1>3 DEF MpiDecTestCmd, Large
    <2> QED BY <1>3, <2>1, AssignedIs
  <1>4. CASE c \notin {"i", "o", "c"}
    <2>1. c = "d" \/ c = "w" \/ c = "h" \/ c = "t" \/ c = "f" \/ c = "x" \/ c = "n"
      BY <1>4 DEF Known
    <2>2. P([cmd EXCEPT ![c] = next.n])
      BY <2>1 DEF MpiDecTestCmd
    <2> QED BY <1>4, <2>2, AssignedIs
  <1> QED BY <1>1, <1>2, <1>3, <1>4

LEMMA ParseSteps ==
    ASSUME DataTypes, ParseStep
    PROVE  /\ argv' = argv /\ optindex' \in Nat \ {0}
           /\ \/ cmd' = cmd
              \/ /\ take_option /\ Here.c \in Known /\ cmd' = Assigned(Here.c, Next1)
                 /\ optindex \in 1..Len(argv) /\ optindex + 1 \in 1..Len(argv)
                 /\ Here = argv[optindex] /\ Next1 = argv[optindex + 1] /\ Next1 \in Argument /\ Here \in Argument
  <1>1. argv \in Seq(Argument) /\ optindex \in Nat \ {0} /\ Len(argv) \in Nat
    BY LenProperties DEF DataTypes
  <1>2. CASE skip_word \/ end_of_options \/ stop_parsing \/ all_parsed
    BY <1>1, <1>2 DEF skip_word, end_of_options, stop_parsing, all_parsed
  <1>3. CASE take_option
    <2>1. argv' = argv /\ optindex' = optindex + 2 /\ optindex <= Len(argv)
      BY <1>3 DEF take_option
    <2>2. CASE Here.c \in Known
      <3>1. HasNext /\ cmd' = Assigned(Here.c, Next1)
        BY <1>3, <2>2 DEF take_option
      <3>2. optindex \in 1..Len(argv) /\ optindex + 1 \in 1..Len(argv)
        BY <1>1, <2>1, <3>1 DEF HasNext
      <3>3. argv[optindex] \in Argument /\ argv[optindex + 1] \in Argument
        BY <1>1, <3>2, ElementOfSeq
      <3> QED BY <1>1, <1>3, <2>1, <2>2, <3>1, <3>2, <3>3 DEF Here, Next1
    <2>3. CASE Here.c \notin Known
      BY <1>1, <1>3, <2>1, <2>3 DEF take_option
    <2> QED BY <2>2, <2>3
  <1> QED BY <1>2, <1>3 DEF ParseStep

LEMMA TypesParse ==
    ASSUME DataTypes, ParseStep, UNCHANGED <<may, shared, eos, simpleVars, advancedVars>>
    PROVE  DataTypes'
  <1>1. argv' = argv /\ optindex' \in Nat \ {0}
    BY ParseSteps
  <1>2. CmdType'
    <2>1. Names' = Names /\ Numbers' = Numbers
      BY <1>1 DEF Names, Numbers
    <2>2. CASE cmd' = cmd
      BY <2>1, <2>2 DEF DataTypes, CmdType
    <2>3. CASE cmd' # cmd
      <3>1. /\ Here.c \in Known /\ cmd' = Assigned(Here.c, Next1) /\ optindex + 1 \in 1..Len(argv)
            /\ Next1 = argv[optindex + 1] /\ Next1 \in Argument
        BY <2>3, ParseSteps
      <3>2. optindex + 1 \in DOMAIN argv
        BY <3>1, LenProperties DEF DataTypes
      <3>3. Next1.ext \in Names /\ Next1.n \in Numbers /\ Next1.n \in Int
        BY <3>1, <3>2 DEF Names, Numbers, Argument
      <3>4. AVC \in Numbers /\ HEVC \in Numbers /\ MJPEG \in Numbers
        BY DEF Numbers
      <3>5. cmd \in MpiDecTestCmd(Names, Numbers) /\ cmd.n \in Int /\ cmd.x \in Int
        BY DEF DataTypes, CmdType
      <3>6. /\ Assigned(Here.c, Next1) \in MpiDecTestCmd(Names, Numbers)
            /\ Assigned(Here.c, Next1).n = IF Here.c = "n" THEN Next1.n ELSE cmd.n
            /\ Assigned(Here.c, Next1).x = IF Here.c = "x" THEN Next1.n ELSE cmd.x
        BY <3>1, <3>3, <3>4, <3>5, AssignedType
      <3> QED BY <2>1, <3>1, <3>3, <3>5, <3>6 DEF CmdType
    <2> QED BY <2>2, <2>3
  <1>3. UNCHANGED <<stream, src, line, pkt, pkt_done, eos, queue, decoding, ready, frame, frame_count>>
    BY DEF simpleVars, sourceVars, callVars, decoderVars
  <1>4. LinesOk'
    BY <1>3 DEF DataTypes, LinesOk
  <1> QED BY <1>1, <1>2, <1>3, <1>4 DEF DataTypes

LEMMA TypesNext == DataTypes /\ FreshInv /\ [Next]_vars => DataTypes'
  <1> SUFFICES ASSUME DataTypes, FreshInv, [Next]_vars PROVE DataTypes'
    OBVIOUS
  <1> QED BY TypesParse, TypesOther, TypesSimple, TypesDecoder DEF Next, Thread, Decoder

-----------------------------------------------------------------------------
(* The end of the stream and the limit.                                    *)

FlowInv == LastInv /\ TurnInv /\ HandInv /\ LimitInv

LEMMA FlowFresh ==
    ASSUME Fresh', cmd'.n \in Int,
           \/ pc' \notin SimplePcs \cup {"query"}
           \/ pc' = "packet" /\ eos' = FALSE
           \/ pc' = "query" /\ ~Simple'
    PROVE  FlowInv'
  <1>1. /\ pkt'.eos = FALSE /\ pkt'.n = 0 /\ pkt_done' = FALSE /\ queue' = <<>> /\ ready' = <<>>
        /\ frame'.kind = "none" /\ frame'.eos = FALSE /\ decoding'.eos = FALSE /\ frame_count' = 0
    BY DEF Fresh, Idle, NoFrame
  <1>2. LastInv'
    BY <1>1 DEF LastInv
  <1>3. HandInv'
    BY <1>1 DEF HandInv, SimplePcs
  <1>4. LimitInv'
    BY <1>1 DEF LimitInv
  <1>5. TurnInv'
    BY <1>1 DEF TurnInv, SimplePcs, Sent
  <1> QED BY <1>2, <1>3, <1>4, <1>5 DEF FlowInv

(* Nothing that follows the loops makes the end of the stream appear.      *)
LEMMA FlowAfter ==
    ASSUME DataTypes, LastInv, LimitInv, pc' \in {"release", "done"},
           UNCHANGED <<stream, src, cmd, pkt, pkt_done, frame, frame_count>>,
           UNCHANGED <<queue, decoding, ready>> \/ (queue' = <<>> /\ decoding' = Idle /\ ready' = <<>>)
    PROVE  FlowInv'
  <1>1. Sent' = Sent /\ Loops' = Loops
    BY DEF Sent, Loops
  <1>2. LastInv'
    <2>1. CASE UNCHANGED <<queue, decoding, ready>>
      <3>1. NoMore' = NoMore
        BY <2>1 DEF NoMore, MoreToDo
      <3> QED BY <1>1, <2>1, <3>1 DEF LastInv
    <2>2. CASE queue' = <<>> /\ decoding' = Idle /\ ready' = <<>>
      <3>1. NoMore' /\ decoding'.eos = FALSE
        BY <2>2 DEF NoMore, MoreToDo, Idle
      <3>2. frame'.eos => Sent'
        BY <1>1 DEF LastInv
      <3> QED BY <1>1, <2>2, <3>1, <3>2 DEF LastInv
    <2> QED BY <2>1, <2>2
  <1>3. HandInv' /\ TurnInv'
    BY DEF HandInv, TurnInv, SimplePcs
  <1>4. LimitInv'
    BY <1>1 DEF LimitInv, SimplePcs
  <1> QED BY <1>2, <1>3, <1>4 DEF FlowInv

LEMMA FlowSame ==
    ASSUME FlowInv, UNCHANGED <<pc, stream, src, cmd, eos, may>>, UNCHANGED flowVars
    PROVE  FlowInv'
  <1>1. /\ Sent' = Sent /\ Loops' = Loops /\ NoMore' = NoMore /\ Simple' = Simple
        /\ AllTaken' = AllTaken /\ Answered' = Answered
    BY DEF Sent, Loops, NoMore, MoreToDo, Simple, AllTaken, Answered, flowVars
  <1>2. LastInv'
    BY <1>1 DEF FlowInv, LastInv, flowVars
  <1>3. TurnInv'
    BY <1>1 DEF FlowInv, TurnInv, flowVars
  <1>4. HandInv' /\ LimitInv'
    BY <1>1 DEF FlowInv, HandInv, LimitInv, flowVars
  <1> QED BY <1>2, <1>3, <1>4 DEF FlowInv

(* With a packet that is not the last, or not yet sent, no end of stream   *)
(* is on its way.                                                          *)
LEMMA NotSent ==
    ASSUME LastInv, ~Sent
    PROVE  /\ \A i \in 1..Len(queue) : ~queue[i].eos
           /\ ~decoding.eos
           /\ \A i \in 1..Len(ready) : ~ready[i].eos
           /\ ~frame.eos
BY DEF LastInv

LEMMA FlowRead ==
    ASSUME DataTypes, FlowInv, Simple, read_packet, UNCHANGED <<optVars, may>>
    PROVE  FlowInv'
  <1> DEFINE size == packet_size
             left == stream.size - src
             got  == IF left < size THEN left ELSE size
             last == size = 0 \/ got < size
  <1>1. size \in Nat /\ (cmd.c = None => size > 0) /\ stream.size \in Nat /\ src \in 0..stream.size
    BY PacketSizeIs DEF DataTypes
  <1>2. pc = "packet" /\ ~eos /\ ~pkt.eos /\ ~Sent
    BY DEF read_packet, FlowInv, TurnInv, SimplePcs, Sent
  <1> HIDE DEF size
  <1>3. /\ IF last /\ Loops THEN src' = 0 /\ eos' = FALSE
                           ELSE src' = src + got /\ eos' = last
        /\ pkt' = [first |-> src + 1, n |-> got, eos |-> last /\ ~Loops]
        /\ pkt_done' = FALSE
        /\ pc' = IF got = 0 /\ last /\ Loops THEN "packet" ELSE "send"
    BY DEF read_packet, Rewind, size
  <1>4. UNCHANGED <<stream, cmd, may, queue, decoding, ready, frame, frame_count, gave_up>>
    BY DEF read_packet, decoderVars, optVars
  <1>5. Loops' = Loops /\ Simple' = Simple /\ ~Sent' /\ pkt'.n = got /\ pkt'.eos = (last /\ ~Loops)
    BY <1>3, <1>4 DEF Loops, Simple, Sent
  <1>6. cmd.c = None /\ last /\ ~Loops => src' = stream.size
    BY <1>1, <1>3
  <1> HIDE DEF got, left, last
  <1>7. LastInv'
    <2>1. /\ \A i \in 1..Len(queue) : ~queue[i].eos
          /\ ~decoding.eos
          /\ \A i \in 1..Len(ready) : ~ready[i].eos
          /\ ~frame.eos
      BY <1>2, NotSent DEF FlowInv
    <2>2. pkt'.eos => ~Loops /\ (cmd.c = None => src' = stream.size)
      BY <1>5, <1>6
    <2> QED BY <1>4, <1>5, <2>1, <2>2 DEF LastInv
  <1>8. TurnInv'
    <2>1. pc' \in {"packet", "send"} /\ (pc' = "packet" => last /\ Loops)
      BY <1>3
    <2>2. (pkt'.eos => eos') /\ (eos' => pkt'.eos)
      <3>1. CASE last /\ Loops
        BY <1>3, <1>5, <3>1
      <3>2. CASE ~(last /\ Loops)
        BY <1>3, <1>5, <3>2
      <3> QED BY <3>1, <3>2
    <2>3. pc' = "packet" => ~eos'
      BY <1>3, <2>1
    <2> QED BY <1>5, <2>1, <2>2, <2>3 DEF TurnInv
  <1>9. HandInv'
    <2>1. pc' \in {"packet", "send"} /\ (pc' = "packet" => got = 0)
      BY <1>3
    <2>2. frame.kind \in {"none", "info"} /\ ~frame.eos
      BY <1>2 DEF FlowInv, HandInv, SimplePcs
    <2> QED BY <1>3, <1>4, <1>5, <2>1, <2>2 DEF HandInv
  <1>10. LimitInv'
    <2>1. cmd.n > 0 => ~(frame_count > cmd.n) /\ ~(frame_count >= cmd.n)
      BY <1>2 DEF FlowInv, LimitInv, SimplePcs
    <2> QED BY <1>4, <2>1 DEF LimitInv
  <1> QED BY <1>7, <1>8, <1>9, <1>10 DEF FlowInv

LEMMA FlowPut ==
    ASSUME DataTypes, FlowInv, Simple, decode_put_packet, UNCHANGED <<optVars, may>>
    PROVE  FlowInv'
  <1>1. pc = "send" /\ pc' = "receive" /\ ~pkt_done /\ ~Sent
    BY DEF decode_put_packet, FlowInv, HandInv, Sent
  <1>2. UNCHANGED <<stream, src, eos, cmd, may, pkt, decoding, ready, frame, frame_count, gave_up>>
    BY DEF decode_put_packet, sourceVars, optVars
  <1>3. (queue' = Append(queue, pkt) /\ pkt_done' = TRUE) \/ (queue' = queue /\ pkt_done' = pkt_done)
    BY DEF decode_put_packet
  <1>4. /\ \A i \in 1..Len(queue) : ~queue[i].eos
        /\ ~decoding.eos
        /\ \A i \in 1..Len(ready) : ~ready[i].eos
        /\ ~frame.eos
    BY <1>1, NotSent DEF FlowInv
  <1>5. Loops' = Loops /\ Simple' = Simple
    BY <1>2 DEF Loops, Simple
  <1>6. \A i \in 1..Len(queue') : queue'[i].eos => i = Len(queue') /\ Sent'
    <2>1. CASE queue' = queue
      BY <1>4, <2>1
    <2>2. CASE queue' = Append(queue, pkt) /\ pkt_done' = TRUE
      <3>1. /\ Len(queue) \in Nat /\ Len(queue') = Len(queue) + 1
            /\ \A i \in 1..Len(queue) : queue'[i] = queue[i]
            /\ queue'[Len(queue) + 1] = pkt
        BY <2>2, QueueTakes DEF DataTypes
      <3>2. ASSUME NEW i \in 1..Len(queue'), queue'[i].eos PROVE i = Len(queue') /\ Sent'
        <4>1. i \in 1..Len(queue) \/ i = Len(queue) + 1
          BY <3>1, <3>2
        <4>2. i \notin 1..Len(queue)
          BY <1>4, <3>1, <3>2
        <4>3. i = Len(queue) + 1 /\ pkt.eos
          BY <3>1, <3>2, <4>1, <4>2
        <4> QED BY <1>2, <2>2, <3>1, <4>3 DEF Sent
      <3> QED BY <3>2
    <2> QED BY <1>3, <2>1, <2>2
  <1>7. LastInv'
    BY <1>2, <1>4, <1>5, <1>6 DEF FlowInv, LastInv
  <1>8. TurnInv'
    BY <1>1, <1>2, <1>5 DEF FlowInv, TurnInv, SimplePcs
  <1>9. HandInv'
    BY <1>1, <1>2 DEF FlowInv, HandInv, SimplePcs
  <1>10. LimitInv'
    <2>1. cmd.n > 0 => ~(frame_count > cmd.n) /\ ~(frame_count >= cmd.n)
      BY <1>1 DEF FlowInv, LimitInv, SimplePcs
    <2> QED BY <1>2, <2>1 DEF LimitInv
  <1> QED BY <1>7, <1>8, <1>9, <1>10 DEF FlowInv

LEMMA FlowGet ==
    ASSUME DataTypes, FlowInv, Simple, decode_get_frame, UNCHANGED <<optVars, may>>
    PROVE  FlowInv'
  <1>1. pc = "receive" /\ (a_frame \/ no_frame \/ timed_out \/ no_more)
    BY DEF decode_get_frame
  <1>2. UNCHANGED <<stream, src, eos, cmd, may, pkt, pkt_done, decoding, queue, frame_count>>
    BY DEF decode_get_frame, sourceVars, optVars
  <1>3. Loops' = Loops /\ Simple' = Simple /\ Sent' = Sent /\ NoMore' = NoMore /\ Answered' = Answered
    BY <1>2 DEF Loops, Simple, Sent, NoMore, MoreToDo, Answered
  <1>4. frame.kind \in {"none", "info"} /\ ~frame.eos
    BY <1>1 DEF FlowInv, HandInv, SimplePcs
  <1>5. /\ pc' \in {"info", "got", "turn", "receive"}
        /\ pkt.eos => eos
        /\ eos /\ cmd.n = 0 => pkt.eos
        /\ cmd.n > 0 => (frame_count > cmd.n => Sent) /\ (frame_count >= cmd.n => Sent)
    BY <1>1 DEF a_frame, no_frame, timed_out, no_more, FlowInv, TurnInv, LimitInv, SimplePcs
  <1>6. LimitInv'
    BY <1>2, <1>3, <1>5 DEF LimitInv
  <1>7. CASE a_frame
    <2>1. /\ ready # <<>> /\ frame' = Head(ready) /\ ready' = Tail(ready)
          /\ pc' = IF Head(ready).kind = "info" THEN "info" ELSE "got"
      BY <1>7 DEF a_frame
    <2>2. /\ Head(ready) = ready[1] /\ Len(ready) \in Nat /\ Len(ready) >= 1 /\ Len(ready') = Len(ready) - 1
          /\ \A i \in 1..(Len(ready) - 1) : ready'[i] = ready[i + 1]
          /\ ready' \in Seq(FrameKind)
      BY <2>1, QueueGives DEF DataTypes
    <2>3. \A i \in 1..Len(ready) : ready[i].eos => i = Len(ready) /\ NoMore /\ Sent /\ ready[i].kind # "info"
      BY DEF FlowInv, LastInv
    <2>4. frame'.eos => Len(ready) = 1 /\ NoMore /\ Sent /\ frame'.kind # "info"
      <3>1. 1 \in 1..Len(ready) /\ frame' = ready[1]
        BY <2>1, <2>2
      <3>2. ready[1].eos => 1 = Len(ready) /\ NoMore /\ Sent /\ ready[1].kind # "info"
        BY <2>3, <3>1
      <3> QED BY <3>1, <3>2
    <2>5. frame'.eos => ready' = <<>>
      <3> SUFFICES ASSUME frame'.eos PROVE ready' = <<>>
        OBVIOUS
      <3>1. Len(ready') = 0
        <4>1. Len(ready) = 1
          BY <2>4
        <4>2. Len(ready') = Len(ready) - 1
          BY <2>2
        <4> QED BY <4>1, <4>2
      <3>2. ready' # <<>> => Len(ready') \in Nat \ {0}
        BY <2>2, EmptySeq
      <3> QED BY <3>1, <3>2
    <2>6. \A i \in 1..Len(ready') : ready'[i].eos => i = Len(ready') /\ NoMore /\ Sent /\ ready'[i].kind # "info"
      <3> SUFFICES ASSUME NEW i \in 1..Len(ready'), ready'[i].eos
                   PROVE  i = Len(ready') /\ NoMore /\ Sent /\ ready'[i].kind # "info"
        OBVIOUS
      <3>1. i \in 1..(Len(ready) - 1) /\ i + 1 \in 1..Len(ready) /\ ready'[i] = ready[i + 1]
        BY <2>2
      <3>2. i + 1 = Len(ready) /\ NoMore /\ Sent /\ ready'[i].kind # "info"
        BY <2>3, <3>1
      <3> QED BY <2>2, <3>2
    <2>7. LastInv'
      BY <1>2, <1>3, <2>4, <2>5, <2>6 DEF FlowInv, LastInv
    <2>8. TurnInv'
      BY <1>2, <1>3, <1>5, <2>1 DEF TurnInv, SimplePcs
    <2>9. HandInv'
      BY <2>1, <2>4 DEF HandInv, SimplePcs
    <2> QED BY <1>6, <2>7, <2>8, <2>9 DEF FlowInv
  <1>8. CASE no_frame \/ timed_out
    <2>1. /\ ready' = ready /\ ready = <<>> /\ frame'.eos = FALSE /\ frame'.kind \in {"none", "info"}
          /\ pc' \in {"got", "receive"}
      BY <1>1, <1>4, <1>8 DEF no_frame, timed_out, NoFrame
    <2>2. LastInv'
      BY <1>2, <1>3, <2>1 DEF FlowInv, LastInv
    <2>3. TurnInv'
      BY <1>2, <1>3, <1>5, <2>1 DEF TurnInv, SimplePcs
    <2>4. HandInv'
      BY <2>1 DEF HandInv, SimplePcs
    <2> QED BY <1>6, <2>2, <2>3, <2>4 DEF FlowInv
  <1>9. CASE no_more
    <2>1. ready' = ready /\ frame' = frame /\ pc' = "turn" /\ gave_up' = (gave_up \/ (pkt.eos /\ pkt_done))
      BY <1>9 DEF no_more
    <2>2. LastInv'
      BY <1>2, <1>3, <2>1 DEF FlowInv, LastInv
    <2>3. TurnInv'
      BY <1>2, <1>3, <1>5, <2>1 DEF TurnInv, SimplePcs, Sent
    <2>4. HandInv'
      BY <1>4, <2>1 DEF HandInv, SimplePcs
    <2> QED BY <1>6, <2>2, <2>3, <2>4 DEF FlowInv
  <1> QED BY <1>1, <1>7, <1>8, <1>9

LEMMA FlowInfo ==
    ASSUME DataTypes, FlowInv, Simple, info_change, UNCHANGED <<optVars, may>>
    PROVE  FlowInv'
  <1>1. /\ pc = "info" /\ pc' \in {"got", "turn"}
        /\ pc' = "turn" => \E i \in DOMAIN GroupCalls : Fails(GroupCalls[i])
    BY DEF info_change
  <1>2. UNCHANGED <<stream, src, eos, cmd, may, pkt, pkt_done, decoding, queue, ready, frame, frame_count, gave_up>>
    BY DEF info_change, sourceVars, callVars, optVars
  <1>3. Loops' = Loops /\ Simple' = Simple /\ Sent' = Sent /\ NoMore' = NoMore /\ Answered' = Answered
    BY <1>2 DEF Loops, Simple, Sent, NoMore, MoreToDo, Answered
  <1>4. pc' = "turn" => ~Answered
    BY <1>1, GroupCallsAre DEF Fails, Answered
  <1>5. LastInv'
    BY <1>2, <1>3 DEF FlowInv, LastInv
  <1>6. TurnInv'
    BY <1>1, <1>2, <1>3, <1>4 DEF FlowInv, TurnInv, SimplePcs
  <1>7. HandInv'
    BY <1>1, <1>2 DEF FlowInv, HandInv, SimplePcs
  <1>8. LimitInv'
    BY <1>1, <1>2, <1>3 DEF FlowInv, LimitInv, SimplePcs
  <1> QED BY <1>5, <1>6, <1>7, <1>8 DEF FlowInv

LEMMA FlowUse ==
    ASSUME DataTypes, FlowInv, Simple, use_frame, UNCHANGED <<optVars, may>>
    PROVE  FlowInv'
  <1>1. /\ pc = "got" /\ pc' = AfterFrame(frame.eos) /\ pc' \in {"receive", "turn"}
        /\ frame_count' = frame_count + (IF frame.kind \in {"picture", "empty"} THEN 1 ELSE 0)
        /\ eos' = (eos \/ (pc' = "turn" /\ ~frame.eos /\ cmd.n > 0 /\ frame_count' >= cmd.n))
        /\ frame' = NoFrame
    BY AfterFrameGoes DEF use_frame
  <1>2. UNCHANGED <<stream, src, cmd, may, pkt, pkt_done, decoding, queue, ready, gave_up>>
    BY DEF use_frame, sourceVars, decoderVars, optVars
  <1>3. Loops' = Loops /\ Simple' = Simple /\ Sent' = Sent /\ NoMore' = NoMore
    BY <1>2 DEF Loops, Simple, Sent, NoMore, MoreToDo
  <1>4. frame'.kind = "none" /\ frame'.eos = FALSE
    BY <1>1 DEF NoFrame
  <1>5. LastInv'
    BY <1>2, <1>3, <1>4 DEF FlowInv, LastInv
  <1>6. (pkt.eos => eos) /\ (eos /\ cmd.n = 0 => pkt.eos)
    BY <1>1 DEF FlowInv, TurnInv, SimplePcs
  <1>7. pc' = "turn" /\ Sent => frame.eos
    BY <1>1 DEF AfterFrame, Awaited, Sent
  <1>8. frame.eos => ready = <<>> /\ NoMore
    BY DEF FlowInv, LastInv
  <1>9. TurnInv'
    <2>1. (pkt'.eos => eos') /\ (eos' /\ cmd'.n = 0 => pkt'.eos)
      <3>1. pkt' = pkt /\ cmd' = cmd /\ (cmd.n = 0 => ~(cmd.n > 0))
        BY <1>2
      <3>2. cmd.n = 0 => (eos' => eos)
        BY <1>1, <3>1
      <3>3. eos => eos'
        BY <1>1
      <3> QED BY <1>6, <3>1, <3>2, <3>3
    <2>2. pc' = "turn" /\ Sent' => AllTaken'
      BY <1>2, <1>3, <1>4, <1>7, <1>8 DEF AllTaken
    <2> QED BY <1>1, <2>1, <2>2 DEF TurnInv
  <1>10. HandInv'
    BY <1>1, <1>4 DEF HandInv
  <1>11. LimitInv'
    <2>1. cmd.n \in Int /\ frame_count \in Nat
      BY DEF DataTypes, CmdType
    <2>2. CASE Sent
      BY <1>3, <2>2 DEF LimitInv
    <2>3. CASE ~Sent /\ cmd.n > 0
      <3>1. frame_count < cmd.n
        BY <1>1, <2>1, <2>3 DEF FlowInv, LimitInv, SimplePcs
      <3>2. frame_count' <= cmd.n
        BY <1>1, <2>1, <3>1
      <3>3. pc' = "receive" => ~(frame_count' >= cmd.n)
        BY <1>1, <2>3 DEF AfterFrame, Awaited, Sent
      <3>4. frame_count' \in Int
        BY <1>1, <2>1
      <3> QED BY <1>1, <1>2, <2>1, <3>2, <3>3, <3>4 DEF LimitInv, SimplePcs
    <2>4. CASE ~(cmd.n > 0)
      BY <1>2, <2>4 DEF LimitInv
    <2> QED BY <2>2, <2>3, <2>4
  <1> QED BY <1>5, <1>9, <1>10, <1>11 DEF FlowInv

LEMMA FlowTurn ==
    ASSUME DataTypes, FlowInv, Simple, end_turn, UNCHANGED <<optVars, may>>
    PROVE  FlowInv'
  <1>1. /\ pc = "turn" /\ eos' = (eos \/ Limit)
        /\ IF Limit \/ pkt_done THEN pc' = IF eos' THEN "query" ELSE "packet"
                                ELSE pc' = "send"
    BY DEF end_turn
  <1>2. UNCHANGED <<stream, src, cmd, may, pkt, pkt_done, decoding, queue, ready, frame, frame_count, gave_up>>
    BY DEF end_turn, sourceVars, decoderVars, optVars
  <1>3. /\ Loops' = Loops /\ Simple' = Simple /\ Sent' = Sent /\ NoMore' = NoMore
        /\ Answered' = Answered /\ AllTaken' = AllTaken
    BY <1>2 DEF Loops, Simple, Sent, NoMore, MoreToDo, Answered, AllTaken
  <1>4. cmd.n \in Int /\ frame_count \in Nat /\ pkt_done \in BOOLEAN
    BY DEF DataTypes, CmdType
  <1>5. cmd.n = 0 => ~Limit
    BY <1>4 DEF Limit
  <1>6. LastInv'
    BY <1>2, <1>3 DEF FlowInv, LastInv
  <1>7. /\ (pkt.eos => eos) /\ (eos /\ cmd.n = 0 => pkt.eos)
        /\ Sent /\ cmd.n = 0 /\ ~gave_up /\ Answered => AllTaken
    BY <1>1 DEF FlowInv, TurnInv, SimplePcs
  <1>8. TurnInv'
    <2>1. (pkt'.eos => eos') /\ (eos' /\ cmd'.n = 0 => pkt'.eos)
      BY <1>1, <1>2, <1>5, <1>7
    <2>2. pc' = "packet" => ~eos'
      BY <1>1
    <2>3. pc' # "turn" /\ (pc' = "query" /\ cmd'.n = 0 => Sent')
      BY <1>1, <1>2, <1>3, <1>5, <1>7 DEF Sent
    <2>4. Sent' /\ cmd'.n = 0 /\ ~gave_up' /\ Answered' => AllTaken'
      BY <1>2, <1>3, <1>7
    <2> QED BY <2>1, <2>2, <2>3, <2>4 DEF TurnInv
  <1>9. HandInv'
    <2>1. frame.kind \in {"none", "info"} /\ ~frame.eos
      BY <1>1 DEF FlowInv, HandInv, SimplePcs
    <2>2. pc' = "packet" => pkt_done
      BY <1>1
    <2>3. pc' = "send" => ~pkt_done
      BY <1>1
    <2>4. pc' # "info"
      BY <1>1
    <2> QED BY <1>2, <2>1, <2>2, <2>3, <2>4 DEF HandInv
  <1>10. LimitInv'
    <2>1. pc' \in {"packet", "send"} /\ cmd.n > 0 => ~(frame_count >= cmd.n)
      BY <1>1 DEF Limit
    <2>2. pc' \in {"packet", "send", "query"}
      BY <1>1
    <2>3. cmd.n > 0 /\ frame_count > cmd.n => Sent
      BY DEF FlowInv, LimitInv
    <2> QED BY <1>2, <1>3, <2>1, <2>2, <2>3 DEF LimitInv, SimplePcs
  <1> QED BY <1>6, <1>8, <1>9, <1>10 DEF FlowInv

(* The decoder's steps. *)
LEMMA FlowTake ==
    ASSUME DataTypes, FlowInv, take_packet,
           UNCHANGED <<pc, stream, src, eos, cmd, may, pkt, pkt_done, frame, frame_count, gave_up>>
    PROVE  FlowInv'
  <1>1. /\ Loops' = Loops /\ Simple' = Simple /\ Sent' = Sent /\ Answered' = Answered
    BY DEF Loops, Simple, Sent, Answered
  <1>2. /\ queue # <<>> /\ queue' = Tail(queue) /\ ready' = ready
        /\ decoding'.eos = Head(queue).eos
    BY DEF take_packet
  <1>3. ~NoMore
    BY <1>2 DEF NoMore
  <1>4. /\ Head(queue) = queue[1] /\ Len(queue) \in Nat /\ Len(queue) >= 1 /\ Len(queue') = Len(queue) - 1
        /\ \A i \in 1..(Len(queue) - 1) : queue'[i] = queue[i + 1]
        /\ queue' \in Seq(Packet)
    BY <1>2, QueueGives DEF DataTypes
  <1>5. \A i \in 1..Len(queue) : queue[i].eos => i = Len(queue) /\ Sent
    BY DEF FlowInv, LastInv
  <1>6. decoding'.eos => queue' = <<>> /\ Sent
    <2> SUFFICES ASSUME decoding'.eos PROVE queue' = <<>> /\ Sent
      OBVIOUS
    <2>1. 1 \in 1..Len(queue) /\ queue[1].eos
      BY <1>2, <1>4
    <2>2. 1 = Len(queue) /\ Sent
      BY <1>5, <2>1
    <2>3. Len(queue') = 0
      <3>1. Len(queue') = Len(queue) - 1
        BY <1>4
      <3> QED BY <2>2, <3>1
    <2>4. queue' # <<>> => Len(queue') \in Nat \ {0}
      BY <1>4, EmptySeq
    <2> QED BY <2>2, <2>3, <2>4
  <1>7. \A i \in 1..Len(queue') : queue'[i].eos => i = Len(queue') /\ Sent
    <2> SUFFICES ASSUME NEW i \in 1..Len(queue'), queue'[i].eos PROVE i = Len(queue') /\ Sent
      OBVIOUS
    <2>1. i \in 1..(Len(queue) - 1) /\ i + 1 \in 1..Len(queue) /\ queue'[i] = queue[i + 1]
      BY <1>4
    <2>2. i + 1 = Len(queue) /\ Sent
      BY <1>5, <2>1
    <2> QED BY <1>4, <2>2
  <1>8. (\A i \in 1..Len(ready) : ~ready[i].eos) /\ ~frame.eos
    BY <1>3 DEF FlowInv, LastInv
  <1>9. LastInv'
    BY <1>1, <1>2, <1>6, <1>7, <1>8 DEF FlowInv, LastInv
  <1>10. TurnInv'
    <2>1. ~AllTaken
      BY <1>3 DEF AllTaken
    <2> QED BY <1>1, <2>1 DEF FlowInv, TurnInv
  <1>11. HandInv' /\ LimitInv'
    BY <1>1 DEF FlowInv, HandInv, LimitInv
  <1> QED BY <1>9, <1>10, <1>11 DEF FlowInv

(* A frame is made: the decoder had something to do, so that nothing that  *)
(* was made before is the last.                                            *)
LEMMA FlowMakes ==
    ASSUME DataTypes, FlowInv, MoreToDo, NEW f, f \in FrameKind, ready' = Append(ready, f), queue' = queue,
           decoding'.eos => decoding.eos,
           f.eos => NoMore' /\ Sent /\ f.kind # "info",
           UNCHANGED <<pc, stream, src, eos, cmd, may, pkt, pkt_done, frame, frame_count, gave_up>>
    PROVE  FlowInv'
  <1>1. Loops' = Loops /\ Simple' = Simple /\ Sent' = Sent /\ Answered' = Answered
    BY DEF Loops, Simple, Sent, Answered
  <1>2. ~NoMore
    BY DEF NoMore
  <1>3. (\A i \in 1..Len(ready) : ~ready[i].eos) /\ ~frame.eos
    BY <1>2 DEF FlowInv, LastInv
  <1>4. /\ Len(ready) \in Nat /\ Len(ready') = Len(ready) + 1
        /\ \A i \in 1..Len(ready) : ready'[i] = ready[i]
        /\ ready'[Len(ready) + 1] = f
    BY QueueTakes DEF DataTypes
  <1>5. \A i \in 1..Len(ready') : ready'[i].eos => i = Len(ready') /\ NoMore' /\ Sent' /\ ready'[i].kind # "info"
    <2> SUFFICES ASSUME NEW i \in 1..Len(ready'), ready'[i].eos
                 PROVE  i = Len(ready') /\ NoMore' /\ Sent' /\ ready'[i].kind # "info"
      OBVIOUS
    <2>1. i \in 1..Len(ready) \/ i = Len(ready) + 1
      BY <1>4
    <2>2. i \notin 1..Len(ready)
      BY <1>3, <1>4
    <2>3. i = Len(ready') /\ ready'[i] = f
      BY <1>4, <2>1, <2>2
    <2> QED BY <1>1, <2>3
  <1>6. LastInv'
    BY <1>1, <1>3, <1>5 DEF FlowInv, LastInv
  <1>7. TurnInv'
    <2>1. ~AllTaken
      BY <1>2 DEF AllTaken
    <2> QED BY <1>1, <2>1 DEF FlowInv, TurnInv
  <1>8. HandInv' /\ LimitInv'
    BY <1>1 DEF FlowInv, HandInv, LimitInv
  <1> QED BY <1>6, <1>7, <1>8 DEF FlowInv

LEMMA FlowDecoder ==
    ASSUME DataTypes, FlowInv, SimpleDecoder, UNCHANGED <<optVars, may>>
    PROVE  FlowInv'
  <1>1. UNCHANGED <<pc, stream, src, eos, cmd, may, pkt, pkt_done, frame, frame_count, gave_up>>
    BY DEF SimpleDecoder, sourceVars, callVars, optVars
  <1>2. CASE take_packet
    BY <1>1, <1>2, FlowTake
  <1>3. decoding \in Work
    BY DEF DataTypes
  <1>4. CASE ask_for_buffers
    <2> DEFINE f == Frame("info", 0, FALSE)
    <2>1. f \in FrameKind /\ f.eos = FALSE
      BY DEF Frame, FrameKind
    <2>2. MoreToDo /\ ready' = Append(ready, f) /\ queue' = queue /\ decoding' = decoding
      BY <1>4 DEF ask_for_buffers, MoreToDo
    <2> HIDE DEF f
    <2> QED BY <1>1, <2>1, <2>2, FlowMakes
  <1>5. CASE decode_picture
    <2>1. PICK marked \in BOOLEAN :
             /\ marked => decoding.eos /\ decoding.next = decoding.last
             /\ ready' = Append(ready, Frame("picture", decoding.next, marked))
             /\ decoding' = [decoding EXCEPT !.next = @ + 1, !.eos = @ /\ ~marked]
      BY <1>5 DEF decode_picture
    <2> DEFINE f == Frame("picture", decoding.next, marked)
    <2>2. f \in FrameKind /\ f.eos = marked /\ f.kind = "picture"
      BY <1>3 DEF Frame, FrameKind, Work
    <2>3. MoreToDo /\ queue' = queue
      BY <1>5 DEF decode_picture, MoreToDo
    <2>4. /\ decoding'.eos = (decoding.eos /\ ~marked) /\ decoding'.next = decoding.next + 1
          /\ decoding'.last = decoding.last
      BY <1>3, <2>1 DEF Work
    <2>5. f.eos => NoMore' /\ Sent
      <3> SUFFICES ASSUME marked PROVE NoMore' /\ Sent
        BY <2>2
      <3>1. queue = <<>> /\ Sent
        BY <2>1 DEF FlowInv, LastInv
      <3>2. ~MoreToDo'
        <4>1. decoding'.eos = FALSE
          BY <2>4
        <4>2. decoding.next = decoding.last /\ decoding.next \in Nat
          BY <1>3, <2>1 DEF Work
        <4>3. ~(decoding.next + 1 <= decoding.next)
          BY <4>2
        <4>4. ~(decoding'.next <= decoding'.last)
          BY <2>4, <4>2, <4>3
        <4> QED BY <4>1, <4>4 DEF MoreToDo
      <3> QED BY <2>3, <3>1, <3>2 DEF NoMore
    <2>6. ready' = Append(ready, f)
      BY <2>1
    <2>7. decoding'.eos => decoding.eos
      BY <2>4
    <2> HIDE DEF f
    <2> QED BY <1>1, <2>2, <2>3, <2>5, <2>6, <2>7, FlowMakes
  <1>6. CASE decode_end
    <2> DEFINE f == Frame("empty", 0, TRUE)
    <2>1. f \in FrameKind /\ f.kind = "empty"
      BY DEF Frame, FrameKind
    <2>2. MoreToDo /\ ready' = Append(ready, f) /\ queue' = queue /\ decoding' = Idle /\ decoding.eos
      BY <1>6 DEF decode_end, MoreToDo
    <2>3. decoding'.eos = FALSE /\ ~MoreToDo'
      BY <2>2 DEF Idle, MoreToDo
    <2>4. NoMore' /\ Sent
      BY <2>2, <2>3 DEF FlowInv, LastInv, NoMore
    <2> HIDE DEF f
    <2> QED BY <1>1, <2>1, <2>2, <2>3, <2>4, FlowMakes
  <1> QED BY <1>2, <1>4, <1>5, <1>6 DEF SimpleDecoder

LEMMA FlowNext ==
    ASSUME HoldInv, DataTypes, DataTypes', FreshInv, FreshInv', FlowInv, [Next]_vars
    PROVE  FlowInv'
  <1>1. cmd'.n \in Int
    BY DEF DataTypes, CmdType
  <1>2. CASE ParseStep /\ UNCHANGED <<may, shared, eos, simpleVars, advancedVars>>
    <2>1. pc' \in Early
      BY <1>2 DEF ParseStep, skip_word, end_of_options, take_option, stop_parsing, all_parsed, Early
    <2>2. Fresh' /\ pc' \notin SimplePcs \cup {"query"}
      BY <2>1 DEF FreshInv, Early, SimplePcs
    <2> QED BY <1>1, <2>2, FlowFresh
  <1>3. CASE mpp_jpg2yuv
    <2>1. pc = "parsed" /\ pc' \in {"setup", "done"} /\ UNCHANGED flowVars
      BY <1>3 DEF mpp_jpg2yuv, callVars, decoderVars, flowVars
    <2>2. Fresh' /\ pc' \notin SimplePcs \cup {"query"}
      BY <2>1, FreshKept DEF FreshInv, Early, SimplePcs
    <2> QED BY <1>1, <2>2, FlowFresh
  <1>4. CASE open_input \/ open_output \/ get_buffers
    <2>1. /\ pc = "setup" /\ pc' \in {"setup", "release", "packet", "read"} /\ UNCHANGED flowVars
          /\ eos' = eos
      BY <1>4 DEF open_input, open_output, get_buffers, Acquires, Out, still, simpleVars, sourceVars,
         callVars, decoderVars, flowVars
    <2>2. Fresh' /\ eos' = FALSE
      BY <2>1, FreshKept DEF FreshInv, Early
    <2>3. pc' = "packet" \/ pc' \notin SimplePcs \cup {"query"}
      BY <2>1 DEF SimplePcs
    <2> QED BY <1>1, <2>2, <2>3, FlowFresh
  <1>5. CASE read \/ put_poll \/ put_dequeue \/ put_enqueue \/ get_poll \/ get_dequeue \/ write
    <2>1. pc \in AdvancedPcs /\ pc' \in AdvancedPcs \cup {"query"}
      BY <1>5 DEF read, put_poll, put_dequeue, put_enqueue, get_poll, get_dequeue, write, Goes, Returns,
             Again, AdvancedPcs
    <2>2. UNCHANGED flowVars /\ cmd' = cmd
      BY <1>5 DEF read, put_poll, put_dequeue, put_enqueue, get_poll, get_dequeue, write, Rest, Io,
             callVars, decoderVars, flowVars, optVars
    <2>3. Fresh' /\ ~Simple'
      BY <2>1, <2>2, FreshKept, CmdKept DEF FreshInv, HoldInv
    <2>4. pc' \notin SimplePcs
      BY <2>1 DEF AdvancedPcs, SimplePcs
    <2>5. (pc' = "query" /\ ~Simple') \/ pc' \notin SimplePcs \cup {"query"}
      BY <2>3, <2>4
    <2> QED BY <1>1, <2>3, <2>5, FlowFresh
  <1>6. CASE query \/ release
    <2>1. pc' \in {"release", "done"}
      BY <1>6 DEF query, release, Out, Released
    <2>2. UNCHANGED <<stream, src, cmd, pkt, pkt_done, frame, frame_count>>
      BY <1>6 DEF query, release, sourceVars, callVars, optVars
    <2>3. UNCHANGED <<queue, decoding, ready>> \/ (queue' = <<>> /\ decoding' = Idle /\ ready' = <<>>)
      BY <1>6 DEF query, release, Stopped, decoderVars
    <2> QED BY <2>1, <2>2, <2>3, FlowAfter DEF FlowInv
  <1>7. CASE SimpleStep /\ UNCHANGED <<optVars, may, advancedVars>>
    <2>1. Simple
      BY <1>7 DEF SimpleStep, read_packet, decode_put_packet, decode_get_frame, info_change, use_frame,
         end_turn, HoldInv, SimplePcs
    <2> QED BY <1>7, <2>1, FlowRead, FlowPut, FlowGet, FlowInfo, FlowUse, FlowTurn DEF SimpleStep
  <1>8. CASE SimpleDecoder /\ UNCHANGED <<optVars, may, advancedVars>>
    BY <1>8, FlowDecoder
  <1>9. CASE take \/ decode \/ UNCHANGED vars
    <2>1. UNCHANGED <<pc, stream, src, cmd, eos, may>> /\ UNCHANGED flowVars
      BY <1>9 DEF take, decode, vars, Io, Rest, simpleVars, sourceVars, callVars, decoderVars, flowVars, optVars
    <2> QED BY <2>1, FlowSame
  <1> QED BY <1>2, <1>3, <1>4, <1>5, <1>6, <1>7, <1>8, <1>9 DEF Next, Thread, Decoder

-----------------------------------------------------------------------------
(* The output is empty from its opening to the loops. *)

LEMMA EmptySetup ==
    ASSUME HoldInv, EmptyInv, open_input \/ open_output \/ get_buffers,
           cmd.o # None, pc' \in {"setup", "packet", "read"}, pc' = "setup" => step' > 2
    PROVE  file' = <<>>
  <1>1. step \in 1..Len(Setup) /\ pc = "setup"
    BY DEF HoldInv, open_input, open_output, get_buffers
  <1>2. \E gain : Acquires(gain)
    BY DEF open_input, open_output, get_buffers, Out
  <1>3. (step = Len(Setup)) \/ step' = step + 1
    BY <1>2 DEF Acquires
  <1>4. Setup[1] = "fp_input" /\ Setup[2] = "fp_output" /\ Len(Setup) >= 3 /\ Len(Setup) \in Nat
    BY SetupFacts
  <1>5. step = Len(Setup) => pc' # "setup"
    BY <1>2 DEF Acquires
  <1>6. step >= 2
    <2>1. CASE step = Len(Setup)
      BY <1>4, <2>1
    <2>2. CASE step # Len(Setup)
      <3>1. pc' = "setup" /\ step' = step + 1
        BY <1>1, <1>2, <2>2 DEF Acquires
      <3>2. step + 1 > 2
        BY <3>1
      <3> QED BY <1>1, <1>4, <3>2
    <2> QED BY <2>1, <2>2
  <1>7. CASE open_output
    BY <1>7 DEF open_output, Out
  <1>8. CASE open_input \/ get_buffers
    <2>1. file' = file /\ Setup[step] # "fp_output"
      BY <1>8 DEF open_input, get_buffers, Files
    <2>2. step # 2
      BY <1>4, <2>1
    <2>3. step > 2
      BY <1>1, <1>4, <1>6, <2>2
    <2> QED BY <1>1, <2>1, <2>3 DEF EmptyInv
  <1> QED BY <1>7, <1>8

LEMMA EmptyNext ==
    ASSUME HoldInv, EmptyInv, [Next]_vars
    PROVE  EmptyInv'
  <1>1. CASE open_input \/ open_output \/ get_buffers
    <2>1. cmd' = cmd
      BY <1>1 DEF open_input, open_output, get_buffers, still, optVars
    <2> QED BY <1>1, <2>1, EmptySetup DEF EmptyInv
  <1>2. CASE mpp_jpg2yuv
    <2>1. pc = "parsed" /\ step' = step
      BY <1>2 DEF mpp_jpg2yuv, advancedVars
    <2>2. step' = 1
      BY <2>1 DEF HoldInv, Early
    <2> QED BY <2>2 DEF EmptyInv
  <1>3. CASE ParseStep /\ UNCHANGED <<may, shared, eos, simpleVars, advancedVars>>
    BY <1>3 DEF ParseStep, skip_word, end_of_options, take_option, stop_parsing, all_parsed, EmptyInv
  <1>4. CASE read \/ put_poll \/ put_dequeue \/ put_enqueue \/ get_poll \/ get_dequeue \/ write
    <2>1. pc' # "setup"
      BY <1>4 DEF read, put_poll, put_dequeue, put_enqueue, get_poll, get_dequeue, write, Goes, Returns,
             Again
    <2> QED BY <2>1 DEF EmptyInv
  <1>5. CASE query \/ release
    BY <1>5 DEF query, release, Out, Released, EmptyInv
  <1>6. CASE SimpleStep
    <2>1. pc' # "setup"
      BY <1>6, AfterFrameGoes DEF SimpleStep, read_packet, decode_put_packet, decode_get_frame,
         a_frame, no_frame, timed_out, no_more, info_change, use_frame, end_turn
    <2> QED BY <2>1 DEF EmptyInv
  <1>7. CASE Decoder \/ UNCHANGED vars
    <2>1. pc' = pc /\ cmd' = cmd /\ step' = step /\ file' = file
      BY <1>7 DEF Decoder, take, decode, SimpleDecoder, vars, Io, Rest, shared, optVars, advancedVars
    <2> QED BY <2>1 DEF EmptyInv
  <1> QED BY <1>1, <1>2, <1>3, <1>4, <1>5, <1>6, <1>7 DEF Next, Thread

-----------------------------------------------------------------------------
(* What a picture makes of the output. *)

LEMMA ShowGood ==
    ASSUME NEW d \in Nat, NEW q \in Nat \ {0}, Shown(d), Successor(d, q), q \notin stream.bad,
           file' = Append(file, q), cmd' = cmd, stream' = stream
    PROVE  Shown(q)'
  <1> DEFINE n == Len(file)
  <1>1. /\ file \in Seq(Nat \ {0}) /\ n \in Nat
        /\ \A i \in 1..n : file[i] \notin stream.bad
        /\ file # <<>> => Follows(0, file[1])
        /\ \A i \in 1..(n - 1) : Follows(file[i], file[i + 1]) \/ (Loops /\ Follows(0, file[i + 1]))
        /\ \/ file = <<>> /\ Spoilt(1, d)
           \/ file # <<>> /\ file[n] <= d /\ Spoilt(file[n] + 1, d)
           \/ file # <<>> /\ Loops /\ Spoilt(1, d)
        /\ ~Loops => {file[i] : i \in 1..n} = (1..d) \ stream.bad
    BY DEF Shown
  <1>2. /\ file' \in Seq(Nat \ {0}) /\ Len(file') = n + 1 /\ file'[n + 1] = q
        /\ \A i \in 1..n : file'[i] = file[i]
    BY <1>1, QueueTakes
  <1>3. file # <<>> => n >= 1
    BY <1>1, EmptySeq
  <1>4. file' # <<>> /\ (file = <<>> => n = 0)
    BY <1>1, <1>2
  <1>5. q = d + 1 \/ (Loops /\ q = 1)
    BY DEF Successor
  <1> HIDE DEF n
  <1>6. \A i \in 1..Len(file') : file'[i] \notin stream.bad
    <2>1. \A i \in 1..Len(file') : i \in 1..n \/ i = n + 1
      BY <1>1, <1>2
    <2> QED BY <1>1, <1>2, <2>1
  <1>7. Follows(0, file'[1])
    <2>1. CASE file = <<>>
      <3>1. file'[1] = q /\ Spoilt(1, d)
        BY <1>1, <1>2, <1>4, <2>1
      <3>2. Spoilt(0 + 1, q - 1)
        BY <1>5, <3>1 DEF Spoilt
      <3> QED BY <3>1, <3>2 DEF Follows
    <2>2. CASE file # <<>>
      <3>1. file'[1] = file[1]
        BY <1>1, <1>2, <1>3, <2>2
      <3> QED BY <1>1, <2>2, <3>1
    <2> QED BY <2>1, <2>2
  <1>8. file # <<>> => Follows(file[n], q) \/ (Loops /\ Follows(0, q))
    <2> SUFFICES ASSUME file # <<>> PROVE Follows(file[n], q) \/ (Loops /\ Follows(0, q))
      OBVIOUS
    <2>1. n \in 1..n
      BY <1>1, <1>3
    <2>2. file[n] \in Nat
      BY <1>1, <2>1, ElementOfSeq DEF n
    <2>3. CASE Loops /\ q = 1
      <3>1. Spoilt(0 + 1, q - 1) /\ 0 < q
        BY <2>3 DEF Spoilt
      <3> QED BY <2>3, <3>1 DEF Follows
    <2>4. CASE q = d + 1 /\ file[n] <= d /\ Spoilt(file[n] + 1, d)
      <3>1. file[n] < q /\ q - 1 = d
        BY <2>2, <2>4
      <3> QED BY <2>4, <3>1 DEF Follows
    <2>5. CASE q = d + 1 /\ Loops /\ Spoilt(1, d)
      <3>1. 0 < q /\ q - 1 = d /\ 0 + 1 = 1
        BY <2>5
      <3> QED BY <2>5, <3>1 DEF Follows
    <2> QED BY <1>1, <1>5, <2>3, <2>4, <2>5
  <1>9. ASSUME NEW i \in 1..(Len(file') - 1)
        PROVE  Follows(file'[i], file'[i + 1]) \/ (Loops /\ Follows(0, file'[i + 1]))
    <2>1. i \in 1..n /\ (i = n \/ i \in 1..(n - 1)) /\ i + 1 \in 1..(n + 1)
      BY <1>1, <1>2
    <2>2. CASE i = n
      <3>1. file # <<>> /\ file'[i] = file[n] /\ file'[i + 1] = q
        BY <1>2, <1>4, <2>1, <2>2
      <3> QED BY <1>8, <3>1
    <2>3. CASE i \in 1..(n - 1)
      <3>1. i + 1 \in 1..n
        BY <1>1, <2>3
      <3>2. file'[i] = file[i] /\ file'[i + 1] = file[i + 1]
        BY <1>2, <2>1, <3>1
      <3> QED BY <1>1, <2>3, <3>2
    <2> QED BY <2>1, <2>2, <2>3
  <1>10. file'[Len(file')] <= q /\ Spoilt(file'[Len(file')] + 1, q)
    <2>1. file'[Len(file')] = q
      BY <1>2
    <2> QED BY <2>1 DEF Spoilt
  <1>11. ~Loops => {file'[i] : i \in 1..Len(file')} = (1..q) \ stream.bad
    <2> SUFFICES ASSUME ~Loops PROVE {file'[i] : i \in 1..Len(file')} = (1..q) \ stream.bad
      OBVIOUS
    <2>1. q = d + 1
      BY <1>5
    <2>2. {file'[i] : i \in 1..Len(file')} = {file[i] : i \in 1..n} \cup {q}
      <3>1. \A i \in 1..Len(file') : i \in 1..n \/ i = n + 1
        BY <1>1, <1>2
      <3>2. n + 1 \in 1..Len(file') /\ \A i \in 1..n : i \in 1..Len(file')
        BY <1>1, <1>2
      <3> QED BY <1>2, <3>1, <3>2
    <2>3. 1..q = (1..d) \cup {q}
      BY <2>1
    <2> QED BY <1>1, <2>2, <2>3
  <1>12. Loops' = Loops /\ stream' = stream
    BY DEF Loops
  <1> QED BY <1>2, <1>4, <1>6, <1>7, <1>9, <1>10, <1>11, <1>12 DEF Shown, Follows, Spoilt

LEMMA ShowBad ==
    ASSUME NEW d \in Nat, NEW q \in Nat \ {0}, Shown(d), Successor(d, q), q \in stream.bad,
           file' = file, cmd' = cmd, stream' = stream
    PROVE  Shown(q)'
  <1>1. Loops' = Loops
    BY DEF Loops
  <1>2. q = d + 1 \/ (Loops /\ q = 1)
    BY DEF Successor
  <1>3. ASSUME NEW p \in Int, q = d + 1, Spoilt(p, d) PROVE Spoilt(p, q)
    <2>1. \A r \in p..q : r \in p..d \/ r = q
      BY <1>3
    <2> QED BY <1>3, <2>1 DEF Spoilt
  <1>4. q = 1 => Spoilt(1, q)
    <2>1. q = 1 => \A r \in 1..q : r = q
      OBVIOUS
    <2> QED BY <2>1 DEF Spoilt
  <1>5. file # <<>> => file[Len(file)] \in Nat
    <2>1. file \in Seq(Nat \ {0}) /\ (file # <<>> => Len(file) \in 1..Len(file))
      BY EmptySeq DEF Shown
    <2> QED BY <2>1, ElementOfSeq
  <1>6. \/ file = <<>> /\ Spoilt(1, q)
        \/ file # <<>> /\ file[Len(file)] <= q /\ Spoilt(file[Len(file)] + 1, q)
        \/ file # <<>> /\ Loops /\ Spoilt(1, q)
    <2>1. CASE q = d + 1
      <3>1. CASE file = <<>> /\ Spoilt(1, d)
        BY <1>3, <2>1, <3>1
      <3>2. CASE file # <<>> /\ file[Len(file)] <= d /\ Spoilt(file[Len(file)] + 1, d)
        <4>1. file[Len(file)] + 1 \in Int /\ file[Len(file)] <= q
          BY <1>5, <2>1, <3>2
        <4>2. Spoilt(file[Len(file)] + 1, q)
          BY <1>3, <2>1, <3>2, <4>1
        <4> QED BY <3>2, <4>1, <4>2
      <3>3. CASE file # <<>> /\ Loops /\ Spoilt(1, d)
        BY <1>3, <2>1, <3>3
      <3> QED BY <3>1, <3>2, <3>3 DEF Shown
    <2>2. CASE Loops /\ q = 1
      BY <1>4, <2>2
    <2> QED BY <1>2, <2>1, <2>2
  <1>7. ~Loops => {file[i] : i \in 1..Len(file)} = (1..q) \ stream.bad
    <2> SUFFICES ASSUME ~Loops PROVE {file[i] : i \in 1..Len(file)} = (1..q) \ stream.bad
      OBVIOUS
    <2>1. 1..q = (1..d) \cup {q}
      BY <1>2
    <2>2. {file[i] : i \in 1..Len(file)} = (1..d) \ stream.bad
      BY DEF Shown
    <2> QED BY <2>1, <2>2
  <1> QED BY <1>1, <1>6, <1>7 DEF Shown, Follows, Spoilt

LEMMA ShowNone ==
    ASSUME NEW d \in Nat, Shown(d), file' = file, cmd' = cmd, stream' = stream
    PROVE  Shown(d)'
BY DEF Shown, Follows, Spoilt, Loops

-----------------------------------------------------------------------------
(* The rows of the queue and of the ready frames, as they grow and shrink. *)

LEMMA ReadyGrows ==
    ASSUME ready \in Seq(FrameKind), NEW w, ReadyFrom(w), NEW f \in FrameKind, NEW e \in Nat,
           ready' = Append(ready, f), cmd' = cmd,
           IF f.kind = "picture" THEN Successor(w[Len(ready)], f.picture) /\ e = f.picture
                                 ELSE e = w[Len(ready)]
    PROVE  \E x : ReadyFrom(x)' /\ x[0] = w[0] /\ x[Len(ready')] = e
  <1> PICK n : n = Len(ready)
    OBVIOUS
  <1> DEFINE x == [i \in 0..(n + 1) |-> IF i <= n THEN w[i] ELSE e]
  <1>1. /\ n \in Nat /\ Len(ready') = n + 1 /\ ready'[n + 1] = f
        /\ \A i \in 1..n : ready'[i] = ready[i]
    BY QueueTakes
  <1>2. /\ w \in [0..n -> Nat]
        /\ \A i \in 1..n :
              IF ready[i].kind = "picture" THEN Successor(w[i - 1], ready[i].picture) /\ w[i] = ready[i].picture
                                           ELSE w[i] = w[i - 1]
    BY DEF ReadyFrom
  <1>3. x \in [0..(n + 1) -> Nat] /\ (\A i \in 0..n : x[i] = w[i]) /\ x[n + 1] = e /\ x[0] = w[0]
    BY <1>1, <1>2
  <1>4. \A q, r : Successor(q, r)' <=> Successor(q, r)
    BY DEF Successor, Loops
  <1> HIDE DEF x
  <1>5. ASSUME NEW i \in 1..(n + 1)
        PROVE  IF ready'[i].kind = "picture"
               THEN Successor(x[i - 1], ready'[i].picture) /\ x[i] = ready'[i].picture
               ELSE x[i] = x[i - 1]
    <2>1. i \in 1..n \/ i = n + 1
      BY <1>1
    <2>2. CASE i \in 1..n
      <3>1. i - 1 \in 0..n /\ i \in 0..n
        BY <1>1, <2>2
      <3>2. ready'[i] = ready[i] /\ x[i] = w[i] /\ x[i - 1] = w[i - 1]
        BY <1>1, <1>3, <2>2, <3>1
      <3> QED BY <1>2, <2>2, <3>2
    <2>3. CASE i = n + 1
      <3>1. i - 1 = n /\ n \in 0..n
        BY <1>1, <2>3
      <3>2. ready'[i] = f /\ x[i] = e /\ x[i - 1] = w[n]
        BY <1>1, <1>3, <2>3, <3>1
      <3> QED BY <3>2
    <2> QED BY <2>1, <2>2, <2>3
  <1>6. ReadyFrom(x)'
    BY <1>1, <1>3, <1>4, <1>5 DEF ReadyFrom
  <1>7. x[Len(ready')] = e
    BY <1>1, <1>3
  <1> QED BY <1>3, <1>6, <1>7

LEMMA ReadyShrinks ==
    ASSUME ready \in Seq(FrameKind), ready # <<>>, NEW w, ReadyFrom(w), ready' = Tail(ready), cmd' = cmd
    PROVE  /\ w[0] \in Nat /\ w[1] \in Nat
           /\ IF Head(ready).kind = "picture"
              THEN Successor(w[0], Head(ready).picture) /\ w[1] = Head(ready).picture
              ELSE w[1] = w[0]
           /\ \E x : ReadyFrom(x)' /\ x[0] = w[1] /\ x[Len(ready')] = w[Len(ready)]
  <1> PICK n : n = Len(ready)
    OBVIOUS
  <1> DEFINE x == [i \in 0..(n - 1) |-> w[i + 1]]
  <1>1. /\ n \in Nat /\ n >= 1 /\ Len(ready') = n - 1 /\ Head(ready) = ready[1]
        /\ \A i \in 1..(n - 1) : ready'[i] = ready[i + 1]
    BY QueueGives
  <1>2. /\ w \in [0..n -> Nat]
        /\ \A i \in 1..n :
              IF ready[i].kind = "picture" THEN Successor(w[i - 1], ready[i].picture) /\ w[i] = ready[i].picture
                                           ELSE w[i] = w[i - 1]
    BY DEF ReadyFrom
  <1>3. x \in [0..(n - 1) -> Nat] /\ (\A i \in 0..(n - 1) : x[i] = w[i + 1])
    BY <1>1, <1>2
  <1>4. \A q, r : Successor(q, r)' <=> Successor(q, r)
    BY DEF Successor, Loops
  <1> HIDE DEF x
  <1>5. ASSUME NEW i \in 1..(n - 1)
        PROVE  IF ready'[i].kind = "picture"
               THEN Successor(x[i - 1], ready'[i].picture) /\ x[i] = ready'[i].picture
               ELSE x[i] = x[i - 1]
    <2>1. i - 1 \in 0..(n - 1) /\ i \in 0..(n - 1) /\ i + 1 \in 1..n /\ (i - 1) + 1 = (i + 1) - 1
      BY <1>1
    <2>2. ready'[i] = ready[i + 1] /\ x[i] = w[i + 1] /\ x[i - 1] = w[(i + 1) - 1]
      BY <1>1, <1>3, <2>1
    <2> QED BY <1>2, <2>1, <2>2
  <1>6. ReadyFrom(x)'
    BY <1>1, <1>3, <1>4, <1>5 DEF ReadyFrom
  <1>7. x[Len(ready')] = w[n] /\ x[0] = w[1]
    <2>1. 0 \in 0..(n - 1) /\ n - 1 \in 0..(n - 1) /\ (n - 1) + 1 = n /\ 0 + 1 = 1
      BY <1>1
    <2> QED BY <1>1, <1>3, <2>1
  <1>8. /\ w[0] \in Nat /\ w[1] \in Nat
        /\ IF Head(ready).kind = "picture"
           THEN Successor(w[0], Head(ready).picture) /\ w[1] = Head(ready).picture
           ELSE w[1] = w[0]
    <2>1. 1 \in 1..n /\ 1 - 1 = 0 /\ 0 \in 0..n /\ 1 \in 0..n
      BY <1>1
    <2> QED BY <1>1, <1>2, <2>1
  <1> QED BY <1>6, <1>7, <1>8

LEMMA QueueGrows ==
    ASSUME queue \in Seq(Packet), NEW v, QueueFrom(v), NEW p \in Packet, NEW e \in Nat,
           queue' = Append(queue, p), cmd' = cmd,
           Stretch(v[Len(queue)], p.first, p.first + p.n - 1, e)
    PROVE  \E x : QueueFrom(x)' /\ x[0] = v[0] /\ x[Len(queue')] = e
  <1> PICK n : n = Len(queue)
    OBVIOUS
  <1> DEFINE x == [i \in 0..(n + 1) |-> IF i <= n THEN v[i] ELSE e]
  <1>1. /\ n \in Nat /\ Len(queue') = n + 1 /\ queue'[n + 1] = p
        /\ \A i \in 1..n : queue'[i] = queue[i]
    BY QueueTakes
  <1>2. /\ v \in [0..n -> Nat]
        /\ \A i \in 1..n : Stretch(v[i - 1], queue[i].first, queue[i].first + queue[i].n - 1, v[i])
    BY DEF QueueFrom
  <1>3. x \in [0..(n + 1) -> Nat] /\ (\A i \in 0..n : x[i] = v[i]) /\ x[n + 1] = e /\ x[0] = v[0]
    BY <1>1, <1>2
  <1>4. \A a, b, c, g : Stretch(a, b, c, g)' <=> Stretch(a, b, c, g)
    BY DEF Stretch, Successor, Loops
  <1> HIDE DEF x
  <1>5. ASSUME NEW i \in 1..(n + 1)
        PROVE  Stretch(x[i - 1], queue'[i].first, queue'[i].first + queue'[i].n - 1, x[i])
    <2>1. i \in 1..n \/ i = n + 1
      BY <1>1
    <2>2. CASE i \in 1..n
      <3>1. i - 1 \in 0..n /\ i \in 0..n
        BY <1>1, <2>2
      <3>2. queue'[i] = queue[i] /\ x[i] = v[i] /\ x[i - 1] = v[i - 1]
        BY <1>1, <1>3, <2>2, <3>1
      <3> QED BY <1>2, <2>2, <3>2
    <2>3. CASE i = n + 1
      <3>1. i - 1 = n /\ n \in 0..n
        BY <1>1, <2>3
      <3>2. queue'[i] = p /\ x[i] = e /\ x[i - 1] = v[n]
        BY <1>1, <1>3, <2>3, <3>1
      <3> QED BY <3>2
    <2> QED BY <2>1, <2>2, <2>3
  <1>6. QueueFrom(x)'
    BY <1>1, <1>3, <1>4, <1>5 DEF QueueFrom
  <1>7. x[Len(queue')] = e
    BY <1>1, <1>3
  <1> QED BY <1>3, <1>6, <1>7

LEMMA QueueShrinks ==
    ASSUME queue \in Seq(Packet), queue # <<>>, NEW v, QueueFrom(v), queue' = Tail(queue), cmd' = cmd
    PROVE  /\ Stretch(v[0], Head(queue).first, Head(queue).first + Head(queue).n - 1, v[1])
           /\ \E x : QueueFrom(x)' /\ x[0] = v[1] /\ x[Len(queue')] = v[Len(queue)]
  <1> PICK n : n = Len(queue)
    OBVIOUS
  <1> DEFINE x == [i \in 0..(n - 1) |-> v[i + 1]]
  <1>1. /\ n \in Nat /\ n >= 1 /\ Len(queue') = n - 1 /\ Head(queue) = queue[1]
        /\ \A i \in 1..(n - 1) : queue'[i] = queue[i + 1]
    BY QueueGives
  <1>2. /\ v \in [0..n -> Nat]
        /\ \A i \in 1..n : Stretch(v[i - 1], queue[i].first, queue[i].first + queue[i].n - 1, v[i])
    BY DEF QueueFrom
  <1>3. x \in [0..(n - 1) -> Nat] /\ (\A i \in 0..(n - 1) : x[i] = v[i + 1])
    BY <1>1, <1>2
  <1>4. \A a, b, c, g : Stretch(a, b, c, g)' <=> Stretch(a, b, c, g)
    BY DEF Stretch, Successor, Loops
  <1> HIDE DEF x
  <1>5. ASSUME NEW i \in 1..(n - 1)
        PROVE  Stretch(x[i - 1], queue'[i].first, queue'[i].first + queue'[i].n - 1, x[i])
    <2>1. i - 1 \in 0..(n - 1) /\ i \in 0..(n - 1) /\ i + 1 \in 1..n /\ (i - 1) + 1 = (i + 1) - 1
      BY <1>1
    <2>2. queue'[i] = queue[i + 1] /\ x[i] = v[i + 1] /\ x[i - 1] = v[(i + 1) - 1]
      BY <1>1, <1>3, <2>1
    <2> QED BY <1>2, <2>1, <2>2
  <1>6. QueueFrom(x)'
    BY <1>1, <1>3, <1>4, <1>5 DEF QueueFrom
  <1>7. x[Len(queue')] = v[n] /\ x[0] = v[1]
    <2>1. 0 \in 0..(n - 1) /\ n - 1 \in 0..(n - 1) /\ (n - 1) + 1 = n /\ 0 + 1 = 1
      BY <1>1
    <2> QED BY <1>1, <1>3, <2>1
  <1>8. Stretch(v[0], Head(queue).first, Head(queue).first + Head(queue).n - 1, v[1])
    <2>1. 1 \in 1..n /\ 1 - 1 = 0
      BY <1>1
    <2> QED BY <1>1, <1>2, <2>1
  <1> QED BY <1>6, <1>7, <1>8

-----------------------------------------------------------------------------
(* Every step keeps the pictures in a row. *)

LEMMA RowEnter ==
    ASSUME Fresh', src' = 0, cmd'.o # None => file' = <<>>
    PROVE  RowInv'
  <1> DEFINE w == [i \in 0..0 |-> 0]
  <1>1. /\ pkt' = [first |-> 1, n |-> 0, eos |-> FALSE] /\ pkt_done' = FALSE /\ frame'.kind = "none"
        /\ queue' = <<>> /\ ready' = <<>> /\ decoding'.next = 1 /\ decoding'.last = 0
    BY DEF Fresh, Idle, NoFrame
  <1>2. w \in [0..0 -> Nat] /\ w[0] = 0
    OBVIOUS
  <1> HIDE DEF w
  <1>3. Shown(0)' <=> (/\ file' \in Seq(Nat \ {0})
                       /\ \A i \in 1..Len(file') : file'[i] \notin stream'.bad
                       /\ file' # <<>> => Follows(0, file[1])'
                       /\ \A i \in 1..(Len(file') - 1) :
                             Follows(file[i], file[i + 1])' \/ (Loops' /\ Follows(0, file[i + 1])')
                       /\ \/ file' = <<>> /\ Spoilt(1, 0)'
                          \/ file' # <<>> /\ file'[Len(file')] <= 0 /\ Spoilt(file[Len(file)] + 1, 0)'
                          \/ file' # <<>> /\ Loops' /\ Spoilt(1, 0)'
                       /\ ~Loops' => {file'[i] : i \in 1..Len(file')} = (1..0) \ stream'.bad)
    BY DEF Shown
  <1>4. Spoilt(1, 0)'
    BY DEF Spoilt
  <1>5. cmd'.o # None => Shown(0)'
    <2> SUFFICES ASSUME file' = <<>> PROVE Shown(0)'
      OBVIOUS
    <2>1. Len(file') = 0 /\ file' \in Seq(Nat \ {0})
      OBVIOUS
    <2>2. {file'[i] : i \in 1..Len(file')} = {} /\ 1..0 = {}
      BY <2>1
    <2> QED BY <1>3, <1>4, <2>1, <2>2
  <1>6. ReadyFrom(w)' /\ QueueFrom(w)'
    BY <1>1, <1>2 DEF ReadyFrom, QueueFrom
  <1>7. Stretch(w[Len(ready)], decoding.next, decoding.last, w[0])'
    BY <1>1, <1>2 DEF Stretch
  <1>8. Stretch(w[Len(queue)], pkt.first, pkt.first + pkt.n - 1, 0)'
    BY <1>1, <1>2 DEF Stretch
  <1>9. InARow(0, w, w, 0)'
    BY <1>1, <1>2, <1>5, <1>6, <1>7, <1>8 DEF InARow
  <1> QED BY <1>9 DEF RowInv

(* What does not touch the pictures keeps them.                            *)
LEMMA RowSame ==
    ASSUME NEW d, NEW w, NEW v, NEW u, InARow(d, w, v, u), frame'.kind = "picture" <=> frame.kind = "picture",
           frame.kind = "picture" => frame' = frame,
           UNCHANGED <<cmd, stream, src, file, pkt, pkt_done, queue, decoding, ready>>
    PROVE  InARow(d, w, v, u)'
  <1>1. \A a, b, c, e : Stretch(a, b, c, e)' <=> Stretch(a, b, c, e)
    BY DEF Stretch, Successor, Loops
  <1>2. \A a, b : Successor(a, b)' <=> Successor(a, b)
    BY DEF Successor, Loops
  <1>3. cmd'.o # None => Shown(d)'
    BY ShowNone DEF InARow
  <1>4. ReadyFrom(w)' /\ QueueFrom(v)'
    BY <1>1, <1>2 DEF InARow, ReadyFrom, QueueFrom
  <1>5. Loops' = Loops
    BY DEF Loops
  <1> QED BY <1>1, <1>2, <1>3, <1>4, <1>5 DEF InARow

LEMMA RowRead ==
    ASSUME DataTypes, HandInv, read_packet, UNCHANGED optVars,
           NEW d, NEW w, NEW v, NEW u, InARow(d, w, v, u)
    PROVE  \E x : InARow(d, w, v, x)'
  <1> DEFINE size == packet_size
             left == stream.size - src
             got  == IF left < size THEN left ELSE size
             last == size = 0 \/ got < size
  <1>1. size \in Nat /\ stream.size \in Nat /\ src \in 0..stream.size /\ pkt \in Packet
    BY PacketSizeIs DEF DataTypes
  <1> HIDE DEF size
  <1>2. /\ IF last /\ Loops THEN src' = 0 ELSE src' = src + got
        /\ pkt'.first = src + 1 /\ pkt'.n = got /\ pkt_done' = FALSE
    BY DEF read_packet, Rewind, size
  <1>3. got \in Nat
    BY <1>1
  <1>4. UNCHANGED <<cmd, stream, file, frame, queue, decoding, ready>>
    BY DEF read_packet, shared, decoderVars, optVars
  <1> HIDE DEF got, last
  <1>5. Loops' = Loops
    BY <1>4 DEF Loops
  <1>6. \A a, b, c, e : Stretch(a, b, c, e)' <=> Stretch(a, b, c, e)
    BY <1>5 DEF Stretch, Successor
  <1>7. \A a, b : Successor(a, b)' <=> Successor(a, b)
    BY <1>5 DEF Successor
  <1>8. cmd'.o # None => Shown(d)'
    BY <1>4, ShowNone DEF InARow
  <1>9. ReadyFrom(w)' /\ QueueFrom(v)'
    BY <1>4, <1>6, <1>7 DEF InARow, ReadyFrom, QueueFrom
  <1>10. u = v[Len(queue)] /\ u \in Nat /\ (src = u \/ (Loops /\ src = 0))
    <2>1. pkt_done \/ pkt.n = 0
      BY DEF HandInv, read_packet
    <2>2. pkt.n = 0 => ~(pkt.first <= pkt.first + pkt.n - 1)
      BY <1>1 DEF Packet
    <2> QED BY <2>1, <2>2 DEF InARow, Stretch
  <1>0. PICK x \in Nat : x = IF got = 0 THEN u ELSE src + got
    <2>1. u \in Nat /\ src + got \in Nat
      BY <1>1, <1>3, <1>10
    <2> QED BY <2>1
  <1>11. src' = x \/ (Loops /\ src' = 0)
    BY <1>0, <1>1, <1>2, <1>3, <1>10
  <1>12. Stretch(v[Len(queue)], src + 1, src + 1 + got - 1, x)
    <2>1. CASE got = 0
      <3>1. ~(src + 1 <= src + 1 + got - 1)
        BY <1>1, <2>1
      <3> QED BY <1>0, <1>10, <2>1, <3>1 DEF Stretch
    <2>2. CASE got # 0
      <3>1. src + 1 <= src + 1 + got - 1 /\ x = src + 1 + got - 1
        BY <1>0, <1>1, <1>3, <2>2
      <3>2. Successor(u, src + 1)
        BY <1>1, <1>10 DEF Successor
      <3> QED BY <1>10, <3>1, <3>2 DEF Stretch
    <2> QED BY <2>1, <2>2
  <1>13. Stretch(v[Len(queue)], pkt.first, pkt.first + pkt.n - 1, x)'
    BY <1>2, <1>4, <1>6, <1>12
  <1>14. InARow(d, w, v, x)'
    BY <1>2, <1>4, <1>5, <1>6, <1>7, <1>8, <1>9, <1>11, <1>13 DEF InARow
  <1> QED BY <1>14

LEMMA RowPut ==
    ASSUME DataTypes, HandInv, decode_put_packet, UNCHANGED optVars,
           NEW d, NEW w, NEW v, NEW u, InARow(d, w, v, u)
    PROVE  \E x : InARow(d, w, x, u)'
  <1>1. UNCHANGED <<cmd, stream, src, file, frame, pkt, decoding, ready>>
    BY DEF decode_put_packet, shared, sourceVars, optVars
  <1>2. CASE queue' = queue /\ pkt_done' = pkt_done
    BY <1>1, <1>2, RowSame
  <1>3. CASE queue' = Append(queue, pkt) /\ pkt_done' = TRUE
    <2>1. ~pkt_done
      BY DEF HandInv, decode_put_packet
    <2>2. Stretch(v[Len(queue)], pkt.first, pkt.first + pkt.n - 1, u) /\ u \in Nat
      BY <2>1 DEF InARow
    <2>3. queue \in Seq(Packet) /\ pkt \in Packet /\ QueueFrom(v)
      BY DEF DataTypes, InARow
    <2>4. PICK x : QueueFrom(x)' /\ x[0] = v[0] /\ x[Len(queue')] = u
      BY <1>1, <1>3, <2>2, <2>3, QueueGrows
    <2>5. Loops' = Loops
      BY <1>1 DEF Loops
    <2>6. \A a, b, c, e : Stretch(a, b, c, e)' <=> Stretch(a, b, c, e)
      BY <2>5 DEF Stretch, Successor
    <2>7. \A a, b : Successor(a, b)' <=> Successor(a, b)
      BY <2>5 DEF Successor
    <2>8. cmd'.o # None => Shown(d)'
      BY <1>1, ShowNone DEF InARow
    <2>9. ReadyFrom(w)'
      BY <1>1, <2>7 DEF InARow, ReadyFrom
    <2>10. InARow(d, w, x, u)'
      BY <1>1, <1>3, <2>4, <2>5, <2>6, <2>7, <2>8, <2>9 DEF InARow
    <2> QED BY <2>10
  <1> QED BY <1>2, <1>3 DEF decode_put_packet

LEMMA RowGet ==
    ASSUME DataTypes, HandInv, decode_get_frame, UNCHANGED optVars,
           NEW d, NEW w, NEW v, NEW u, InARow(d, w, v, u)
    PROVE  \E x : InARow(d, x, v, u)'
  <1>1. UNCHANGED <<cmd, stream, src, file, pkt, pkt_done, decoding, queue>>
    BY DEF decode_get_frame, sourceVars, optVars
  <1>2. frame.kind # "picture" /\ w[0] = d
    <2>1. frame.kind \in {"none", "info"}
      BY DEF HandInv, SimplePcs, decode_get_frame
    <2>2. frame.kind # "picture"
      BY <2>1
    <2> QED BY <2>2 DEF InARow
  <1>3. CASE a_frame
    <2>1. ready # <<>> /\ frame' = Head(ready) /\ ready' = Tail(ready)
      BY <1>3 DEF a_frame
    <2>2. ready \in Seq(FrameKind) /\ ReadyFrom(w)
      BY DEF DataTypes, InARow
    <2>3. /\ w[0] \in Nat /\ w[1] \in Nat
          /\ IF frame'.kind = "picture"
             THEN Successor(w[0], frame'.picture) /\ w[1] = frame'.picture
             ELSE w[1] = w[0]
          /\ \E x : ReadyFrom(x)' /\ x[0] = w[1] /\ x[Len(ready')] = w[Len(ready)]
      BY <1>1, <2>1, <2>2, ReadyShrinks
    <2>4. PICK x : ReadyFrom(x)' /\ x[0] = w[1] /\ x[Len(ready')] = w[Len(ready)]
      BY <2>3
    <2>5. Loops' = Loops
      BY <1>1 DEF Loops
    <2>6. \A a, b, c, e : Stretch(a, b, c, e)' <=> Stretch(a, b, c, e)
      BY <2>5 DEF Stretch, Successor
    <2>7. \A a, b : Successor(a, b)' <=> Successor(a, b)
      BY <2>5 DEF Successor
    <2>8. cmd'.o # None => Shown(d)'
      BY <1>1, ShowNone DEF InARow
    <2>9. QueueFrom(v)'
      BY <1>1, <2>6 DEF InARow, QueueFrom
    <2>10. IF frame'.kind = "picture" THEN Successor(d, frame'.picture) /\ x[0] = frame'.picture ELSE x[0] = d
      BY <1>2, <2>3, <2>4
    <2>11. InARow(d, x, v, u)'
      BY <1>1, <2>4, <2>5, <2>6, <2>7, <2>8, <2>9, <2>10 DEF InARow
    <2> QED BY <2>11
  <1>4. CASE no_frame \/ timed_out \/ no_more
    <2>1. ready' = ready /\ frame'.kind # "picture"
      BY <1>2, <1>4 DEF no_frame, timed_out, no_more, NoFrame
    <2>2. InARow(d, w, v, u)'
      BY <1>1, <1>2, <2>1, RowSame
    <2> QED BY <2>2
  <1> QED BY <1>3, <1>4 DEF decode_get_frame

LEMMA RowUse ==
    ASSUME DataTypes, use_frame, UNCHANGED optVars,
           NEW d, NEW w, NEW v, NEW u, InARow(d, w, v, u)
    PROVE  \E x : InARow(x, w, v, u)'
  <1>1. UNCHANGED <<cmd, stream, src, pkt, pkt_done, decoding, queue, ready>>
    BY DEF use_frame, sourceVars, decoderVars, optVars
  <1>2. frame'.kind = "none"
    BY DEF use_frame, NoFrame
  <1>3. d \in Nat /\ frame.picture \in Nat
    BY DEF InARow, DataTypes, FrameKind
  <1>0. PICK q \in Nat : q = frame.picture
    BY <1>3
  <1> DEFINE taken == frame.kind = "picture"
  <1>12. PICK x \in Nat : x = IF taken THEN q ELSE d
    BY <1>3
  <1>4. frame.kind = "picture" => Successor(d, q) /\ q \in Nat \ {0}
    <2>1. frame.kind = "picture" => Successor(d, q)
      BY <1>0 DEF InARow
    <2>2. Successor(d, q) => q # 0
      BY <1>3 DEF Successor
    <2> QED BY <1>3, <2>1, <2>2
  <1>5. x \in Nat /\ w[0] = x
    BY <1>0, <1>12 DEF InARow
  <1>6. cmd'.o # None => Shown(x)'
    <2> SUFFICES ASSUME cmd.o # None PROVE Shown(x)'
      BY <1>1
    <2>1. Shown(d)
      BY DEF InARow
    <2>2. file' = file \o (IF frame.kind = "picture" /\ q \notin stream.bad THEN <<q>> ELSE <<>>)
      BY <1>0 DEF use_frame
    <2>3. file \in Seq(Nat \ {0})
      BY <2>1 DEF Shown
    <2>4. CASE frame.kind = "picture" /\ q \notin stream.bad
      <3>1. file' = file \o <<q>> /\ q \in Nat \ {0}
        BY <1>4, <2>2, <2>4
      <3>2. file' = Append(file, q)
        BY <2>3, <3>1, AppendIsConcat
      <3>3. Shown(q)'
        BY <1>1, <1>3, <1>4, <2>1, <2>4, <3>2, ShowGood
      <3> QED BY <1>12, <2>4, <3>3
    <2>5. CASE ~(frame.kind = "picture" /\ q \notin stream.bad)
      <3>1. file' = file
        BY <2>2, <2>3, <2>5, ConcatEmptySeq
      <3>2. CASE frame.kind = "picture" /\ q \in stream.bad
        <4>1. Shown(q)'
          BY <1>1, <1>3, <1>4, <2>1, <3>1, <3>2, ShowBad
        <4> QED BY <1>12, <3>2, <4>1
      <3>3. CASE frame.kind # "picture"
        <4>1. Shown(d)'
          BY <1>1, <1>3, <2>1, <3>1, ShowNone
        <4> QED BY <1>12, <3>3, <4>1
      <3> QED BY <2>5, <3>2, <3>3
    <2> QED BY <2>4, <2>5
  <1>7. Loops' = Loops
    BY <1>1 DEF Loops
  <1>8. \A a, b, c, e : Stretch(a, b, c, e)' <=> Stretch(a, b, c, e)
    BY <1>7 DEF Stretch, Successor
  <1>9. \A a, b : Successor(a, b)' <=> Successor(a, b)
    BY <1>7 DEF Successor
  <1>10. ReadyFrom(w)' /\ QueueFrom(v)'
    BY <1>1, <1>8, <1>9 DEF InARow, ReadyFrom, QueueFrom
  <1>11. InARow(x, w, v, u)'
    BY <1>1, <1>2, <1>5, <1>6, <1>7, <1>8, <1>10 DEF InARow
  <1> QED BY <1>11

LEMMA RowOther ==
    ASSUME info_change \/ end_turn, UNCHANGED optVars,
           NEW d, NEW w, NEW v, NEW u, InARow(d, w, v, u)
    PROVE  InARow(d, w, v, u)'
  <1>1. UNCHANGED <<cmd, stream, src, file, frame, pkt, pkt_done, decoding, queue, ready>>
    BY DEF info_change, end_turn, shared, sourceVars, callVars, decoderVars, optVars
  <1> QED BY <1>1, RowSame

(* The decoder's steps. *)
LEMMA RowTake ==
    ASSUME DataTypes, take_packet, UNCHANGED <<cmd, stream, src, file, pkt, pkt_done, frame>>,
           NEW d, NEW w, NEW v, NEW u, InARow(d, w, v, u)
    PROVE  \E x : InARow(d, w, x, u)'
  <1>1. /\ queue # <<>> /\ queue' = Tail(queue) /\ ready' = ready /\ ~(decoding.next <= decoding.last)
        /\ decoding' = [next |-> Head(queue).first, last |-> Head(queue).first + Head(queue).n - 1,
                        eos |-> Head(queue).eos]
    BY DEF take_packet, MoreToDo
  <1>2. queue \in Seq(Packet) /\ QueueFrom(v)
    BY DEF DataTypes, InARow
  <1>3. /\ Stretch(v[0], Head(queue).first, Head(queue).first + Head(queue).n - 1, v[1])
        /\ \E x : QueueFrom(x)' /\ x[0] = v[1] /\ x[Len(queue')] = v[Len(queue)]
    BY <1>1, <1>2, QueueShrinks
  <1>4. PICK x : QueueFrom(x)' /\ x[0] = v[1] /\ x[Len(queue')] = v[Len(queue)]
    BY <1>3
  <1>5. v[0] = w[Len(ready)]
    BY <1>1 DEF InARow, Stretch
  <1>6. Loops' = Loops
    BY DEF Loops
  <1>7. \A a, b, c, e : Stretch(a, b, c, e)' <=> Stretch(a, b, c, e)
    BY <1>6 DEF Stretch, Successor
  <1>8. \A a, b : Successor(a, b)' <=> Successor(a, b)
    BY <1>6 DEF Successor
  <1>9. cmd'.o # None => Shown(d)'
    BY ShowNone DEF InARow
  <1>10. ReadyFrom(w)'
    BY <1>1, <1>8 DEF InARow, ReadyFrom
  <1>11. Stretch(w[Len(ready)], decoding.next, decoding.last, x[0])'
    <2>1. Stretch(w[Len(ready)], Head(queue).first, Head(queue).first + Head(queue).n - 1, x[0])
      BY <1>3, <1>4, <1>5
    <2>2. decoding'.next = Head(queue).first /\ decoding'.last = Head(queue).first + Head(queue).n - 1
      BY <1>1
    <2> QED BY <1>1, <1>7, <2>1, <2>2
  <1>12. IF pkt_done' THEN u = x[Len(queue')]
                      ELSE Stretch(x[Len(queue)], pkt.first, pkt.first + pkt.n - 1, u)'
    BY <1>4, <1>7 DEF InARow
  <1>13. InARow(d, w, x, u)'
    BY <1>1, <1>4, <1>6, <1>8, <1>9, <1>10, <1>11, <1>12 DEF InARow
  <1> QED BY <1>13

(* A frame is made of the next picture, or without one.                    *)
LEMMA RowMakes ==
    ASSUME DataTypes, UNCHANGED <<cmd, stream, src, file, pkt, pkt_done, frame, queue>>,
           NEW d, NEW w, NEW v, NEW u, InARow(d, w, v, u),
           NEW f \in FrameKind, NEW e \in Nat, ready' = Append(ready, f),
           IF f.kind = "picture" THEN Successor(w[Len(ready)], f.picture) /\ e = f.picture
                                 ELSE e = w[Len(ready)],
           Stretch(e, decoding'.next, decoding'.last, v[0])
    PROVE  \E x : InARow(d, x, v, u)'
  <1>1. ready \in Seq(FrameKind) /\ ReadyFrom(w)
    BY DEF DataTypes, InARow
  <1>2. PICK x : ReadyFrom(x)' /\ x[0] = w[0] /\ x[Len(ready')] = e
    BY <1>1, ReadyGrows
  <1>3. Loops' = Loops
    BY DEF Loops
  <1>4. \A a, b, c, g : Stretch(a, b, c, g)' <=> Stretch(a, b, c, g)
    BY <1>3 DEF Stretch, Successor
  <1>5. \A a, b : Successor(a, b)' <=> Successor(a, b)
    BY <1>3 DEF Successor
  <1>6. cmd'.o # None => Shown(d)'
    BY ShowNone DEF InARow
  <1>7. QueueFrom(v)'
    BY <1>4 DEF InARow, QueueFrom
  <1>8. Stretch(x[Len(ready)], decoding.next, decoding.last, v[0])'
    BY <1>2, <1>4
  <1>9. IF pkt_done' THEN u = v[Len(queue')]
                     ELSE Stretch(v[Len(queue)], pkt.first, pkt.first + pkt.n - 1, u)'
    BY <1>4 DEF InARow
  <1>10. IF frame'.kind = "picture" THEN Successor(d, frame'.picture) /\ x[0] = frame'.picture ELSE x[0] = d
    BY <1>2 DEF InARow
  <1>11. InARow(d, x, v, u)'
    BY <1>2, <1>3, <1>5, <1>6, <1>7, <1>8, <1>9, <1>10 DEF InARow
  <1> QED BY <1>11

LEMMA RowDecoder ==
    ASSUME DataTypes, SimpleDecoder, UNCHANGED optVars,
           NEW d, NEW w, NEW v, NEW u, InARow(d, w, v, u)
    PROVE  \E x, y : InARow(d, x, y, u)'
  <1>1. UNCHANGED <<cmd, stream, src, file, pkt, pkt_done, frame>>
    BY DEF SimpleDecoder, shared, sourceVars, callVars, optVars
  <1>2. CASE take_packet
    BY <1>1, <1>2, RowTake
  <1> DEFINE at == w[Len(ready)]
  <1>3. at \in Nat /\ Stretch(at, decoding.next, decoding.last, v[0])
    <2>1. ready \in Seq(FrameKind) /\ w \in [0..Len(ready) -> Nat]
      BY DEF DataTypes, InARow, ReadyFrom
    <2>2. Len(ready) \in 0..Len(ready)
      BY <2>1
    <2> QED BY <2>1, <2>2 DEF InARow
  <1>4. decoding \in Work /\ decoding.next \in Nat /\ decoding.last \in Nat
    BY DEF DataTypes, Work
  <1>5. CASE ask_for_buffers
    <2>1. /\ ready' = Append(ready, Frame("info", 0, FALSE)) /\ queue' = queue /\ decoding' = decoding
      BY <1>5 DEF ask_for_buffers
    <2>2. Frame("info", 0, FALSE) \in FrameKind /\ Frame("info", 0, FALSE).kind # "picture"
      BY DEF Frame, FrameKind
    <2>3. PICK e \in Nat : e = at
      BY <1>3
    <2> DEFINE f == Frame("info", 0, FALSE)
    <2> HIDE DEF f
    <2>4. Stretch(e, decoding'.next, decoding'.last, v[0])
      BY <1>3, <2>1, <2>3
    <2>5. \E x : InARow(d, x, v, u)'
      BY <1>1, <2>1, <2>2, <2>3, <2>4, RowMakes DEF f
    <2> QED BY <2>5
  <1>6. CASE decode_picture
    <2>1. PICK marked \in BOOLEAN :
             /\ ready' = Append(ready, Frame("picture", decoding.next, marked))
             /\ decoding' = [decoding EXCEPT !.next = @ + 1, !.eos = @ /\ ~marked]
      BY <1>6 DEF decode_picture
    <2>2. queue' = queue /\ decoding.next <= decoding.last
      BY <1>6 DEF decode_picture
    <2>3. PICK e \in Nat : e = decoding.next
      BY <1>4
    <2>4. PICK f \in FrameKind : f = Frame("picture", decoding.next, marked)
      BY <1>4 DEF Frame, FrameKind
    <2>5. f.kind = "picture" /\ f.picture = e
      BY <2>3, <2>4 DEF Frame
    <2>6. Successor(at, e) /\ v[0] = decoding.last
      BY <1>3, <2>2, <2>3 DEF Stretch
    <2>7. decoding'.next = decoding.next + 1 /\ decoding'.last = decoding.last
      BY <1>4, <2>1 DEF Work
    <2>8. Stretch(e, decoding'.next, decoding'.last, v[0])
      <3>1. CASE decoding'.next <= decoding'.last
        <4>1. Successor(e, decoding'.next)
          BY <2>3, <2>7 DEF Successor
        <4> QED BY <2>6, <2>7, <3>1, <4>1 DEF Stretch
      <3>2. CASE ~(decoding'.next <= decoding'.last)
        <4>1. decoding.last = decoding.next
          BY <1>4, <2>2, <2>7, <3>2
        <4> QED BY <2>3, <2>6, <3>2, <4>1 DEF Stretch
      <3> QED BY <3>1, <3>2
    <2>9. ready' = Append(ready, f)
      BY <2>1, <2>4
    <2>10. \E x : InARow(d, x, v, u)'
      BY <1>1, <2>2, <2>5, <2>6, <2>8, <2>9, RowMakes
    <2> QED BY <2>10
  <1>7. CASE decode_end
    <2>1. /\ ready' = Append(ready, Frame("empty", 0, TRUE)) /\ queue' = queue /\ decoding' = Idle
          /\ decoding.next > decoding.last
      BY <1>7 DEF decode_end
    <2>2. PICK f \in FrameKind : f = Frame("empty", 0, TRUE)
      BY DEF Frame, FrameKind
    <2>3. f.kind # "picture"
      BY <2>2 DEF Frame
    <2>4. PICK e \in Nat : e = at
      BY <1>3
    <2>5. v[0] = at
      BY <1>3, <1>4, <2>1 DEF Stretch
    <2>6. Stretch(e, decoding'.next, decoding'.last, v[0])
      BY <2>1, <2>4, <2>5 DEF Stretch, Idle
    <2>7. ready' = Append(ready, f)
      BY <2>1, <2>2
    <2>8. \E x : InARow(d, x, v, u)'
      BY <1>1, <2>1, <2>3, <2>4, <2>6, <2>7, RowMakes
    <2> QED BY <2>8
  <1> QED BY <1>2, <1>5, <1>6, <1>7 DEF SimpleDecoder

LEMMA RowNext ==
    ASSUME HoldInv, DataTypes, FreshInv, FreshInv', EmptyInv, FlowInv, RowInv, [Next]_vars
    PROVE  RowInv'
  <1>1. CASE ParseStep /\ UNCHANGED <<may, shared, eos, simpleVars, advancedVars>>
    <2>1. pc' \in Early
      BY <1>1 DEF ParseStep, skip_word, end_of_options, take_option, stop_parsing, all_parsed, Early
    <2> QED BY <2>1 DEF RowInv, SimplePcs, Early
  <1>2. CASE mpp_jpg2yuv \/ query \/ release
    <2>1. pc' \in {"setup", "done", "release"}
      BY <1>2 DEF mpp_jpg2yuv, query, release, Out, Released
    <2> QED BY <2>1 DEF RowInv, SimplePcs
  <1>3. CASE open_input \/ open_output \/ get_buffers
    <2> SUFFICES ASSUME pc' \in SimplePcs \cup {"query"} PROVE RowInv'
      BY DEF RowInv
    <2>1. /\ pc = "setup" /\ pc' \in {"setup", "release", "packet", "read"} /\ UNCHANGED flowVars
          /\ src' = src /\ cmd' = cmd
      BY <1>3 DEF open_input, open_output, get_buffers, Acquires, Out, still, simpleVars, sourceVars,
         callVars, decoderVars, flowVars, optVars
    <2>2. pc' = "packet"
      BY <2>1 DEF SimplePcs
    <2>3. Fresh' /\ src' = 0
      BY <2>1, FreshKept DEF FreshInv
    <2>4. cmd'.o # None => file' = <<>>
      BY <1>3, <2>1, <2>2, EmptySetup
    <2> QED BY <2>3, <2>4, RowEnter
  <1>4. CASE read \/ put_poll \/ put_dequeue \/ put_enqueue \/ get_poll \/ get_dequeue \/ write
    <2>1. pc \in AdvancedPcs /\ cmd' = cmd
      BY <1>4 DEF read, put_poll, put_dequeue, put_enqueue, get_poll, get_dequeue, write, Goes, Rest, Io,
             AdvancedPcs, optVars
    <2>2. ~Simple'
      BY <2>1, CmdKept DEF HoldInv
    <2> QED BY <2>2 DEF RowInv
  <1>5. CASE SimpleStep /\ UNCHANGED <<optVars, may, advancedVars>>
    <2>1. Simple /\ pc \in SimplePcs
      BY <1>5 DEF SimpleStep, read_packet, decode_put_packet, decode_get_frame, info_change, use_frame,
         end_turn, HoldInv, SimplePcs
    <2>2. PICK d, w, v, u : InARow(d, w, v, u)
      BY <2>1 DEF RowInv
    <2>3. \E d1, w1, v1, u1 : InARow(d1, w1, v1, u1)'
      BY <1>5, <2>2, RowRead, RowPut, RowGet, RowUse, RowOther DEF SimpleStep, FlowInv
    <2> QED BY <2>3 DEF RowInv
  <1>6. CASE SimpleDecoder /\ UNCHANGED <<optVars, may, advancedVars>>
    <2> SUFFICES ASSUME Simple', pc' \in SimplePcs \cup {"query"}
                 PROVE  \E d1, w1, v1, u1 : InARow(d1, w1, v1, u1)'
      BY DEF RowInv
    <2>1. pc' = pc /\ cmd' = cmd
      BY <1>6 DEF SimpleDecoder, optVars
    <2>2. Simple
      BY <2>1, CmdKept
    <2>3. PICK d, w, v, u : InARow(d, w, v, u)
      BY <2>1, <2>2 DEF RowInv
    <2> QED BY <1>6, <2>3, RowDecoder
  <1>7. CASE take \/ decode \/ UNCHANGED vars
    <2> SUFFICES ASSUME Simple', pc' \in SimplePcs \cup {"query"}
                 PROVE  \E d1, w1, v1, u1 : InARow(d1, w1, v1, u1)'
      BY DEF RowInv
    <2>1. UNCHANGED <<pc, cmd, stream, src, file, frame, pkt, pkt_done, queue, decoding, ready>>
      BY <1>7 DEF take, decode, vars, Io, Rest, shared, simpleVars, sourceVars, callVars, decoderVars, optVars
    <2>2. Simple
      BY <2>1, CmdKept
    <2>3. PICK d, w, v, u : InARow(d, w, v, u)
      BY <2>1, <2>2 DEF RowInv
    <2>4. InARow(d, w, v, u)'
      BY <2>1, <2>3, RowSame
    <2> QED BY <2>4
  <1> QED BY <1>1, <1>2, <1>3, <1>4, <1>5, <1>6, <1>7 DEF Next, Thread, Decoder

-----------------------------------------------------------------------------
(* The output takes pictures only. *)

LEMMA FileSetup ==
    ASSUME HoldInv, EmptyInv, FileInv, open_input \/ open_output \/ get_buffers
    PROVE  FileInv'
  <1> SUFFICES ASSUME cmd'.o # None, may' \cap Files = {}, Opened' PROVE file' \in Seq(Nat \ {0})
    BY DEF FileInv
  <1>1. pc = "setup" /\ cmd' = cmd /\ may' = may /\ step \in 1..Len(Setup)
    BY DEF open_input, open_output, get_buffers, still, optVars, HoldInv
  <1>2. \/ \E gain : Acquires(gain)
        \/ Out /\ file' = file /\ (Fails(Setup[step]) \/ Setup[step] \notin Files)
    BY DEF open_input, open_output, get_buffers
  <1>3. CASE \E gain : Acquires(gain)
    <2>1. pc' \in {"setup", "packet", "read"} /\ (pc' = "setup" => step' > 2)
      <3>1. pc' \in {"setup", "packet", "read"}
        BY <1>1, <1>3 DEF Acquires
      <3> QED BY <3>1 DEF Opened, LoopPcs, AdvancedPcs, SimplePcs
    <2>2. file' = <<>>
      BY <1>1, <2>1, EmptySetup
    <2> QED BY <2>2
  <1>4. CASE Out /\ file' = file /\ (Fails(Setup[step]) \/ Setup[step] \notin Files)
    <2>1. Setup[1] = "fp_input" /\ Setup[2] = "fp_output"
      BY <1>1, SetupFacts
    <2>2. Setup[step] \notin Files
      BY <1>1, <1>4 DEF Fails
    <2>3. step # 1 /\ step # 2
      BY <2>1, <2>2 DEF Files
    <2>4. Len(Setup) \in Nat
      BY SetupFacts
    <2>5. step > 2
      BY <1>1, <2>3, <2>4
    <2>6. file' = <<>>
      BY <1>1, <1>4, <2>5 DEF EmptyInv
    <2> QED BY <2>6
  <1> QED BY <1>2, <1>3, <1>4

LEMMA FileNext ==
    ASSUME HoldInv, EmptyInv, FileInv, RowInv', [Next]_vars
    PROVE  FileInv'
  <1>1. CASE open_input \/ open_output \/ get_buffers
    BY <1>1, FileSetup
  <1>2. CASE ParseStep /\ UNCHANGED <<may, shared, eos, simpleVars, advancedVars>>
    <2>1. pc' \in Early
      BY <1>2 DEF ParseStep, skip_word, end_of_options, take_option, stop_parsing, all_parsed, Early
    <2> QED BY <2>1 DEF FileInv, Opened, Early, LoopPcs, AdvancedPcs, SimplePcs
  <1>3. CASE mpp_jpg2yuv
    <2>1. pc = "parsed" /\ step' = step /\ err' = err
          /\ (pc' = "setup" \/ (pc' = "done" /\ err # "MPP_OK"))
      BY <1>3 DEF mpp_jpg2yuv, advancedVars, optVars
    <2>2. step' = 1
      BY <2>1 DEF HoldInv, Early
    <2> QED BY <2>1, <2>2 DEF FileInv, Opened, LoopPcs, AdvancedPcs, SimplePcs
  <1>4. CASE read \/ put_poll \/ put_dequeue \/ put_enqueue \/ get_poll \/ get_dequeue \/ write
    <2> SUFFICES ASSUME cmd'.o # None, may' \cap Files = {} PROVE file' \in Seq(Nat \ {0})
      BY DEF FileInv
    <2>1. pc \in AdvancedPcs /\ cmd' = cmd /\ may' = may
      BY <1>4 DEF read, put_poll, put_dequeue, put_enqueue, get_poll, get_dequeue, write, Goes, Rest, Io,
             AdvancedPcs, optVars
    <2>2. file \in Seq(Nat \ {0})
      BY <2>1 DEF FileInv, Opened, LoopPcs
    <2>3. file' = file \/ file' = file \o Dumped
      BY <1>4 DEF read, put_poll, put_dequeue, put_enqueue, get_poll, get_dequeue, write, Rest, Io, shared
    <2>4. Dumped \in Seq(Nat \ {0})
      <3>1. <<>> \in Seq(Nat \ {0}) /\ <<1>> \in Seq(Nat \ {0})
        OBVIOUS
      <3> QED BY <3>1 DEF Dumped, Picture
    <2> QED BY <2>2, <2>3, <2>4, ConcatProperties
  <1>5. CASE query \/ release
    <2> SUFFICES ASSUME cmd'.o # None, may' \cap Files = {} PROVE file' \in Seq(Nat \ {0})
      BY DEF FileInv
    <2>1. pc \in {"query", "release"} /\ cmd' = cmd /\ may' = may /\ file' = file
      BY <1>5 DEF query, release, optVars
    <2>2. pc \in LoopPcs \cup {"release"}
      BY <2>1 DEF LoopPcs
    <2> QED BY <2>1, <2>2 DEF FileInv, Opened
  <1>6. CASE SimpleStep /\ UNCHANGED <<optVars, may, advancedVars>>
    <2> SUFFICES ASSUME cmd'.o # None PROVE file' \in Seq(Nat \ {0})
      BY DEF FileInv
    <2>1. pc' \in SimplePcs \cup {"query"}
      BY <1>6, AfterFrameGoes DEF SimpleStep, read_packet, decode_put_packet, decode_get_frame,
         a_frame, no_frame, timed_out, no_more, info_change, use_frame, end_turn, SimplePcs
    <2>2. Simple /\ cmd' = cmd
      BY <1>6 DEF SimpleStep, read_packet, decode_put_packet, decode_get_frame, info_change, use_frame,
         end_turn, HoldInv, SimplePcs, optVars
    <2>3. Simple'
      BY <2>2, CmdKept
    <2>4. \E d, w, v, u : InARow(d, w, v, u)'
      BY <2>1, <2>3 DEF RowInv
    <2>5. \E d : Shown(d)'
      BY <2>4 DEF InARow
    <2> QED BY <2>5 DEF Shown
  <1>7. CASE Decoder \/ UNCHANGED vars
    <2>1. pc' = pc /\ cmd' = cmd /\ step' = step /\ file' = file /\ may' = may /\ err' = err
      BY <1>7 DEF Decoder, take, decode, SimpleDecoder, vars, Io, Rest, shared, optVars, advancedVars
    <2> QED BY <2>1 DEF FileInv, Opened
  <1> QED BY <1>1, <1>2, <1>3, <1>4, <1>5, <1>6, <1>7 DEF Next, Thread

-----------------------------------------------------------------------------
(* The inductive invariant of the decoding. *)

DecodeInv == HoldInv /\ DataTypes /\ FreshInv /\ EmptyInv /\ FlowInv /\ RowInv /\ FileInv

LEMMA DecodeInit == Init => DecodeInv
  <1> SUFFICES ASSUME Init PROVE DecodeInv
    OBVIOUS
  <1>1. HoldInv /\ DataTypes /\ FreshInv
    BY HoldInit, TypesInit, FreshInit
  <1>2. pc = "options"
    BY DEF Init, OptionsInit
  <1>3. EmptyInv /\ RowInv /\ FileInv
    BY <1>2 DEF EmptyInv, RowInv, FileInv, Opened, LoopPcs, AdvancedPcs, SimplePcs
  <1>4. /\ pkt.eos = FALSE /\ pkt_done = FALSE /\ frame.kind = "none" /\ frame.eos = FALSE /\ frame_count = 0
        /\ queue = <<>> /\ ready = <<>> /\ decoding.eos = FALSE
    BY DEF Init, SimpleInit, Idle, NoFrame
  <1>5. LastInv
    BY <1>4 DEF LastInv
  <1>6. TurnInv /\ HandInv
    BY <1>2 DEF TurnInv, HandInv, SimplePcs
  <1>7. LimitInv
    <2>1. cmd.n \in Int
      BY <1>1 DEF DataTypes, CmdType
    <2> QED BY <1>2, <1>4, <2>1 DEF LimitInv, SimplePcs
  <1> QED BY <1>1, <1>3, <1>5, <1>6, <1>7 DEF DecodeInv, FlowInv

LEMMA DecodeNext == DecodeInv /\ [Next]_vars => DecodeInv'
  <1> SUFFICES ASSUME DecodeInv, [Next]_vars PROVE DecodeInv'
    OBVIOUS
  <1>1. HoldInv' /\ DataTypes' /\ FreshInv'
    BY HoldNext, TypesNext, FreshNext DEF DecodeInv
  <1>2. EmptyInv' /\ FlowInv' /\ RowInv'
    BY <1>1, EmptyNext, FlowNext, RowNext DEF DecodeInv
  <1>3. FileInv'
    BY <1>2, FileNext DEF DecodeInv
  <1> QED BY <1>1, <1>2, <1>3 DEF DecodeInv

(* core.cpp reads the first picture of the output without a look at the    *)
(* result of the decoding: it is one of this stream, or the file is empty. *)
THEOREM OldIsNeverRead == Spec => []NeverOld
  <1>1. DecodeInv => NeverOld
    <2> SUFFICES ASSUME DecodeInv, pc = "done", err = "MPP_OK", cmd.o # None, may \cap Files = {}
                 PROVE  file = <<>> \/ file[1] # Old
      BY DEF NeverOld
    <2>1. file \in Seq(Nat \ {0})
      BY DEF DecodeInv, FileInv, Opened
    <2>2. file # <<>> => 1 \in 1..Len(file)
      BY <2>1, EmptySeq
    <2>3. file # <<>> => file[1] \in Nat \ {0}
      BY <2>1, <2>2, ElementOfSeq
    <2> QED BY <2>3 DEF Old
  <1> QED BY <1>1, DecodeInit, DecodeNext, PTL DEF Spec

(* The pictures reach the output in the order of the stream, each once,    *)
(* those with an error left out, however packets, frames and the decoder's *)
(* thread interleave and whatever is tried again.                          *)
THEOREM PicturesInOrder == Spec => []InOrder
  <1>1. DecodeInv => InOrder
    <2> SUFFICES ASSUME DecodeInv PROVE InOrder
      OBVIOUS
    <2>1. SUFFICES ASSUME Simple, pc \in SimplePcs \cup {"query"}, cmd.o # None
                   PROVE  /\ \A i \in DOMAIN file : file[i] \notin stream.bad
                          /\ file # <<>> => Follows(0, file[1])
                          /\ \A i \in 1..(Len(file) - 1) :
                                Follows(file[i], file[i + 1]) \/ (Loops /\ Follows(0, file[i + 1]))
      BY DEF InOrder, SimplePcs, Follows, Spoilt
    <2>2. PICK d, w, v, u : InARow(d, w, v, u)
      BY <2>1 DEF DecodeInv, RowInv
    <2>3. Shown(d)
      BY <2>1, <2>2 DEF InARow
    <2>4. DOMAIN file = 1..Len(file)
      BY <2>3 DEF Shown
    <2> QED BY <2>3, <2>4 DEF Shown
  <1> QED BY <1>1, DecodeInit, DecodeNext, PTL DEF Spec

(* A decoding that was not limited, and whose calls were answered, leaves  *)
(* every good picture of the stream in the output; one with a limit takes  *)
(* no more frames than that, but those of the last packet.                 *)
THEOREM AsManyAsTold == Spec => []AsManyAsAsked
  <1>1. DecodeInv => WithinLimit
    BY DEF DecodeInv, FlowInv, LimitInv, WithinLimit, Sent
  <1>2. DecodeInv => NothingLost
    <2> SUFFICES ASSUME DecodeInv, Simple, pc = "query", cmd.o # None, cmd.c = None, cmd.n = 0, ~gave_up,
                        Answered
                 PROVE  {file[i] : i \in DOMAIN file} = (1..stream.size) \ stream.bad
      BY DEF NothingLost, Answered
    <2>1. Sent /\ AllTaken
      BY DEF DecodeInv, FlowInv, TurnInv
    <2>2. src = stream.size /\ ~Loops
      BY <2>1 DEF DecodeInv, FlowInv, LastInv, Sent
    <2>3. PICK d, w, v, u : InARow(d, w, v, u)
      BY DEF DecodeInv, RowInv
    <2>4. queue = <<>> /\ ready = <<>> /\ ~(decoding.next <= decoding.last) /\ frame.kind # "picture"
      BY <2>1 DEF AllTaken, NoMore, MoreToDo
    <2>5. Len(queue) = 0 /\ Len(ready) = 0
      BY <2>4
    <2>6. w[0] = d /\ v[0] = w[0] /\ u = v[0] /\ src = u
      BY <2>1, <2>2, <2>3, <2>4, <2>5 DEF InARow, Stretch, Sent
    <2>7. Shown(stream.size)
      BY <2>2, <2>3, <2>6 DEF InARow
    <2>8. DOMAIN file = 1..Len(file)
      BY <2>7 DEF Shown
    <2> QED BY <2>2, <2>7, <2>8 DEF Shown
  <1> QED BY <1>1, <1>2, DecodeInit, DecodeNext, PTL DEF Spec, AsManyAsAsked

-----------------------------------------------------------------------------
(* The types: what is on its way lies in the file, the ports, queues and   *)
(* tries keep to their values.                                             *)

Slice == {p \in Packet : p.first <= stream.size + 1 /\ p.first + p.n - 1 <= stream.size}
Shot  == {f \in FrameKind : f.picture <= stream.size}

RangeInv ==
    /\ line <= Len(stream.lines) + 1
    /\ pkt \in Slice /\ queue \in Seq(Slice) /\ decoding.last <= stream.size
    /\ frame \in Shot /\ ready \in Seq(Shot)
    /\ Len(queue) <= Queue /\ Len(ready) <= FrameBuffers

PlainInv ==
    /\ err \in {"MPP_OK", "MPP_NOK", "help"} /\ optindex <= Len(argv) + 2
    /\ may \in Scenarios \cup {{}} /\ ret \in {"ok", "error"} /\ step \in 1..Len(Setup) \cup 1..10
    /\ times \in 0..Times /\ rewinds \in 0..Rewinds /\ asked \in {"no", "waiting", "given"}
    /\ packet \in {"picture", "nothing"} /\ image \in {"picture", "blank"}
    /\ in \in {"port", "user", "decoder", "lost"} /\ out \in {"port", "user", "ready", "lost"}
    /\ job \in {"picture", "nothing", "idle"}

LEMMA PlainInit == Init => PlainInv /\ RangeInv
  <1> SUFFICES ASSUME Init PROVE PlainInv /\ RangeInv
    OBVIOUS
  <1>1. DataTypes
    BY TypesInit
  <1>2. err = "MPP_NOK" /\ optindex <= Len(argv) + 2
    BY <1>1, LenProperties DEF Init, OptionsInit, DataTypes
  <1>3. PlainInv
    BY <1>2, DecoderAssumption DEF PlainInv, Init, SimpleInit
  <1>4. stream.size = 0 /\ Len(stream.lines) = 0 /\ line = 0
    BY DEF Init, SimpleInit, NoStream
  <1>5. pkt \in Slice /\ frame \in Shot /\ decoding.last = 0 /\ queue = <<>> /\ ready = <<>>
    BY <1>4 DEF Init, SimpleInit, Slice, Shot, Packet, FrameKind, NoFrame, Idle
  <1> QED BY <1>3, <1>4, <1>5, DecoderAssumption DEF RangeInv

(* What the parser leaves of its own. *)
LEMMA PlainParse ==
    ASSUME DataTypes, PlainInv, ParseStep
    PROVE  err' \in {"MPP_OK", "MPP_NOK", "help"} /\ optindex' <= Len(argv') + 2
  <1>1. optindex \in Nat /\ Len(argv) \in Nat
    BY LenProperties DEF DataTypes
  <1>2. optindex' <= Len(argv') + 2
    BY <1>1 DEF PlainInv, ParseStep, skip_word, end_of_options, take_option, stop_parsing, all_parsed
  <1>3. err' \in {"MPP_OK", "MPP_NOK", "help"}
    BY DEF PlainInv, ParseStep, skip_word, end_of_options, take_option, stop_parsing, all_parsed, Checked
  <1> QED BY <1>2, <1>3

(* The step keeps within its list: HoldInv says where it counts, and in    *)
(* the loops and after the end it stands still.                            *)
LEMMA PlainStep ==
    ASSUME HoldInv, PlainInv, [Next]_vars
    PROVE  step' \in 1..Len(Setup') \cup 1..10
  <1>1. Len(Setup) \in Nat
    BY SetupFacts
  <1>2. CASE pc \in Early
    <2>1. step = 1 /\ step' = step
      <3>1. step = 1
        BY <1>2 DEF HoldInv
      <3>2. step' = step
        BY <1>2 DEF Next, Thread, Decoder, ParseStep, mpp_jpg2yuv, open_input, open_output, get_buffers, query,
           release, read, put_poll, put_dequeue, put_enqueue, get_poll, get_dequeue, write, Goes, SimpleStep,
           take, decode, vars, advancedVars, Rest, Io, Early
      <3> QED BY <3>1, <3>2
    <2> QED BY <2>1
  <1>3. CASE pc \notin Early
    <2>1. Setup' = Setup
      <3>1. cmd' = cmd
        BY <1>3 DEF Next, Thread, Decoder, ParseStep, skip_word, end_of_options, take_option, stop_parsing,
           all_parsed, mpp_jpg2yuv, open_input, open_output, get_buffers, query,
           release, read, put_poll, put_dequeue, put_enqueue, get_poll, get_dequeue, write,
           take, decode, vars, optVars, still, Rest, Io, Early
      <3> QED BY <3>1, CmdKept
    <2>2. CASE open_input \/ open_output \/ get_buffers
      <3>1. step \in 1..Len(Setup)
        BY <2>2 DEF HoldInv, open_input, open_output, get_buffers
      <3>2. (step # Len(Setup) /\ step' = step + 1) \/ step' = step \/ step' = 1
        BY <2>2 DEF open_input, open_output, get_buffers, Acquires, Out
      <3> QED BY <1>1, <2>1, <3>1, <3>2
    <2>3. CASE query
      BY <2>3 DEF query, Out
    <2>4. CASE release
      <3>1. step \in 1..10 /\ ((step # 10 /\ step' = step + 1) \/ step' = step)
        BY <2>4, ReleaseFacts DEF HoldInv, release, Released
      <3> QED BY <3>1
    <2>5. CASE step' = step
      BY <2>1, <2>5 DEF PlainInv
    <2>6. open_input \/ open_output \/ get_buffers \/ query \/ release \/ step' = step
      BY <1>3 DEF Next, Thread, Decoder, ParseStep, skip_word, end_of_options, take_option, stop_parsing,
         all_parsed, mpp_jpg2yuv, read, put_poll, put_dequeue, put_enqueue, get_poll, get_dequeue, write,
         take, decode, vars, advancedVars, Rest, Io, Early
    <2> QED BY <2>2, <2>3, <2>4, <2>5, <2>6
  <1> QED BY <1>2, <1>3

LEMMA PlainNext ==
    ASSUME HoldInv, DataTypes, PlainInv, [Next]_vars
    PROVE  PlainInv'
  <1> DEFINE Ports == /\ packet \in {"picture", "nothing"} /\ image \in {"picture", "blank"}
                      /\ in \in {"port", "user", "decoder", "lost"} /\ out \in {"port", "user", "ready", "lost"}
                      /\ job \in {"picture", "nothing", "idle"}
             Result == may \in Scenarios \cup {{}} /\ ret \in {"ok", "error"}
             Loop == times \in 0..Times /\ rewinds \in 0..Rewinds /\ asked \in {"no", "waiting", "given"}
             Parsed == err \in {"MPP_OK", "MPP_NOK", "help"} /\ optindex <= Len(argv) + 2
  <1>1. Ports /\ Result /\ Loop /\ Parsed
    BY DEF PlainInv
  <1>2. Times \in Nat /\ Rewinds \in Nat
    BY DecoderAssumption
  <1>3. Parsed'
    <2>1. CASE ParseStep
      BY <2>1, PlainParse
    <2>2. CASE ~ParseStep
      <3>1. UNCHANGED optVars
        BY <2>2 DEF Next, Thread, Decoder, mpp_jpg2yuv, open_input, open_output, get_buffers, query,
           release, read, put_poll, put_dequeue, put_enqueue, get_poll, get_dequeue, write, take, decode,
           vars, still, Rest, Io
      <3> QED BY <1>1, <3>1 DEF optVars
    <2> QED BY <2>1, <2>2
  <1>4. CASE ParseStep /\ UNCHANGED <<may, shared, eos, simpleVars, advancedVars>>
    <2>1. (Ports /\ Result /\ Loop)'
      BY <1>1, <1>4 DEF shared, simpleVars, sourceVars, callVars, decoderVars, advancedVars
    <2> QED BY <1>3, <2>1, PlainStep DEF PlainInv
  <1>5. CASE mpp_jpg2yuv
    <2>1. (Ports /\ Result /\ Loop)'
      BY <1>1, <1>5 DEF mpp_jpg2yuv, callVars, decoderVars, advancedVars
    <2> QED BY <1>3, <2>1, PlainStep DEF PlainInv
  <1>6. CASE open_input \/ open_output \/ get_buffers
    <2>1. UNCHANGED <<may, packet, in, out, job, image, times, rewinds, asked>>
      BY <1>6 DEF open_input, open_output, get_buffers, still, simpleVars, sourceVars, callVars, decoderVars
    <2>2. ret' \in {"ok", "error"}
      BY <1>1, <1>6 DEF open_input, open_output, get_buffers
    <2> QED BY <1>1, <1>3, <2>1, <2>2, PlainStep DEF PlainInv
  <1>7. CASE query \/ release
    <2>1. UNCHANGED <<may, packet, image, times, rewinds>>
      BY <1>7 DEF query, release, sourceVars, callVars
    <2>2. (in \in {"port", "user", "decoder", "lost"} /\ out \in {"port", "user", "ready", "lost"})'
      BY <1>1, <1>7 DEF query, release, Stopped
    <2>3. (job \in {"picture", "nothing", "idle"} /\ asked \in {"no", "waiting", "given"})'
      BY <1>1, <1>7 DEF query, release, Stopped, decoderVars
    <2>4. ret' \in {"ok", "error"}
      BY <1>1, <1>7 DEF query, release
    <2> QED BY <1>1, <1>3, <2>1, <2>2, <2>3, <2>4, PlainStep DEF PlainInv
  <1>8. CASE read \/ put_poll \/ put_dequeue \/ put_enqueue \/ get_poll \/ get_dequeue \/ write
    <2>1. UNCHANGED <<may, ret, times, rewinds, asked>>
      BY <1>8 DEF read, put_poll, put_dequeue, put_enqueue, get_poll, get_dequeue, write, Rest, Io, callVars,
         decoderVars
    <2>2. Ports'
      BY <1>1, <1>8 DEF read, put_poll, put_dequeue, put_enqueue, get_poll, get_dequeue, write, Io
    <2> QED BY <1>1, <1>3, <2>1, <2>2, PlainStep DEF PlainInv
  <1>9. CASE SimpleStep /\ UNCHANGED <<optVars, may, advancedVars>>
    <2>1. Ports' /\ may' \in Scenarios \cup {{}}
      BY <1>1, <1>9 DEF advancedVars
    <2>2. ret' \in {"ok", "error"} /\ asked' \in {"no", "waiting", "given"}
      BY <1>1, <1>9 DEF SimpleStep, read_packet, decode_put_packet, decode_get_frame, info_change, use_frame,
         end_turn, shared, decoderVars
    <2>3. rewinds' = rewinds \/ (rewinds' = rewinds + 1 /\ rewinds < Rewinds)
      BY <1>9 DEF SimpleStep, read_packet, Rewind, decode_put_packet, decode_get_frame, info_change, use_frame,
         end_turn, sourceVars
    <2>4. times' = times \/ times' = Times \/ (times' = times - 1 /\ times > 0)
      BY <1>9 DEF SimpleStep, read_packet, decode_put_packet, decode_get_frame, a_frame, no_frame, timed_out,
         no_more, info_change, use_frame, end_turn, callVars
    <2>5. times' \in 0..Times /\ rewinds' \in 0..Rewinds
      BY <1>1, <1>2, <2>3, <2>4
    <2> QED BY <1>3, <2>1, <2>2, <2>5, PlainStep DEF PlainInv
  <1>10. CASE take \/ decode
    <2>1. UNCHANGED <<may, ret, times, rewinds, asked>>
      BY <1>10 DEF take, decode, Rest, Io, callVars, decoderVars
    <2>2. Ports'
      BY <1>1, <1>10 DEF take, decode, Io
    <2> QED BY <1>1, <1>3, <2>1, <2>2, PlainStep DEF PlainInv
  <1>11. CASE SimpleDecoder /\ UNCHANGED <<optVars, may, advancedVars>>
    <2>1. Ports' /\ Result' /\ times' = times /\ rewinds' = rewinds
      BY <1>1, <1>11 DEF SimpleDecoder, shared, sourceVars, callVars, advancedVars
    <2>2. asked' \in {"no", "waiting", "given"}
      BY <1>1, <1>11 DEF SimpleDecoder, take_packet, ask_for_buffers, decode_picture, decode_end
    <2> QED BY <1>1, <1>3, <2>1, <2>2, PlainStep DEF PlainInv
  <1>12. CASE UNCHANGED vars
    BY <1>1, <1>3, <1>12, PlainStep DEF PlainInv, vars, shared, simpleVars, sourceVars, callVars, decoderVars, advancedVars
  <1> QED BY <1>4, <1>5, <1>6, <1>7, <1>8, <1>9, <1>10, <1>11, <1>12 DEF Next, Thread, Decoder

(* What is on its way lies in the file.                                    *)
LEMMA RangeFresh ==
    ASSUME Fresh', line' = 0, stream'.size \in Nat, Len(stream'.lines) \in Nat
    PROVE  RangeInv'
  <1>1. pkt' = [first |-> 1, n |-> 0, eos |-> FALSE] /\ frame' = NoFrame /\ queue' = <<>> /\ decoding' = Idle /\ ready' = <<>>
    BY DEF Fresh
  <1>2. pkt' \in Packet /\ pkt'.first = 1 /\ pkt'.n = 0 /\ frame' \in FrameKind /\ frame'.picture = 0 /\ decoding'.last = 0
    BY <1>1 DEF Packet, FrameKind, NoFrame, Idle
  <1>3. pkt' \in Slice' /\ frame' \in Shot'
    BY <1>2 DEF Slice, Shot
  <1>4. queue' \in Seq(Slice') /\ ready' \in Seq(Shot') /\ Len(queue') = 0 /\ Len(ready') = 0
    BY <1>1
  <1> QED BY <1>2, <1>3, <1>4, DecoderAssumption DEF RangeInv

LEMMA RangeKept ==
    ASSUME DataTypes, RangeInv, stream' = stream, line' <= Len(stream.lines) + 1,
           pkt' \in Slice, queue' \in Seq(Slice), Len(queue') <= Queue,
           decoding'.last <= stream.size, frame' \in Shot, ready' \in Seq(Shot), Len(ready') <= FrameBuffers
    PROVE  RangeInv'
  <1>1. Slice' = Slice /\ Shot' = Shot
    BY DEF Slice, Shot
  <1>2. line' <= Len(stream'.lines) + 1
    BY DEF RangeInv, DataTypes
  <1> QED BY <1>1, <1>2 DEF RangeInv

LEMMA RangeSimple ==
    ASSUME DataTypes, RangeInv, SimpleStep, UNCHANGED optVars
    PROVE  RangeInv'
  <1>1. /\ line <= Len(stream.lines) + 1 /\ pkt \in Slice /\ queue \in Seq(Slice) /\ decoding.last <= stream.size
        /\ frame \in Shot /\ ready \in Seq(Shot) /\ Len(queue) <= Queue /\ Len(ready) <= FrameBuffers
    BY DEF RangeInv
  <1>2. stream' = stream /\ decoding' = decoding
    BY DEF SimpleStep, read_packet, decode_put_packet, decode_get_frame, info_change, use_frame, end_turn,
       sourceVars, decoderVars
  <1>3. NoFrame \in Shot /\ Queue \in Nat
    <2>1. stream.size \in Nat
      BY DEF DataTypes
    <2> QED BY <2>1, DecoderAssumption DEF NoFrame, Shot, FrameKind
  <1>4. CASE read_packet
    <2> DEFINE size == packet_size
               left == stream.size - src
               got  == IF left < size THEN left ELSE size
               last == size = 0 \/ got < size
    <2>1. size \in Nat /\ stream.size \in Nat /\ src \in 0..stream.size /\ line \in Nat /\ Len(stream.lines) \in Nat
      BY PacketSizeIs DEF DataTypes
    <2>2. UsedLine <= Len(stream.lines) + 1
      <3>1. NextLine \in 0..Len(stream.lines)
        BY <2>1, NextLineIs
      <3> QED BY <2>1, <3>1 DEF UsedLine
    <2> HIDE DEF size
    <2>3. (line' = 0 \/ line' = UsedLine) /\ pkt' = [first |-> src + 1, n |-> got, eos |-> last /\ ~Loops]
      BY <1>4 DEF read_packet, Rewind, size
    <2>4. got \in Nat /\ src + got <= stream.size
      BY <2>1
    <2>5. pkt' \in Packet /\ pkt'.first = src + 1 /\ pkt'.n = got
      <3> HIDE DEF got
      <3> QED BY <2>1, <2>3, <2>4 DEF Packet
    <2> HIDE DEF got
    <2>6. pkt' \in Slice
      BY <2>1, <2>4, <2>5 DEF Slice
    <2>7. line' <= Len(stream.lines) + 1
      BY <2>1, <2>2, <2>3
    <2>8. UNCHANGED <<queue, ready, frame>>
      BY <1>4 DEF read_packet, decoderVars
    <2> QED BY <1>1, <1>2, <2>6, <2>7, <2>8, RangeKept
  <1>5. CASE decode_put_packet
    <2>1. UNCHANGED <<line, pkt, ready, frame>>
      BY <1>5 DEF decode_put_packet, sourceVars
    <2>2. (queue' = Append(queue, pkt) /\ Len(queue) < Queue) \/ queue' = queue
      BY <1>5 DEF decode_put_packet
    <2>3. queue' \in Seq(Slice) /\ Len(queue') <= Queue
      BY <1>1, <1>3, <2>2, QueueTakes, SMTT(30)
    <2> QED BY <1>1, <1>2, <2>1, <2>3, RangeKept
  <1>6. CASE decode_get_frame
    <2>1. UNCHANGED <<line, pkt, queue>>
      BY <1>6 DEF decode_get_frame, sourceVars
    <2>2. \/ ready # <<>> /\ frame' = Head(ready) /\ ready' = Tail(ready)
          \/ ready' = ready /\ frame' = NoFrame
          \/ ready' = ready /\ frame' = frame
      BY <1>6 DEF decode_get_frame, a_frame, no_frame, timed_out, no_more
    <2>3. FrameBuffers \in Nat
      BY DecoderAssumption
    <2>4. ready' \in Seq(Shot) /\ frame' \in Shot /\ Len(ready') <= FrameBuffers
      BY <1>1, <1>3, <2>2, <2>3, QueueGives
    <2> QED BY <1>1, <1>2, <2>1, <2>4, RangeKept
  <1>7. CASE info_change \/ end_turn
    <2>1. UNCHANGED <<line, pkt, queue, ready, frame>>
      BY <1>7 DEF info_change, end_turn, sourceVars, callVars, decoderVars
    <2> QED BY <1>1, <1>2, <2>1, RangeKept
  <1>8. CASE use_frame
    <2>1. UNCHANGED <<line, pkt, queue, ready>> /\ frame' = NoFrame
      BY <1>8 DEF use_frame, sourceVars, decoderVars
    <2> QED BY <1>1, <1>2, <1>3, <2>1, RangeKept
  <1> QED BY <1>4, <1>5, <1>6, <1>7, <1>8 DEF SimpleStep

LEMMA RangeDecoder ==
    ASSUME DataTypes, RangeInv, SimpleDecoder
    PROVE  RangeInv'
  <1>1. /\ line <= Len(stream.lines) + 1 /\ pkt \in Slice /\ queue \in Seq(Slice) /\ decoding.last <= stream.size
        /\ frame \in Shot /\ ready \in Seq(Shot) /\ Len(queue) <= Queue /\ Len(ready) <= FrameBuffers
    BY DEF RangeInv
  <1>2. UNCHANGED <<stream, line, pkt, frame>>
    BY DEF SimpleDecoder, sourceVars, callVars
  <1>3. stream.size \in Nat /\ decoding \in Work /\ Queue \in Nat /\ FrameBuffers \in Nat
    BY DecoderAssumption DEF DataTypes
  <1>4. ASSUME NEW f \in Shot, ready' = Append(ready, f), Len(ready) < FrameBuffers, queue' = queue, decoding'.last <= stream.size
        PROVE  RangeInv'
    <2>1. ready' \in Seq(Shot) /\ Len(ready') <= FrameBuffers
      BY <1>1, <1>3, <1>4, QueueTakes
    <2> QED BY <1>1, <1>2, <1>4, <2>1, RangeKept
  <1>5. CASE take_packet
    <2>1. queue # <<>> /\ queue' = Tail(queue) /\ ready' = ready /\ decoding'.last = Head(queue).first + Head(queue).n - 1
      BY <1>5 DEF take_packet
    <2>2. Head(queue) \in Slice /\ queue' \in Seq(Slice) /\ Len(queue') <= Queue
      BY <1>1, <1>3, <2>1, QueueGives
    <2>3. decoding'.last <= stream.size
      BY <2>1, <2>2 DEF Slice
    <2> QED BY <1>1, <1>2, <2>1, <2>2, <2>3, RangeKept
  <1>6. CASE ask_for_buffers
    <2>1. queue' = queue /\ decoding' = decoding /\ ready' = Append(ready, Frame("info", 0, FALSE)) /\ Len(ready) < FrameBuffers
      BY <1>6 DEF ask_for_buffers
    <2>2. Frame("info", 0, FALSE) \in Shot
      BY <1>3 DEF Frame, FrameKind, Shot
    <2> QED BY <1>1, <1>4, <2>1, <2>2
  <1>7. CASE decode_picture
    <2>1. PICK marked \in BOOLEAN :
             /\ ready' = Append(ready, Frame("picture", decoding.next, marked))
             /\ decoding' = [decoding EXCEPT !.next = @ + 1, !.eos = @ /\ ~marked]
      BY <1>7 DEF decode_picture
    <2>2. queue' = queue /\ Len(ready) < FrameBuffers /\ decoding.next <= decoding.last
      BY <1>7 DEF decode_picture
    <2>3. decoding'.last = decoding.last /\ decoding.next \in Nat /\ decoding.last \in Nat /\ decoding.next <= stream.size
      BY <1>1, <1>3, <2>1, <2>2 DEF Work
    <2>4. Frame("picture", decoding.next, marked) \in Shot
      BY <2>3 DEF Frame, FrameKind, Shot
    <2> QED BY <1>1, <1>4, <2>1, <2>2, <2>3, <2>4
  <1>8. CASE decode_end
    <2>1. queue' = queue /\ decoding' = Idle /\ ready' = Append(ready, Frame("empty", 0, TRUE)) /\ Len(ready) < FrameBuffers
      BY <1>8 DEF decode_end
    <2>2. Frame("empty", 0, TRUE) \in Shot /\ decoding'.last <= stream.size
      BY <1>3, <2>1 DEF Frame, FrameKind, Shot, Idle
    <2> QED BY <1>4, <2>1, <2>2
  <1> QED BY <1>5, <1>6, <1>7, <1>8 DEF SimpleDecoder

LEMMA RangeNext ==
    ASSUME DataTypes, DataTypes', FreshInv, RangeInv, [Next]_vars
    PROVE  RangeInv'
  <1>1. CASE mpp_jpg2yuv
    <2>1. Fresh /\ line = 0
      BY <1>1 DEF mpp_jpg2yuv, FreshInv, Early
    <2>2. UNCHANGED flowVars /\ line' = line
      BY <1>1 DEF mpp_jpg2yuv, callVars, decoderVars, flowVars
    <2>3. Fresh'
      BY <2>1, <2>2, FreshKept
    <2> QED BY <2>1, <2>2, <2>3, RangeFresh DEF DataTypes
  <1>2. CASE SimpleStep /\ UNCHANGED <<optVars, may, advancedVars>>
    BY <1>2, RangeSimple
  <1>3. CASE SimpleDecoder
    BY <1>3, RangeDecoder
  <1>4. CASE query \/ release
    <2>1. UNCHANGED <<stream, line, pkt, frame>>
      BY <1>4 DEF query, release, sourceVars, callVars
    <2>2. \/ UNCHANGED <<queue, decoding, ready>>
          \/ queue' = <<>> /\ decoding' = Idle /\ ready' = <<>>
      BY <1>4 DEF query, Stopped, release, decoderVars
    <2>3. /\ line <= Len(stream.lines) + 1 /\ pkt \in Slice /\ queue \in Seq(Slice) /\ decoding.last <= stream.size
          /\ frame \in Shot /\ ready \in Seq(Shot) /\ Len(queue) <= Queue /\ Len(ready) <= FrameBuffers
      BY DEF RangeInv
    <2>4. CASE UNCHANGED <<queue, decoding, ready>>
      BY <2>1, <2>3, <2>4, RangeKept
    <2>5. CASE queue' = <<>> /\ decoding' = Idle /\ ready' = <<>>
      <3>1. queue' \in Seq(Slice) /\ ready' \in Seq(Shot) /\ Len(queue') = 0 /\ Len(ready') = 0
        BY <2>5
      <3>2. decoding'.last = 0 /\ stream.size \in Nat /\ Queue \in Nat /\ FrameBuffers \in Nat
        BY <2>5, DecoderAssumption DEF Idle, DataTypes
      <3> QED BY <2>1, <2>3, <3>1, <3>2, RangeKept
    <2> QED BY <2>2, <2>4, <2>5
  <1>5. CASE UNCHANGED <<stream, line, pkt, frame, queue, decoding, ready>>
    <2>1. Slice' = Slice /\ Shot' = Shot
      BY <1>5 DEF Slice, Shot
    <2> QED BY <1>5, <2>1 DEF RangeInv
  <1>6. CASE \/ ParseStep /\ UNCHANGED <<may, shared, eos, simpleVars, advancedVars>>
             \/ open_input \/ open_output \/ get_buffers
             \/ read \/ put_poll \/ put_dequeue \/ put_enqueue \/ get_poll \/ get_dequeue \/ write
             \/ take \/ decode \/ UNCHANGED vars
    <2>1. UNCHANGED <<stream, line, pkt, frame, queue, decoding, ready>>
      BY <1>6 DEF open_input, open_output, get_buffers, read, put_poll, put_dequeue, put_enqueue, get_poll,
         get_dequeue, write, take, decode, vars, still, simpleVars, sourceVars, callVars, decoderVars, Io, Rest
    <2> QED BY <1>5, <2>1
  <1> QED BY <1>1, <1>2, <1>3, <1>4, <1>6 DEF Next, Thread, Decoder

-----------------------------------------------------------------------------
(* How many pictures there are.  They are told as they lie in a row: w[i]  *)
(* are the output's, the one just taken and those of the first i frames    *)
(* that are ready; v goes on with what the decoder works on and with the   *)
(* queue.  None is past U, what was read of the stream in all its laps.    *)

PicOf  == [f \in FrameKind |-> IF f.kind = "picture" THEN 1 ELSE 0]
SizeOf == [p \in Packet |-> p.n]

Tally(s, a, w, U) ==
    /\ w \in [0..Len(s) -> 0..U]
    /\ \A i \in 1..Len(s) : w[i - 1] + a[s[i]] <= w[i]

Left == IF decoding.next <= decoding.last THEN decoding.last - decoding.next + 1 ELSE 0
Laps == rewinds * stream.size + src

Counted(w, v, U) ==
    /\ U \in Nat /\ Tally(ready, PicOf, w, U) /\ Tally(queue, SizeOf, v, U)
    /\ Len(file) + PicOf[frame] <= w[0]
    /\ w[Len(ready)] + Left <= v[0]
    /\ v[Len(queue)] + (IF pkt_done THEN 0 ELSE pkt.n) <= U
CountInv == Simple /\ pc \in SimplePcs /\ cmd.o # None => \E w, v : Counted(w, v, Laps)

LEMMA TallyGrows ==
    ASSUME NEW T, NEW s \in Seq(T), NEW a \in [T -> Nat], NEW U \in Nat, NEW w, Tally(s, a, w, U),
           NEW x \in T, NEW e \in 0..U, w[Len(s)] + a[x] <= e
    PROVE  \E y : Tally(Append(s, x), a, y, U) /\ y[0] = w[0] /\ y[Len(Append(s, x))] = e
  <1> PICK n : n = Len(s)
    OBVIOUS
  <1> PICK t : t = Append(s, x)
    OBVIOUS
  <1> DEFINE y == [i \in 0..(n + 1) |-> IF i <= n THEN w[i] ELSE e]
  <1>1. n \in Nat /\ Len(t) = n + 1 /\ t[n + 1] = x /\ \A i \in 1..n : t[i] = s[i]
    BY QueueTakes
  <1>2. w \in [0..n -> 0..U] /\ \A i \in 1..n : w[i - 1] + a[s[i]] <= w[i]
    BY DEF Tally
  <1>3. y \in [0..(n + 1) -> 0..U] /\ (\A i \in 0..n : y[i] = w[i]) /\ y[n + 1] = e /\ y[0] = w[0]
    BY <1>1, <1>2
  <1> HIDE DEF y
  <1>4. ASSUME NEW i \in 1..(n + 1) PROVE y[i - 1] + a[t[i]] <= y[i]
    <2>1. CASE i \in 1..n
      <3>1. i - 1 \in 0..n /\ i \in 0..n
        BY <1>1, <2>1
      <3> QED BY <1>1, <1>2, <1>3, <2>1, <3>1
    <2>2. CASE i = n + 1
      <3>1. i - 1 = n /\ n \in 0..n
        BY <1>1, <2>2
      <3> QED BY <1>1, <1>3, <2>2, <3>1
    <2> QED BY <1>1, <2>1, <2>2
  <1>5. Tally(t, a, y, U) /\ y[Len(t)] = e
    BY <1>1, <1>3, <1>4 DEF Tally
  <1> QED BY <1>3, <1>5

LEMMA TallyShrinks ==
    ASSUME NEW T, NEW s \in Seq(T), s # <<>>, NEW a \in [T -> Nat], NEW U \in Nat, NEW w, Tally(s, a, w, U)
    PROVE  /\ w[0] \in 0..U /\ w[1] \in 0..U /\ w[0] + a[Head(s)] <= w[1]
           /\ \E y : Tally(Tail(s), a, y, U) /\ y[0] = w[1] /\ y[Len(Tail(s))] = w[Len(s)]
  <1> PICK n : n = Len(s)
    OBVIOUS
  <1> PICK t : t = Tail(s)
    OBVIOUS
  <1> DEFINE y == [i \in 0..(n - 1) |-> w[i + 1]]
  <1>1. n \in Nat /\ n >= 1 /\ Len(t) = n - 1 /\ Head(s) = s[1] /\ \A i \in 1..(n - 1) : t[i] = s[i + 1]
    BY QueueGives
  <1>2. w \in [0..n -> 0..U] /\ \A i \in 1..n : w[i - 1] + a[s[i]] <= w[i]
    BY DEF Tally
  <1>3. y \in [0..(n - 1) -> 0..U] /\ (\A i \in 0..(n - 1) : y[i] = w[i + 1])
    BY <1>1, <1>2
  <1> HIDE DEF y
  <1>4. ASSUME NEW i \in 1..(n - 1) PROVE y[i - 1] + a[t[i]] <= y[i]
    <2>1. i - 1 \in 0..(n - 1) /\ i \in 0..(n - 1) /\ i + 1 \in 1..n /\ (i - 1) + 1 = (i + 1) - 1
      BY <1>1
    <2>2. t[i] = s[i + 1] /\ y[i] = w[i + 1] /\ y[i - 1] = w[(i + 1) - 1]
      BY <1>1, <1>3, <2>1
    <2> QED BY <1>2, <2>1, <2>2
  <1>5. 0 \in 0..(n - 1) /\ n - 1 \in 0..(n - 1) /\ (n - 1) + 1 = n /\ 0 + 1 = 1
    BY <1>1
  <1>6. Tally(t, a, y, U) /\ y[0] = w[1] /\ y[Len(t)] = w[n]
    BY <1>1, <1>3, <1>4, <1>5 DEF Tally
  <1>7. w[0] \in 0..U /\ w[1] \in 0..U /\ w[0] + a[s[1]] <= w[1]
    <2>1. 1 \in 1..n /\ 1 - 1 = 0 /\ 0 \in 0..n /\ 1 \in 0..n
      BY <1>1
    <2> QED BY <1>2, <2>1
  <1> QED BY <1>1, <1>6, <1>7

LEMMA TallyWidens ==
    ASSUME NEW T, NEW s \in Seq(T), NEW a, NEW U \in Nat, NEW V \in Nat, U <= V, NEW w, Tally(s, a, w, U)
    PROVE  Tally(s, a, w, V)
  <1>1. \A f : f \in [0..Len(s) -> 0..U] => f \in [0..Len(s) -> 0..V]
    OBVIOUS
  <1> QED BY <1>1 DEF Tally

(* A tally's numbers are numbers. *)
LEMMA TallyEnds ==
    ASSUME NEW T, NEW s \in Seq(T), NEW a, NEW U \in Nat, NEW w, Tally(s, a, w, U)
    PROVE  w[0] \in 0..U /\ w[Len(s)] \in 0..U
  <1>1. 0 \in 0..Len(s) /\ Len(s) \in 0..Len(s)
    BY LenProperties
  <1> QED BY <1>1 DEF Tally

LEMMA Weights ==
    /\ PicOf \in [FrameKind -> Nat] /\ SizeOf \in [Packet -> Nat]
    /\ \A f \in FrameKind : PicOf[f] = IF f.kind = "picture" THEN 1 ELSE 0
    /\ \A p \in Packet : SizeOf[p] = p.n
BY DEF PicOf, SizeOf, Packet

LEMMA Distributes ==
    ASSUME NEW a \in Nat, NEW b \in Nat
    PROVE  (a + 1) * b = a * b + b /\ a * b \in Nat
OBVIOUS

LEMMA CountTypes ==
    ASSUME DataTypes, NEW U, NEW w, NEW v, Counted(w, v, U)
    PROVE  /\ U \in Nat /\ w[0] \in 0..U /\ w[Len(ready)] \in 0..U /\ v[0] \in 0..U /\ v[Len(queue)] \in 0..U
           /\ PicOf[frame] \in {0, 1} /\ PicOf[frame] = (IF frame.kind = "picture" THEN 1 ELSE 0)
           /\ pkt.n \in Nat /\ Left \in Nat
  <1>1. queue \in Seq(Packet) /\ ready \in Seq(FrameKind) /\ frame \in FrameKind /\ pkt \in Packet /\ decoding \in Work
    BY DEF DataTypes
  <1>2. U \in Nat /\ Tally(ready, PicOf, w, U) /\ Tally(queue, SizeOf, v, U)
    BY DEF Counted
  <1>3. w[0] \in 0..U /\ w[Len(ready)] \in 0..U
    BY <1>1, <1>2, TallyEnds
  <1>4. v[0] \in 0..U /\ v[Len(queue)] \in 0..U
    BY <1>1, <1>2, TallyEnds
  <1>5. Left \in Nat
    BY <1>1 DEF Left, Work
  <1>6. PicOf[frame] = (IF frame.kind = "picture" THEN 1 ELSE 0)
    BY <1>1, Weights
  <1> QED BY <1>1, <1>2, <1>3, <1>4, <1>5, <1>6 DEF Packet

(* The packet counts for no more than what was read of the stream.         *)
LEMMA CountKept ==
    ASSUME DataTypes, NEW U, NEW w, NEW v, Counted(w, v, U), NEW V \in Nat, U <= V,
           UNCHANGED <<queue, decoding, ready>>,
           Len(file') + PicOf[frame'] <= Len(file) + PicOf[frame], Len(file') + PicOf[frame'] \in Nat, Len(file) \in Nat,
           v[Len(queue)] + (IF pkt_done' THEN 0 ELSE pkt'.n) <= V
    PROVE  Counted(w, v, V)'
  <1>1. U \in Nat /\ w[0] \in 0..U /\ PicOf[frame] \in {0, 1} /\ Len(file) + PicOf[frame] <= w[0]
    BY CountTypes DEF Counted
  <1>2. queue \in Seq(Packet) /\ ready \in Seq(FrameKind)
    BY DEF DataTypes
  <1>3. Tally(ready, PicOf, w, U) /\ Tally(queue, SizeOf, v, U) /\ w[Len(ready)] + Left <= v[0]
    BY DEF Counted
  <1>4. Tally(ready, PicOf, w, V) /\ Tally(queue, SizeOf, v, V)
    BY <1>1, <1>2, <1>3, TallyWidens
  <1>5. Tally(ready, PicOf, w, V)' /\ Tally(queue, SizeOf, v, V)'
    BY <1>4 DEF Tally
  <1>6. Left' = Left
    BY DEF Left
  <1>7. Len(file') + PicOf[frame'] <= w[0]
    BY <1>1
  <1> HIDE DEF PicOf, SizeOf
  <1> QED BY <1>3, <1>5, <1>6, <1>7 DEF Counted

LEMMA CountEnter ==
    ASSUME Fresh', Laps' \in Nat, file' = <<>>
    PROVE  \E w, v : Counted(w, v, Laps)'
  <1> DEFINE w == [i \in 0..0 |-> 0]
  <1> PICK U : U = Laps'
    OBVIOUS
  <1>1. /\ pkt'.n = 0 /\ frame'.kind = "none" /\ frame' \in FrameKind /\ Len(file') = 0
        /\ queue' = <<>> /\ ready' = <<>> /\ decoding'.next = 1 /\ decoding'.last = 0
    BY DEF Fresh, Idle, NoFrame, FrameKind
  <1>2. w \in [0..0 -> 0..U] /\ w[0] = 0
    OBVIOUS
  <1>3. PicOf[frame'] = 0
    BY <1>1, Weights
  <1> HIDE DEF w
  <1>4. Tally(ready, PicOf, w, U)' /\ Tally(queue, SizeOf, w, U)'
    BY <1>1, <1>2 DEF Tally
  <1>5. Left' = 0
    BY <1>1 DEF Left
  <1>6. (w[Len(ready)] + Left <= w[0])' /\ (w[Len(queue)] + (IF pkt_done THEN 0 ELSE pkt.n) <= U)'
    BY <1>1, <1>2, <1>5
  <1>7. (Len(file) + PicOf[frame] <= w[0])'
    BY <1>1, <1>2, <1>3
  <1>8. Counted(w, w, Laps)'
    BY <1>4, <1>6, <1>7 DEF Counted
  <1> QED BY <1>8

LEMMA CountRead ==
    ASSUME DataTypes, PlainInv, HandInv, read_packet, UNCHANGED optVars, Len(file) \in Nat,
           NEW U, U = Laps, NEW w, NEW v, Counted(w, v, U)
    PROVE  Counted(w, v, Laps)'
  <1> DEFINE size == packet_size
             left == stream.size - src
             got  == IF left < size THEN left ELSE size
             last == size = 0 \/ got < size
  <1>1. size \in Nat /\ stream.size \in Nat /\ src \in 0..stream.size /\ rewinds \in Nat
    BY PacketSizeIs, DecoderAssumption DEF DataTypes, PlainInv
  <1> HIDE DEF size
  <1>2. got \in Nat /\ src + got <= stream.size
    BY <1>1
  <1>3. /\ (src' = 0 /\ rewinds' = rewinds + 1) \/ (src' = src + got /\ rewinds' = rewinds)
        /\ pkt'.n = got /\ pkt_done' = FALSE /\ stream' = stream
        /\ UNCHANGED <<file, frame, queue, decoding, ready>>
    BY DEF read_packet, Rewind, size, shared, decoderVars
  <1> HIDE DEF got, last
  <1> PICK V : V = Laps'
    OBVIOUS
  <1>4. V \in Nat /\ U + got <= V
    <2>0. PICK all \in Nat : all = rewinds * stream.size
      BY <1>1
    <2>1. (rewinds + 1) * stream.size = all + stream.size
      BY <1>1, <2>0, Distributes
    <2>2. U = all + src
      BY <2>0 DEF Laps
    <2>3. V = rewinds' * stream.size + src'
      BY <1>3 DEF Laps
    <2>4. CASE src' = 0 /\ rewinds' = rewinds + 1
      <3>1. V = all + stream.size
        BY <1>1, <2>0, <2>1, <2>3, <2>4
      <3> QED BY <1>1, <1>2, <2>2, <3>1
    <2>5. CASE src' = src + got /\ rewinds' = rewinds
      <3>1. V = all + (src + got)
        BY <2>0, <2>3, <2>5
      <3> QED BY <1>1, <1>2, <2>2, <3>1
    <2> QED BY <1>3, <2>4, <2>5
  <1>5. U \in Nat /\ v[Len(queue)] \in 0..U /\ PicOf[frame] \in {0, 1}
    BY CountTypes
  <1>6. v[Len(queue)] + (IF pkt_done' THEN 0 ELSE pkt'.n) <= V
    BY <1>2, <1>3, <1>4, <1>5
  <1>7. U <= V
    BY <1>2, <1>4, <1>5
  <1>8. Len(file') + PicOf[frame'] <= Len(file) + PicOf[frame] /\ Len(file') + PicOf[frame'] \in Nat
    BY <1>3, <1>5
  <1>9. Counted(w, v, V)'
    BY <1>3, <1>4, <1>6, <1>7, <1>8, CountKept
  <1> QED BY <1>9

LEMMA CountPut ==
    ASSUME DataTypes, HandInv, decode_put_packet, UNCHANGED optVars, Len(file) \in Nat,
           NEW U, NEW w, NEW v, Counted(w, v, U)
    PROVE  \E x, y : Counted(x, y, U)'
  <1>1. UNCHANGED <<file, frame, pkt, decoding, ready>>
    BY DEF decode_put_packet, shared
  <1>2. U \in Nat /\ v[Len(queue)] \in 0..U /\ PicOf[frame] \in {0, 1} /\ pkt.n \in Nat
    BY CountTypes
  <1>3. CASE queue' = queue /\ pkt_done' = pkt_done
    <2>1. v[Len(queue)] + (IF pkt_done' THEN 0 ELSE pkt'.n) <= U
      BY <1>1, <1>3 DEF Counted
    <2>2. Len(file') + PicOf[frame'] <= Len(file) + PicOf[frame] /\ Len(file') + PicOf[frame'] \in Nat
      BY <1>1, <1>2
    <2>3. Counted(w, v, U)'
      BY <1>1, <1>2, <1>3, <2>1, <2>2, CountKept
    <2> QED BY <2>3
  <1>4. CASE queue' = Append(queue, pkt) /\ pkt_done' = TRUE
    <2>1. ~pkt_done
      BY DEF HandInv, decode_put_packet
    <2>2. PICK e : e = v[Len(queue)] + pkt.n
      OBVIOUS
    <2>3. e \in 0..U
      BY <1>2, <2>1, <2>2 DEF Counted
    <2>4. queue \in Seq(Packet) /\ pkt \in Packet
      BY DEF DataTypes
    <2>5. Tally(queue, SizeOf, v, U) /\ v[Len(queue)] + SizeOf[pkt] <= e
      BY <2>2, <2>3, <2>4, Weights, <1>2 DEF Counted
    <2>6. PICK y : Tally(queue', SizeOf, y, U) /\ y[0] = v[0] /\ y[Len(queue')] = e
      <3>1. SizeOf \in [Packet -> Nat]
        BY Weights
      <3>2. \E y : Tally(Append(queue, pkt), SizeOf, y, U) /\ y[0] = v[0] /\ y[Len(Append(queue, pkt))] = e
        <4>1. U \in Nat /\ queue \in Seq(Packet) /\ pkt \in Packet /\ e \in 0..U
          BY <1>2, <2>3, <2>4
        <4>2. Tally(queue, SizeOf, v, U) /\ v[Len(queue)] + SizeOf[pkt] <= e
          BY <2>5
        <4> QED BY ONLY <3>1, <4>1, <4>2, TallyGrows
      <3> QED BY <1>4, <3>2
    <2>7. Tally(queue, SizeOf, y, U)' /\ Tally(ready, PicOf, w, U)'
      BY <1>1, <2>6 DEF Counted, Tally
    <2>8. Left' = Left
      BY <1>1 DEF Left
    <2>9. (y[Len(queue)] + (IF pkt_done THEN 0 ELSE pkt.n) <= U)'
      BY <1>4, <2>3, <2>6
    <2>10. Counted(w, y, U)'
      BY <1>1, <1>2, <2>6, <2>7, <2>8, <2>9 DEF Counted
    <2> QED BY <2>10
  <1> QED BY <1>3, <1>4 DEF decode_put_packet

LEMMA CountGet ==
    ASSUME DataTypes, HandInv, decode_get_frame, UNCHANGED optVars, Len(file) \in Nat,
           NEW U, NEW w, NEW v, Counted(w, v, U)
    PROVE  \E x, y : Counted(x, y, U)'
  <1>1. UNCHANGED <<file, pkt, pkt_done, decoding, queue>>
    BY DEF decode_get_frame, sourceVars
  <1>2. U \in Nat /\ w[0] \in 0..U /\ PicOf[frame] \in {0, 1} /\ PicOf[frame] = (IF frame.kind = "picture" THEN 1 ELSE 0)
    BY CountTypes
  <1>3. PicOf[frame] = 0
    <2>1. frame.kind \in {"none", "info"}
      BY DEF HandInv, SimplePcs, decode_get_frame
    <2> QED BY <1>2, <2>1
  <1>4. CASE a_frame
    <2>1. ready # <<>> /\ frame' = Head(ready) /\ ready' = Tail(ready)
      BY <1>4 DEF a_frame
    <2>2. ready \in Seq(FrameKind) /\ Tally(ready, PicOf, w, U)
      BY DEF DataTypes, Counted
    <2>3. /\ w[0] \in 0..U /\ w[1] \in 0..U /\ w[0] + PicOf[Head(ready)] <= w[1]
          /\ \E y : Tally(Tail(ready), PicOf, y, U) /\ y[0] = w[1] /\ y[Len(Tail(ready))] = w[Len(ready)]
      <3>1. PicOf \in [FrameKind -> Nat]
        BY Weights
      <3>2. U \in Nat /\ ready \in Seq(FrameKind) /\ ready # <<>>
        BY <1>2, <2>1, <2>2
      <3>3. Tally(ready, PicOf, w, U)
        BY <2>2
      <3> QED BY ONLY <3>1, <3>2, <3>3, TallyShrinks
    <2>4. PICK x : Tally(ready', PicOf, x, U) /\ x[0] = w[1] /\ x[Len(ready')] = w[Len(ready)]
      BY <2>1, <2>3
    <2>5. Tally(ready, PicOf, x, U)' /\ Tally(queue, SizeOf, v, U)'
      BY <1>1, <2>4 DEF Counted, Tally
    <2>6. Left' = Left
      BY <1>1 DEF Left
    <2>7. PicOf[frame'] \in Nat
      <3>1. frame' \in FrameKind
        BY <2>1, <2>2, QueueGives
      <3> QED BY <3>1, Weights
    <2>8. Len(file') + PicOf[frame'] <= x[0]
      <3>1. Len(file) <= w[0]
        BY <1>3 DEF Counted
      <3>2. w[0] + PicOf[frame'] <= x[0] /\ x[0] \in 0..U
        BY <2>1, <2>3, <2>4
      <3> QED BY <1>1, <1>2, <2>7, <3>1, <3>2
    <2>9. (x[Len(ready)] + Left <= v[0])' /\ (v[Len(queue)] + (IF pkt_done THEN 0 ELSE pkt.n) <= U)'
      BY <1>1, <2>4, <2>6 DEF Counted
    <2>10. Counted(x, v, U)'
      BY <1>2, <2>5, <2>8, <2>9 DEF Counted
    <2> QED BY <2>10
  <1>5. CASE no_frame \/ timed_out \/ no_more
    <2>1. ready' = ready /\ (frame' = NoFrame \/ frame' = frame)
      BY <1>5 DEF no_frame, timed_out, no_more
    <2>2. PicOf[NoFrame] = 0
      <3>1. NoFrame \in FrameKind /\ NoFrame.kind = "none"
        BY DEF NoFrame, FrameKind
      <3> QED BY <3>1, Weights
    <2>3. PicOf[frame'] = 0
      BY <1>3, <2>1, <2>2
    <2>4. v[Len(queue)] + (IF pkt_done' THEN 0 ELSE pkt'.n) <= U
      BY <1>1 DEF Counted
    <2>5. Len(file') + PicOf[frame'] <= Len(file) + PicOf[frame] /\ Len(file') + PicOf[frame'] \in Nat
      BY <1>1, <1>3, <2>3
    <2>6. Counted(w, v, U)'
      BY <1>1, <1>2, <2>1, <2>4, <2>5, CountKept
    <2> QED BY <2>6
  <1> QED BY <1>4, <1>5 DEF decode_get_frame

LEMMA CountUse ==
    ASSUME DataTypes, use_frame, UNCHANGED optVars, file \in Seq(Nat),
           NEW U, NEW w, NEW v, Counted(w, v, U)
    PROVE  /\ Counted(w, v, U)'
           /\ Len(file') \in Nat /\ (cmd.o # None => Len(file') <= U)
  <1>1. UNCHANGED <<pkt, pkt_done, queue, decoding, ready>> /\ frame' = NoFrame
    BY DEF use_frame, decoderVars
  <1>2. /\ U \in Nat /\ w[0] \in 0..U /\ v[Len(queue)] \in 0..U /\ PicOf[frame] \in {0, 1}
        /\ PicOf[frame] = (IF frame.kind = "picture" THEN 1 ELSE 0)
    BY CountTypes
  <1>3. PicOf[frame'] = 0
    <2>1. NoFrame \in FrameKind /\ NoFrame.kind = "none"
      BY DEF NoFrame, FrameKind
    <2> QED BY <1>1, <2>1, Weights
  <1>4. Len(file) \in Nat /\ Len(file') \in Nat /\ Len(file') <= Len(file) + PicOf[frame]
    <2>0. Len(file) \in Nat
      BY LenProperties
    <2>1. PICK q : q = frame.picture
      OBVIOUS
    <2>2. \/ file' = file \o <<q>> /\ frame.kind = "picture"
          \/ file' = file \o <<>>
      BY <2>1 DEF use_frame
    <2>3. CASE file' = file \o <<q>> /\ frame.kind = "picture"
      <3>1. Len(file') = Len(file) + 1
        BY <2>3
      <3> QED BY <1>2, <2>0, <2>3, <3>1
    <2>4. CASE file' = file \o <<>>
      <3>1. Len(file') = Len(file)
        BY <2>4
      <3> QED BY <1>2, <2>0, <3>1
    <2> QED BY <2>2, <2>3, <2>4
  <1>5. v[Len(queue)] + (IF pkt_done' THEN 0 ELSE pkt'.n) <= U
    BY <1>1 DEF Counted
  <1>6. Len(file') + PicOf[frame'] <= Len(file) + PicOf[frame] /\ Len(file') + PicOf[frame'] \in Nat
    BY <1>3, <1>4
  <1>7. Counted(w, v, U)'
    BY <1>1, <1>2, <1>4, <1>5, <1>6, CountKept
  <1>8. Len(file') <= U
    <2>1. Len(file) + PicOf[frame] <= w[0]
      BY DEF Counted
    <2> QED BY <1>2, <1>4, <2>1
  <1> QED BY <1>4, <1>7, <1>8

LEMMA CountSame ==
    ASSUME DataTypes, UNCHANGED <<file, frame, pkt, pkt_done, queue, decoding, ready>>, Len(file) \in Nat,
           NEW U, NEW w, NEW v, Counted(w, v, U)
    PROVE  Counted(w, v, U)'
  <1>1. U \in Nat /\ PicOf[frame] \in {0, 1}
    BY CountTypes
  <1>2. v[Len(queue)] + (IF pkt_done' THEN 0 ELSE pkt'.n) <= U
    BY DEF Counted
  <1>3. Len(file') + PicOf[frame'] <= Len(file) + PicOf[frame] /\ Len(file') + PicOf[frame'] \in Nat
    BY <1>1
  <1> QED BY <1>1, <1>2, <1>3, CountKept

LEMMA CountTake ==
    ASSUME DataTypes, take_packet, UNCHANGED <<file, frame, pkt, pkt_done>>,
           NEW U, NEW w, NEW v, Counted(w, v, U)
    PROVE  \E x, y : Counted(x, y, U)'
  <1>1. /\ queue # <<>> /\ queue' = Tail(queue) /\ ready' = ready /\ ~(decoding.next <= decoding.last)
        /\ decoding'.next = Head(queue).first /\ decoding'.last = Head(queue).first + Head(queue).n - 1
    BY DEF take_packet, MoreToDo
  <1>2. /\ U \in Nat /\ w[Len(ready)] \in 0..U
    BY CountTypes
  <1>3. queue \in Seq(Packet) /\ Tally(queue, SizeOf, v, U)
    BY DEF DataTypes, Counted
  <1>4. Head(queue) \in Packet /\ SizeOf[Head(queue)] = Head(queue).n /\ SizeOf \in [Packet -> Nat]
    BY <1>1, <1>3, QueueGives, Weights
  <1>5. /\ v[0] \in 0..U /\ v[1] \in 0..U /\ v[0] + SizeOf[Head(queue)] <= v[1]
        /\ \E y : Tally(Tail(queue), SizeOf, y, U) /\ y[0] = v[1] /\ y[Len(Tail(queue))] = v[Len(queue)]
    <2>1. U \in Nat /\ queue \in Seq(Packet) /\ queue # <<>> /\ SizeOf \in [Packet -> Nat]
      BY <1>1, <1>2, <1>3, <1>4
    <2>2. Tally(queue, SizeOf, v, U)
      BY <1>3
    <2> QED BY ONLY <2>1, <2>2, TallyShrinks
  <1>6. PICK y : Tally(queue', SizeOf, y, U) /\ y[0] = v[1] /\ y[Len(queue')] = v[Len(queue)]
    BY <1>1, <1>5
  <1>7. Tally(queue, SizeOf, y, U)' /\ Tally(ready, PicOf, w, U)'
    BY <1>1, <1>6 DEF Counted, Tally
  <1>8. Left = 0 /\ Left' = Head(queue).n
    BY <1>1, <1>4 DEF Left, Packet
  <1>9. w[Len(ready)] + Left' <= y[0]
    <2>1. w[Len(ready)] <= v[0]
      BY <1>2, <1>8 DEF Counted
    <2>2. Head(queue).n \in Nat
      BY <1>4 DEF Packet
    <2> QED BY <1>2, <1>4, <1>5, <1>6, <1>8, <2>1, <2>2, SMTT(30)
  <1>10. Counted(w, y, U)'
    BY <1>1, <1>2, <1>6, <1>7, <1>9 DEF Counted
  <1> QED BY <1>10

LEMMA CountMakes ==
    ASSUME DataTypes, UNCHANGED <<file, frame, pkt, pkt_done, queue>>,
           NEW U, NEW w, NEW v, Counted(w, v, U),
           NEW f \in FrameKind, ready' = Append(ready, f), PicOf[f] + Left' = Left, Left' \in Nat
    PROVE  \E x, y : Counted(x, y, U)'
  <1>1. U \in Nat /\ w[Len(ready)] \in 0..U /\ v[0] \in 0..U
    BY CountTypes
  <1>2. PICK e : e = w[Len(ready)] + PicOf[f]
    OBVIOUS
  <1>3. PicOf[f] \in Nat /\ PicOf \in [FrameKind -> Nat]
    BY Weights
  <1>4. e \in 0..U /\ e + Left' <= v[0]
    <2>1. w[Len(ready)] + Left <= v[0]
      BY DEF Counted
    <2>2. PICK rest \in Nat, pic \in Nat, at \in 0..U, to \in 0..U :
             rest = Left' /\ pic = PicOf[f] /\ at = w[Len(ready)] /\ to = v[0]
      BY <1>1, <1>3
    <2>3. at + (pic + rest) <= to /\ e = at + pic
      BY <1>2, <2>1, <2>2
    <2>4. e \in 0..U /\ e + rest <= to
      BY <1>1, <2>3
    <2> QED BY <2>2, <2>4
  <1>5. ready \in Seq(FrameKind) /\ Tally(ready, PicOf, w, U) /\ w[Len(ready)] + PicOf[f] <= e
    BY <1>2, <1>4 DEF DataTypes, Counted
  <1>6. \E x : Tally(Append(ready, f), PicOf, x, U) /\ x[0] = w[0] /\ x[Len(Append(ready, f))] = e
    <2>1. U \in Nat /\ ready \in Seq(FrameKind) /\ f \in FrameKind /\ e \in 0..U /\ PicOf \in [FrameKind -> Nat]
      BY <1>1, <1>3, <1>4, <1>5
    <2>2. Tally(ready, PicOf, w, U) /\ w[Len(ready)] + PicOf[f] <= e
      BY <1>5
    <2> QED BY ONLY <2>1, <2>2, TallyGrows
  <1>7. PICK x : Tally(ready', PicOf, x, U) /\ x[0] = w[0] /\ x[Len(ready')] = e
    BY <1>6
  <1>8. Tally(ready, PicOf, x, U)' /\ Tally(queue, SizeOf, v, U)'
    BY <1>7 DEF Counted, Tally
  <1>9. Counted(x, v, U)'
    BY <1>1, <1>4, <1>7, <1>8 DEF Counted
  <1> QED BY <1>9

LEMMA CountDecoder ==
    ASSUME DataTypes, SimpleDecoder, NEW U, NEW w, NEW v, Counted(w, v, U)
    PROVE  \E x, y : Counted(x, y, U)'
  <1>1. UNCHANGED <<file, frame, pkt, pkt_done>>
    BY DEF SimpleDecoder, shared, callVars
  <1>2. decoding \in Work /\ decoding.next \in Nat /\ decoding.last \in Nat /\ Left \in Nat
    BY CountTypes DEF DataTypes, Work
  <1>3. CASE take_packet
    BY <1>1, <1>3, CountTake
  <1>4. CASE ask_for_buffers
    <2>1. queue' = queue /\ decoding' = decoding /\ ready' = Append(ready, Frame("info", 0, FALSE))
      BY <1>4 DEF ask_for_buffers
    <2>2. PICK f \in FrameKind : f = Frame("info", 0, FALSE)
      BY DEF Frame, FrameKind
    <2>3. PicOf[f] = 0
      <3>1. f.kind = "info"
        BY <2>2 DEF Frame
      <3> QED BY <3>1, Weights
    <2>4. Left' = Left
      BY <2>1 DEF Left
    <2>5. PicOf[f] + Left' = Left /\ Left' \in Nat
      BY <1>2, <2>3, <2>4
    <2>6. ready' = Append(ready, f) /\ queue' = queue
      BY <2>1, <2>2
    <2> QED BY <1>1, <2>5, <2>6, CountMakes
  <1>5. CASE decode_picture
    <2>1. PICK marked \in BOOLEAN :
             /\ ready' = Append(ready, Frame("picture", decoding.next, marked))
             /\ decoding' = [decoding EXCEPT !.next = @ + 1, !.eos = @ /\ ~marked]
      BY <1>5 DEF decode_picture
    <2>2. queue' = queue /\ decoding.next <= decoding.last
      BY <1>5 DEF decode_picture
    <2>3. decoding'.next = decoding.next + 1 /\ decoding'.last = decoding.last
      BY <1>2, <2>1 DEF Work
    <2>4. Left' \in Nat /\ 1 + Left' = Left
      BY <1>2, <2>2, <2>3 DEF Left
    <2>5. PICK f \in FrameKind : f = Frame("picture", decoding.next, marked)
      BY <1>2 DEF Frame, FrameKind
    <2>6. PicOf[f] = 1
      <3>1. f.kind = "picture"
        BY <2>5 DEF Frame
      <3> QED BY <3>1, Weights
    <2>7. ready' = Append(ready, f)
      BY <2>1, <2>5
    <2> QED BY <1>1, <2>2, <2>4, <2>6, <2>7, CountMakes
  <1>6. CASE decode_end
    <2>1. /\ queue' = queue /\ decoding' = Idle /\ ready' = Append(ready, Frame("empty", 0, TRUE))
          /\ decoding.next > decoding.last
      BY <1>6 DEF decode_end
    <2>2. PICK f \in FrameKind : f = Frame("empty", 0, TRUE)
      BY DEF Frame, FrameKind
    <2>3. PicOf[f] = 0
      <3>1. f.kind = "empty"
        BY <2>2 DEF Frame
      <3> QED BY <3>1, Weights
    <2>4. Left = 0 /\ Left' = 0
      BY <1>2, <2>1 DEF Left, Idle
    <2>5. PicOf[f] + Left' = Left /\ Left' \in Nat
      BY <1>2, <2>3, <2>4
    <2>6. ready' = Append(ready, f) /\ queue' = queue
      BY <2>1, <2>2
    <2> QED BY <1>1, <2>5, <2>6, CountMakes
  <1> QED BY <1>3, <1>4, <1>5, <1>6 DEF SimpleDecoder

-----------------------------------------------------------------------------
(* What the output may grow to.  decode_advanced writes one picture a      *)
(* turn, and has two turns: the first reads the file, the second its end.  *)

OutputInv ==
    /\ file \in Seq(0..stream.size) /\ Len(file) <= 1 + (Rewinds + 1) * stream.size
    /\ pc \in Early => file = <<Old>>
    /\ pc \in {"setup"} \cup AdvancedPcs /\ ~Simple => stream.size \in {0, 1}
    /\ "pkt_buf" \in held => stream.size > 0
    /\ pc \in AdvancedPcs /\ cmd.o # None =>
           IF pc = "read" THEN ~eos /\ Len(file) <= src
                          ELSE src = stream.size /\ Len(file) <= (IF eos THEN 1 ELSE 0)

LEMMA MoreLaps ==
    ASSUME NEW a \in Nat, NEW b \in Nat, NEW c \in Nat, a <= b
    PROVE  a * c <= b * c /\ a * c \in Nat
  <1>1. PICK d \in Nat : b = a + d
    <2>1. b - a \in Nat /\ b = a + (b - a)
      OBVIOUS
    <2> QED BY <2>1
  <1>2. b * c = a * c + d * c
    BY <1>1
  <1>3. a * c \in Nat /\ d * c \in Nat
    OBVIOUS
  <1> QED BY <1>2, <1>3

LEMMA LapsBound ==
    ASSUME DataTypes, PlainInv
    PROVE  Laps \in Nat /\ Laps <= (Rewinds + 1) * stream.size /\ (Rewinds + 1) * stream.size \in Nat
  <1>1. rewinds \in Nat /\ rewinds <= Rewinds /\ Rewinds \in Nat /\ stream.size \in Nat /\ src \in 0..stream.size
    BY DecoderAssumption DEF DataTypes, PlainInv
  <1>2. PICK all \in Nat, most \in Nat : all = rewinds * stream.size /\ most = Rewinds * stream.size
    BY <1>1, Distributes
  <1>3. all <= most
    BY <1>1, <1>2, MoreLaps
  <1>4. (Rewinds + 1) * stream.size = most + stream.size
    BY <1>1, <1>2, Distributes
  <1>5. Laps = all + src
    BY <1>2 DEF Laps
  <1> QED BY <1>1, <1>3, <1>4, <1>5

LEMMA OutputInit == Init => OutputInv /\ CountInv
  <1> SUFFICES ASSUME Init PROVE OutputInv /\ CountInv
    OBVIOUS
  <1>1. pc = "options" /\ file = <<0>> /\ held = {} /\ stream.size = 0
    BY DEF Init, OptionsInit, SimpleInit, NoStream, Old
  <1>2. file \in Seq(0..stream.size) /\ Len(file) = 1
    BY <1>1
  <1>3. (Rewinds + 1) * stream.size = 0
    BY <1>1, DecoderAssumption
  <1>4. Len(file) <= 1 + (Rewinds + 1) * stream.size
    BY <1>2, <1>3
  <1> QED BY <1>1, <1>2, <1>4 DEF OutputInv, CountInv, Early, AdvancedPcs, SimplePcs, Old

LEMMA OutputStart ==
    ASSUME HoldInv, DataTypes, DataTypes', OutputInv, mpp_jpg2yuv
    PROVE  OutputInv'
  <1>1. pc = "parsed" /\ file = <<0>> /\ held = {} /\ pc' \in {"setup", "done"} /\ UNCHANGED <<file, held, cmd>>
    BY DEF mpp_jpg2yuv, optVars, OutputInv, HoldInv, Early, Old
  <1>2. stream'.size \in Nat /\ Rewinds \in Nat
    BY DecoderAssumption DEF DataTypes
  <1>3. file' \in Seq(0..stream'.size) /\ Len(file') = 1
    BY <1>1, <1>2
  <1>4. (Rewinds + 1) * stream'.size \in Nat
    BY <1>2
  <1>5. Len(file') <= 1 + (Rewinds + 1) * stream'.size
    <2>1. PICK most \in Nat : most = (Rewinds + 1) * stream'.size
      BY <1>4
    <2> QED BY <1>3, <2>1
  <1>6. pc' = "setup" /\ ~Simple => stream'.size \in {0, 1}
    BY DEF mpp_jpg2yuv, NoStream
  <1>7. Simple' = Simple
    BY <1>1, CmdKept
  <1> QED BY <1>1, <1>3, <1>5, <1>6, <1>7 DEF OutputInv, Early, AdvancedPcs

LEMMA OutputSetup ==
    ASSUME HoldInv, DataTypes, FreshInv, EmptyInv, OutputInv, open_input \/ open_output \/ get_buffers
    PROVE  OutputInv'
  <1>1. /\ pc = "setup" /\ pc' \in {"setup", "release", "packet", "read"} /\ UNCHANGED <<stream, eos, src, cmd>>
        /\ file' = file \/ file' = <<>>
    BY DEF open_input, open_output, get_buffers, Acquires, Out, still, simpleVars, sourceVars, optVars
  <1>2. src \in Nat /\ stream.size \in Nat /\ Rewinds \in Nat /\ eos = FALSE
    BY <1>1, DecoderAssumption DEF DataTypes, FreshInv
  <1>3. PICK most \in Nat : most = (Rewinds + 1) * stream.size
    BY <1>2
  <1>4. file' \in Seq(0..stream'.size) /\ Len(file') <= 1 + (Rewinds + 1) * stream'.size
    <2>1. CASE file' = file
      BY <1>1, <2>1 DEF OutputInv
    <2>2. CASE file' = <<>>
      <3>1. file' \in Seq(0..stream'.size) /\ Len(file') = 0
        BY <2>2
      <3> QED BY <1>1, <1>3, <3>1
    <2> QED BY <1>1, <2>1, <2>2
  <1>5. Simple' = Simple
    BY <1>1, CmdKept
  <1>6. "pkt_buf" \in held' => stream'.size > 0
    <2> SUFFICES ASSUME "pkt_buf" \in held' PROVE stream.size > 0
      BY <1>1
    <2>1. CASE "pkt_buf" \in held
      BY <2>1 DEF OutputInv
    <2>2. CASE "pkt_buf" \notin held
      <3>1. CASE open_input \/ open_output
        BY <2>2, <3>1 DEF open_input, open_output, Acquires
      <3>2. CASE get_buffers
        <4>1. Acquires(Gains(Setup[step])) /\ ~(Setup[step] = "pkt_buf" /\ stream.size = 0)
          BY <2>2, <3>2 DEF get_buffers
        <4>2. "pkt_buf" \in Gains(Setup[step])
          BY <2>2, <4>1 DEF Acquires
        <4>3. Setup[step] = "pkt_buf"
          BY <4>2, GainsAre
        <4> QED BY <1>2, <4>1, <4>3
      <3> QED BY <3>1, <3>2
    <2> QED BY <2>1, <2>2
  <1>7. pc' = "read" /\ cmd'.o # None => Len(file') <= src'
    <2> SUFFICES ASSUME pc' = "read", cmd.o # None PROVE Len(file') <= src'
      BY <1>1
    <2>1. file' = <<>>
      BY EmptySetup
    <2>2. Len(file') = 0
      BY <2>1
    <2> QED BY <1>1, <1>2, <2>2
  <1> QED BY <1>1, <1>2, <1>4, <1>5, <1>6, <1>7 DEF OutputInv, Early, AdvancedPcs

LEMMA OutputAdvanced ==
    ASSUME HoldInv, DataTypes, OutputInv,
           read \/ put_poll \/ put_dequeue \/ put_enqueue \/ get_poll \/ get_dequeue \/ write
    PROVE  OutputInv'
  <1>1. pc \in AdvancedPcs /\ UNCHANGED <<stream, held, cmd>> /\ pc' \in AdvancedPcs \cup {"query"}
    BY DEF read, put_poll, put_dequeue, put_enqueue, get_poll, get_dequeue, write, Goes, Returns,
           Again, AdvancedPcs, Rest, Io, optVars
  <1>2. ~Simple /\ Simple' = Simple
    BY <1>1, CmdKept DEF HoldInv
  <1>3. "pkt_buf" \in held
    <2>1. Has(Setup, "pkt_buf") /\ Acquired(Len(Setup))
      BY <1>1, <1>2, SetupFacts DEF HoldInv, LoopPcs
    <2>2. "pkt_buf" \in Gains("pkt_buf")
      BY GainsAre
    <2> QED BY <2>1, <2>2 DEF Has, Acquired
  <1>4. stream.size = 1
    BY <1>1, <1>2, <1>3 DEF OutputInv
  <1>5. file \in Seq(0..1) /\ Len(file) \in Nat /\ src \in 0..1 /\ eos \in BOOLEAN
    BY <1>4, LenProperties DEF OutputInv, DataTypes
  <1>6. PICK most \in Nat : most = (Rewinds + 1) * stream.size /\ most >= 1
    <2>1. (Rewinds + 1) * 1 = Rewinds + 1 /\ Rewinds \in Nat
      BY DecoderAssumption
    <2> QED BY <1>4, <2>1
  <1>7. Len(file) <= 1 + most
    BY <1>6 DEF OutputInv
  <1>8. CASE read
    <2>1. pc = "read" /\ pc' = "put_poll" /\ file' = file /\ src' = stream.size /\ eos' = (src = stream.size)
      BY <1>8 DEF read, Goes, Rest
    <2>2. cmd.o # None => Len(file) <= src
      BY <1>1, <2>1 DEF OutputInv
    <2>3. cmd.o # None => Len(file) <= (IF eos' THEN 1 ELSE 0)
      <3>1. CASE src = 1
        <4>1. eos'
          BY <1>4, <2>1, <3>1
        <4> QED BY <1>5, <2>2, <3>1, <4>1
      <3>2. CASE src = 0
        BY <1>5, <2>2, <3>2
      <3> QED BY <1>5, <3>1, <3>2
    <2> QED BY <1>1, <1>2, <1>4, <1>5, <1>6, <1>7, <2>1, <2>3 DEF OutputInv, Early, AdvancedPcs
  <1>9. CASE put_poll \/ put_dequeue \/ put_enqueue \/ get_poll \/ get_dequeue \/ write
    <2>1. pc # "read" /\ UNCHANGED <<eos, src>> /\ (pc' \in AdvancedPcs \ {"read"} \/ pc' = Again)
      BY <1>9 DEF put_poll, put_dequeue, put_enqueue, get_poll, get_dequeue, write, Returns, AdvancedPcs, Io
    <2>2. cmd.o # None => src = 1 /\ Len(file) <= (IF eos THEN 1 ELSE 0)
      BY <1>1, <1>4, <2>1 DEF OutputInv
    <2>3. pc' = "read" => ~eos'
      BY <2>1 DEF Again
    <2>4. CASE file' = file
      <3>1. cmd.o # None => Len(file) <= 1
        BY <1>5, <2>2
      <3> QED BY <1>1, <1>2, <1>4, <1>5, <1>6, <1>7, <2>1, <2>2, <2>3, <2>4, <3>1 DEF OutputInv, Early, AdvancedPcs
    <2>5. CASE file' # file
      <3>1. write
        BY <1>9, <2>5 DEF put_poll, put_dequeue, put_enqueue, get_poll, get_dequeue, Rest, Io
      <3>2. file' = file \o Dumped /\ pc' = Again
        BY <3>1 DEF write, Returns
      <3>3. Dumped = <<1>> /\ cmd.o # None
        <4>1. Dumped = <<>> => file' = file
          BY <1>5, <3>2, ConcatEmptySeq
        <4> QED BY <2>5, <4>1 DEF Dumped, Picture
      <3>4. file' = Append(file, 1)
        BY <1>5, <3>2, <3>3, AppendIsConcat
      <3>5. file' \in Seq(0..1) /\ Len(file') = Len(file) + 1
        BY <1>5, <3>4, QueueTakes
      <3>6. pc' = "query" \/ (pc' = "read" /\ ~eos)
        BY <3>2 DEF Again
      <3>7. Len(file') <= 2 /\ (~eos => Len(file') <= src)
        BY <1>5, <2>2, <3>3, <3>5
      <3> QED BY <1>1, <1>2, <1>4, <1>5, <1>6, <2>1, <2>3, <3>5, <3>6, <3>7 DEF OutputInv, Early, AdvancedPcs
    <2> QED BY <2>4, <2>5
  <1> QED BY <1>8, <1>9

LEMMA OutputSimple ==
    ASSUME HoldInv, DataTypes, PlainInv, RangeInv, CountInv, OutputInv, SimpleStep, UNCHANGED optVars
    PROVE  OutputInv'
  <1>1. Simple /\ pc \in SimplePcs /\ pc' \in SimplePcs \cup {"query"} /\ UNCHANGED <<stream, cmd>>
    BY AfterFrameGoes DEF SimpleStep, read_packet, decode_put_packet, decode_get_frame, a_frame, no_frame,
       timed_out, no_more, info_change, use_frame, end_turn, HoldInv, SimplePcs, sourceVars, optVars
  <1>2. "pkt_buf" \in held' => "pkt_buf" \in held
    <2>1. CASE info_change
      BY <2>1 DEF info_change
    <2>2. CASE read_packet \/ decode_put_packet \/ decode_get_frame \/ use_frame \/ end_turn
      BY <2>2 DEF read_packet, decode_put_packet, decode_get_frame, a_frame, no_frame, timed_out, no_more,
         use_frame, end_turn, shared
    <2> QED BY <2>1, <2>2 DEF SimpleStep
  <1>3. stream.size \in Nat /\ file \in Seq(0..stream.size) /\ file \in Seq(Nat) /\ Len(file) \in Nat
    <2>1. stream.size \in Nat /\ file \in Seq(0..stream.size) /\ Len(file) \in Nat
      BY LenProperties DEF DataTypes, OutputInv
    <2>2. \A i \in 1..Len(file) : file[i] \in Nat
      BY <2>1, ElementOfSeq
    <2> QED BY <2>1, <2>2
  <1>4. CASE file' = file
    BY <1>1, <1>2, <1>3, <1>4 DEF OutputInv, Early, AdvancedPcs, SimplePcs
  <1>5. CASE file' # file
    <2>1. use_frame
      BY <1>5 DEF SimpleStep, read_packet, decode_put_packet, decode_get_frame, info_change, end_turn, shared
    <2>2. file' = file \o <<frame.picture>> /\ cmd.o # None
      <3>1. file' = file \o <<>> => file' = file
        BY <1>3, ConcatEmptySeq
      <3> QED BY <1>5, <2>1, <3>1 DEF use_frame
    <2>3. frame.picture \in 0..stream.size
      BY <1>3 DEF RangeInv, Shot, FrameKind
    <2>4. file' \in Seq(0..stream.size)
      BY <1>3, <2>2, <2>3, AppendIsConcat, QueueTakes
    <2>5. PICK w, v : Counted(w, v, Laps)
      BY <1>1, <2>2 DEF CountInv
    <2>6. Len(file') \in Nat /\ Len(file') <= Laps
      BY <1>3, <2>1, <2>2, <2>5, CountUse
    <2>7. Len(file') <= 1 + (Rewinds + 1) * stream.size
      <3>1. PICK most \in Nat, laps \in Nat : most = (Rewinds + 1) * stream.size /\ laps = Laps /\ laps <= most
        BY LapsBound
      <3> QED BY <2>6, <3>1
    <2> QED BY <1>1, <1>2, <2>4, <2>7 DEF OutputInv, Early, AdvancedPcs, SimplePcs
  <1> QED BY <1>4, <1>5

LEMMA OutputNext ==
    ASSUME HoldInv, DataTypes, DataTypes', FreshInv, EmptyInv, PlainInv, RangeInv, CountInv, OutputInv, [Next]_vars
    PROVE  OutputInv'
  <1>1. CASE mpp_jpg2yuv
    BY <1>1, OutputStart
  <1>2. CASE open_input \/ open_output \/ get_buffers
    BY <1>2, OutputSetup
  <1>3. CASE read \/ put_poll \/ put_dequeue \/ put_enqueue \/ get_poll \/ get_dequeue \/ write
    BY <1>3, OutputAdvanced
  <1>4. CASE SimpleStep /\ UNCHANGED <<optVars, may, advancedVars>>
    BY <1>4, OutputSimple
  <1>5. CASE ParseStep /\ UNCHANGED <<may, shared, eos, simpleVars, advancedVars>>
    <2>1. pc \in Early /\ pc' \in Early
      BY <1>5 DEF ParseStep, skip_word, end_of_options, take_option, stop_parsing, all_parsed, Early
    <2>2. UNCHANGED <<file, held, stream>>
      BY <1>5 DEF shared, simpleVars, sourceVars
    <2> QED BY <2>1, <2>2 DEF OutputInv, Early, AdvancedPcs
  <1>6. CASE query \/ release
    <2>1. pc' \in {"release", "done"} /\ UNCHANGED <<file, stream>> /\ held' \subseteq held
      BY <1>6 DEF query, release, Out, Released, sourceVars
    <2> QED BY <2>1 DEF OutputInv, Early, AdvancedPcs
  <1>7. CASE Decoder \/ UNCHANGED vars
    <2>1. UNCHANGED <<pc, file, held, stream, cmd, eos, src>>
      BY <1>7 DEF Decoder, take, decode, SimpleDecoder, vars, Io, Rest, shared, simpleVars, sourceVars, optVars
    <2>2. Simple' = Simple
      BY <2>1, CmdKept
    <2> QED BY <2>1, <2>2 DEF OutputInv
  <1> QED BY <1>1, <1>2, <1>3, <1>4, <1>5, <1>6, <1>7 DEF Next, Thread

LEMMA CountNext ==
    ASSUME HoldInv, DataTypes, DataTypes', FreshInv, EmptyInv, HandInv, PlainInv, PlainInv', OutputInv, CountInv,
           [Next]_vars
    PROVE  CountInv'
  <1> SUFFICES ASSUME Simple', pc' \in SimplePcs, cmd'.o # None PROVE \E x, y : Counted(x, y, Laps)'
    BY DEF CountInv
  <1>1. file \in Seq(Nat) /\ Len(file) \in Nat
    <2>1. stream.size \in Nat /\ file \in Seq(0..stream.size) /\ Len(file) \in Nat
      BY LenProperties DEF DataTypes, OutputInv
    <2>2. \A i \in 1..Len(file) : file[i] \in Nat
      BY <2>1, ElementOfSeq
    <2> QED BY <2>1, <2>2
  <1>2. CASE \/ ParseStep /\ UNCHANGED <<may, shared, eos, simpleVars, advancedVars>>
             \/ mpp_jpg2yuv \/ query \/ release
    BY <1>2 DEF ParseStep, skip_word, end_of_options, take_option, stop_parsing, all_parsed, mpp_jpg2yuv,
       query, release, Out, Released, SimplePcs
  <1>3. CASE open_input \/ open_output \/ get_buffers
    <2>1. /\ pc = "setup" /\ pc' \in {"setup", "release", "packet", "read"} /\ UNCHANGED flowVars
          /\ src' = src /\ cmd' = cmd
      BY <1>3 DEF open_input, open_output, get_buffers, Acquires, Out, still, simpleVars, sourceVars,
         callVars, decoderVars, flowVars, optVars
    <2>2. pc' = "packet"
      BY <2>1 DEF SimplePcs
    <2>3. Fresh'
      BY <2>1, FreshKept DEF FreshInv
    <2>4. file' = <<>>
      BY <1>3, <2>1, <2>2, EmptySetup
    <2>5. Laps' \in Nat
      <3>1. rewinds' \in Nat /\ stream'.size \in Nat /\ src' \in Nat
        BY DecoderAssumption DEF PlainInv, DataTypes
      <3>2. rewinds' * stream'.size \in Nat
        BY <3>1, MoreLaps
      <3> QED BY <3>1, <3>2 DEF Laps
    <2> QED BY <2>3, <2>4, <2>5, CountEnter
  <1>4. CASE read \/ put_poll \/ put_dequeue \/ put_enqueue \/ get_poll \/ get_dequeue \/ write
    <2>1. pc \in AdvancedPcs /\ cmd' = cmd
      BY <1>4 DEF read, put_poll, put_dequeue, put_enqueue, get_poll, get_dequeue, write, Goes, Rest, Io,
             AdvancedPcs, optVars
    <2> QED BY <2>1, CmdKept DEF HoldInv
  <1>5. CASE SimpleStep /\ UNCHANGED <<optVars, may, advancedVars>>
    <2>1. Simple /\ pc \in SimplePcs /\ cmd' = cmd /\ UNCHANGED optVars
      BY <1>5 DEF SimpleStep, read_packet, decode_put_packet, decode_get_frame, info_change, use_frame,
         end_turn, HoldInv, SimplePcs, optVars
    <2>2. PICK w, v : Counted(w, v, Laps)
      BY <2>1 DEF CountInv
    <2>3. PICK U : U = Laps
      OBVIOUS
    <2>4. CASE read_packet
      BY <1>1, <2>1, <2>2, <2>3, <2>4, CountRead
    <2>5. CASE ~read_packet
      <3>1. Laps' = Laps
        BY <1>5, <2>5 DEF SimpleStep, decode_put_packet, decode_get_frame, info_change, use_frame, end_turn,
           sourceVars, Laps
      <3>2. \E x, y : Counted(x, y, U)'
        <4>1. CASE decode_put_packet
          BY <1>1, <2>1, <2>2, <2>3, <4>1, CountPut
        <4>2. CASE decode_get_frame
          BY <1>1, <2>1, <2>2, <2>3, <4>2, CountGet
        <4>3. CASE use_frame
          BY <1>1, <2>1, <2>2, <2>3, <4>3, CountUse
        <4>4. CASE info_change \/ end_turn
          <5>1. UNCHANGED <<file, frame, pkt, pkt_done, queue, decoding, ready>>
            BY <4>4 DEF info_change, end_turn, shared, callVars, decoderVars
          <5> QED BY <1>1, <2>2, <2>3, <5>1, CountSame
        <4> QED BY <1>5, <2>5, <4>1, <4>2, <4>3, <4>4 DEF SimpleStep
      <3> QED BY <2>3, <3>1, <3>2
    <2> QED BY <2>4, <2>5
  <1>6. CASE Decoder \/ UNCHANGED vars
    <2>1. UNCHANGED <<pc, cmd, stream, src, rewinds>>
      BY <1>6 DEF Decoder, take, decode, SimpleDecoder, vars, Io, Rest, simpleVars, sourceVars, optVars
    <2>2. Laps' = Laps /\ Simple
      BY <2>1, CmdKept DEF Laps
    <2>3. PICK w, v : Counted(w, v, Laps)
      BY <2>1, <2>2 DEF CountInv
    <2>4. PICK U : U = Laps
      OBVIOUS
    <2>5. \E x, y : Counted(x, y, U)'
      <3>1. CASE SimpleDecoder
        BY <2>3, <2>4, <3>1, CountDecoder
      <3>2. CASE take \/ decode \/ UNCHANGED vars
        <4>1. UNCHANGED <<file, frame, pkt, pkt_done, queue, decoding, ready>>
          BY <3>2 DEF take, decode, vars, Io, Rest, shared, simpleVars, callVars, decoderVars
        <4> QED BY <1>1, <2>3, <2>4, <4>1, CountSame
      <3> QED BY <1>6, <3>1, <3>2 DEF Decoder
    <2> QED BY <2>2, <2>4, <2>5
  <1> QED BY <1>2, <1>3, <1>4, <1>5, <1>6 DEF Next, Thread

TypesInv == DecodeInv /\ PlainInv /\ RangeInv /\ OutputInv /\ CountInv

(* One decoding keeps to its types for every command line, stream and set  *)
(* of failing calls: in particular the queue and the frames stay within    *)
(* the decoder's, no picture is past the end of the stream, and the output *)
(* holds no more pictures than were read, one lap after another.           *)
THEOREM DecodingTypes == Spec => []TypeOK
  <1>1. Init => TypesInv
    BY DecodeInit, PlainInit, OutputInit DEF TypesInv
  <1>2. TypesInv /\ [Next]_vars => TypesInv'
    <2> SUFFICES ASSUME TypesInv, [Next]_vars PROVE TypesInv'
      OBVIOUS
    <2>1. DecodeInv' /\ HoldInv /\ DataTypes /\ FreshInv /\ EmptyInv /\ HandInv
      BY DecodeNext DEF TypesInv, DecodeInv, FlowInv
    <2>2. DataTypes'
      BY <2>1 DEF DecodeInv
    <2>3. PlainInv'
      BY <2>1, PlainNext DEF TypesInv
    <2>4. RangeInv'
      BY <2>1, <2>2, RangeNext DEF TypesInv
    <2>5. OutputInv'
      BY <2>1, <2>2, OutputNext DEF TypesInv
    <2>6. CountInv'
      BY <2>1, <2>2, <2>3, CountNext DEF TypesInv
    <2> QED BY <2>1, <2>3, <2>4, <2>5, <2>6 DEF TypesInv
  <1>3. TypesInv => TypeOK
    <2> SUFFICES ASSUME TypesInv PROVE TypeOK
      OBVIOUS
    <2>1. HoldInv /\ DataTypes /\ PlainInv /\ RangeInv /\ OutputInv
      BY DEF TypesInv, DecodeInv
    <2>2. /\ cmd \in MpiDecTestCmd({None} \cup {argv[k].ext : k \in DOMAIN argv},
                           {0, BUTT, AVC, HEVC, MJPEG} \cup {argv[k].n : k \in DOMAIN argv})
          /\ pc \in Pcs /\ held \subseteq Resources
      BY <2>1 DEF DataTypes, CmdType, Names, Numbers, HoldInv
    <2>3. optindex \in 1..(Len(argv) + 2)
      <3>1. Len(argv) \in Nat /\ optindex \in Nat \ {0} /\ optindex <= Len(argv) + 2
        BY <2>1, LenProperties DEF DataTypes, PlainInv
      <3> QED BY <3>1
    <2>4. step \in 1..Len(Setup) \cup 1..Len(Release)
      BY <2>1, ReleaseFacts DEF PlainInv
    <2>5. line \in 0..(Len(stream.lines) + 1) /\ src \in 0..stream.size /\ eos \in BOOLEAN
      BY <2>1 DEF DataTypes, RangeInv
    <2>6. pkt.first \in 1..(stream.size + 1) /\ pkt.n \in 0..stream.size /\ pkt_done \in BOOLEAN
      <3>1. /\ pkt.first \in Nat \ {0} /\ pkt.n \in Nat /\ stream.size \in Nat
            /\ pkt.first <= stream.size + 1 /\ pkt.first + pkt.n - 1 <= stream.size
        BY <2>1 DEF DataTypes, RangeInv, Slice, Packet
      <3> QED BY <2>1, <3>1 DEF DataTypes
    <2>7. IsFrame(frame) /\ \A i \in DOMAIN ready : IsFrame(ready[i])
      <3>1. ASSUME NEW f \in FrameKind PROVE IsFrame(f)
        BY <3>1 DEF FrameKind, IsFrame
      <3>2. DOMAIN ready = 1..Len(ready) /\ \A i \in 1..Len(ready) : ready[i] \in FrameKind
        BY <2>1, LenProperties, ElementOfSeq DEF DataTypes
      <3> QED BY <2>1, <3>1, <3>2 DEF DataTypes
    <2>8. /\ err \in {"MPP_OK", "MPP_NOK", "help"} /\ may \in Scenarios \cup {{}} /\ ret \in {"ok", "error"}
          /\ times \in 0..Times /\ rewinds \in 0..Rewinds /\ asked \in {"no", "waiting", "given"}
          /\ packet \in {"picture", "nothing"} /\ image \in {"picture", "blank"}
          /\ in \in {"port", "user", "decoder", "lost"} /\ out \in {"port", "user", "ready", "lost"}
          /\ job \in {"picture", "nothing", "idle"}
      BY <2>1 DEF PlainInv
    <2>9. Len(queue) <= Queue /\ Len(ready) <= FrameBuffers
      BY <2>1 DEF RangeInv
    <2>10. file \in Seq(0..stream.size) /\ Len(file) <= 1 + (Rewinds + 1) * stream.size
      BY <2>1 DEF OutputInv
    <2> QED BY <2>2, <2>3, <2>4, <2>5, <2>6, <2>7, <2>8, <2>9, <2>10 DEF TypeOK
  <1> QED BY <1>1, <1>2, <1>3, PTL DEF Spec

-----------------------------------------------------------------------------
(* The command line. *)

AllKnown     == \A k \in Options : argv[k].c \in Known
IsLast(k, S) == k \in S /\ \A y \in S : y <= k

(* The options that say what is decoded.                                   *)
SaysType(k) == argv[k].c = "t" \/ argv[k + 1].ext \in Codings.AVC \cup Codings.HEVC \cup Codings.MJPEG
Typed       == {k \in Given({"i", "t"}) : SaysType(k)}

(* What was read so far is what the command says.                          *)
Understood ==
    /\ \A c \in {"d", "w", "h", "n", "x", "f"} :
          /\ Given({c}) = {} => cmd[c] = Defaults[c]
          /\ \A k : IsLast(k, Given({c})) => cmd[c] = argv[k + 1].n
    /\ \A c \in {"i", "o", "c"} :
          /\ Given({c}) = {} => cmd[c] = None
          /\ \A k : IsLast(k, Given({c})) => cmd[c] = argv[k + 1].ext
    /\ (cmd.pkt_size = Large) <=> Given({"c"}) # {}
    /\ \A k : IsLast(k, Typed) =>
          IF argv[k].c = "t" THEN cmd.t = argv[k + 1].n
          ELSE cmd.t = MJPEG <=> argv[k + 1].ext \in Codings.MJPEG

(* A line of known options is read in pairs.  Without a -t no error is     *)
(* taken for success.                                                      *)
ParseInv ==
    /\ pc \notin {"options", "parsed", "done"} => err = "MPP_OK"
    /\ AllKnown =>
        /\ Understood
        /\ pc = "options" =>
              /\ optindex % 2 = 1 /\ optindex <= Len(argv) + 1 /\ handleoptions
              /\ cmd.x >= 0
              /\ Given({"t"}) = {} => err # "MPP_OK"
        /\ pc # "options" /\ err = "MPP_OK" =>
              /\ Len(argv) % 2 = 0 => optindex > Len(argv) \/ cmd.x < 0
              /\ Given({"t"}) # {} \/ (Len(argv) % 2 = 0 /\ cmd.x >= 0)

LEMMA Greatest ==
    ASSUME NEW n \in Nat, NEW T \in SUBSET (1..n), T # {}
    PROVE  IsLast(Max(T), T)
  <1> DEFINE S == {n - x : x \in T}
  <1>1. S \in SUBSET Nat /\ S # {}
    <2>1. \A x \in T : x \in 1..n /\ n - x \in Nat
      OBVIOUS
    <2> QED BY <2>1
  <1>2. PICK y \in S : \A z \in S : y <= z
    BY <1>1, Least
  <1>3. PICK x \in T : y = n - x
    BY <1>2
  <1>4. ASSUME NEW z \in T PROVE z <= x
    <2>1. n - x <= n - z
      BY <1>2, <1>3, <1>4
    <2>2. x \in Nat /\ z \in Nat
      BY <1>3, <1>4
    <2> QED BY <2>1, <2>2
  <1>5. \A z \in T : x >= z
    BY <1>3, <1>4
  <1>6. Max(T) \in T /\ \A z \in T : Max(T) >= z
    BY <1>3, <1>5 DEF Max
  <1>7. \A z \in T : z <= Max(T)
    BY <1>6
  <1> QED BY <1>6, <1>7 DEF IsLast

LEMMA CodingsAre == Range(Codings) = {Codings.AVC, Codings.HEVC, Codings.MJPEG}
BY DEF Range, Codings

LEMMA TypeOfName ==
    ASSUME NEW name, NEW coding
    PROVE  IF name.ext \in Codings.AVC \cup Codings.HEVC \cup Codings.MJPEG
           THEN name_to_coding_type(name, coding) = MJPEG <=> name.ext \in Codings.MJPEG
           ELSE name_to_coding_type(name, coding) = coding
  <1>1. AVC # MJPEG /\ HEVC # MJPEG
    BY DEF AVC, HEVC, MJPEG, MppCodingType
  <1>2. /\ Codings.AVC = {"h264", "264", "avc"} /\ Codings.HEVC = {"h265", "265", "hevc"}
        /\ Codings.MJPEG = {"jpg", "jpeg", "mjpeg"}
    BY DEF Codings
  <1> QED BY <1>1, <1>2 DEF name_to_coding_type

LEMMA AssignedFields ==
    ASSUME NEW names, NEW numbers, cmd \in MpiDecTestCmd(names, numbers), NEW c \in Known, NEW next,
           NEW r, r = Assigned(c, next)
    PROVE  /\ r.d = (IF c = "d" THEN next.n ELSE cmd.d) /\ r.w = (IF c = "w" THEN next.n ELSE cmd.w)
           /\ r.h = (IF c = "h" THEN next.n ELSE cmd.h) /\ r.n = (IF c = "n" THEN next.n ELSE cmd.n)
           /\ r.x = (IF c = "x" THEN next.n ELSE cmd.x) /\ r.f = (IF c = "f" THEN next.n ELSE cmd.f)
           /\ r.i = (IF c = "i" THEN next.ext ELSE cmd.i) /\ r.o = (IF c = "o" THEN next.ext ELSE cmd.o)
           /\ r.c = (IF c = "c" THEN next.ext ELSE cmd.c)
           /\ r.pkt_size = (IF c = "c" THEN Large ELSE cmd.pkt_size)
           /\ r.t = (IF c = "t" THEN next.n ELSE IF c = "i" THEN name_to_coding_type(next, cmd.t) ELSE cmd.t)
  <1> DEFINE P(s) ==
           /\ s.d = (IF c = "d" THEN next.n ELSE cmd.d) /\ s.w = (IF c = "w" THEN next.n ELSE cmd.w)
           /\ s.h = (IF c = "h" THEN next.n ELSE cmd.h) /\ s.n = (IF c = "n" THEN next.n ELSE cmd.n)
           /\ s.x = (IF c = "x" THEN next.n ELSE cmd.x) /\ s.f = (IF c = "f" THEN next.n ELSE cmd.f)
           /\ s.i = (IF c = "i" THEN next.ext ELSE cmd.i) /\ s.o = (IF c = "o" THEN next.ext ELSE cmd.o)
           /\ s.c = (IF c = "c" THEN next.ext ELSE cmd.c)
           /\ s.pkt_size = (IF c = "c" THEN Large ELSE cmd.pkt_size)
           /\ s.t = (IF c = "t" THEN next.n ELSE IF c = "i" THEN name_to_coding_type(next, cmd.t) ELSE cmd.t)
  <1>1. CASE c = "i"
    <2>1. P([cmd EXCEPT !.i = next.ext, !.t = name_to_coding_type(next, cmd.t)])
      BY <1>1 DEF MpiDecTestCmd
    <2> QED BY <1>1, <2>1, AssignedIs
  <1>2. CASE c = "o"
    <2>1. P([cmd EXCEPT !.o = next.ext])
      BY <1>2 DEF MpiDecTestCmd
    <2> QED BY <1>2, <2>1, AssignedIs
  <1>3. CASE c = "c"
    <2>1. P([cmd EXCEPT !.c = next.ext, !.pkt_size = Large])
      BY <1>3 DEF MpiDecTestCmd, Large
    <2> QED BY <1>3, <2>1, AssignedIs
  <1>4. CASE c \notin {"i", "o", "c"}
    <2>1. c = "d" \/ c = "w" \/ c = "h" \/ c = "t" \/ c = "f" \/ c = "x" \/ c = "n"
      BY <1>4 DEF Known
    <2>2. Assigned(c, next) = [cmd EXCEPT ![c] = next.n]
      BY <1>4, AssignedIs
    <2>3. CASE c = "d"
      <3>1. P([cmd EXCEPT !["d"] = next.n])
        BY <2>3 DEF MpiDecTestCmd
      <3> QED BY <2>2, <2>3, <3>1
    <2>4. CASE c = "w"
      <3>1. P([cmd EXCEPT !["w"] = next.n])
        BY <2>4 DEF MpiDecTestCmd
      <3> QED BY <2>2, <2>4, <3>1
    <2>5. CASE c = "h"
      <3>1. P([cmd EXCEPT !["h"] = next.n])
        BY <2>5 DEF MpiDecTestCmd
      <3> QED BY <2>2, <2>5, <3>1
    <2>6. CASE c = "t"
      <3>1. P([cmd EXCEPT !["t"] = next.n])
        BY <2>6 DEF MpiDecTestCmd
      <3> QED BY <2>2, <2>6, <3>1
    <2>7. CASE c = "f"
      <3>1. P([cmd EXCEPT !["f"] = next.n])
        BY <2>7 DEF MpiDecTestCmd
      <3> QED BY <2>2, <2>7, <3>1
    <2>8. CASE c = "x"
      <3>1. P([cmd EXCEPT !["x"] = next.n])
        BY <2>8 DEF MpiDecTestCmd
      <3> QED BY <2>2, <2>8, <3>1
    <2>9. CASE c = "n"
      <3>1. P([cmd EXCEPT !["n"] = next.n])
        BY <2>9 DEF MpiDecTestCmd
      <3> QED BY <2>2, <2>9, <3>1
    <2> QED BY <2>1, <2>3, <2>4, <2>5, <2>6, <2>7, <2>8, <2>9
  <1> QED BY <1>1, <1>2, <1>3, <1>4

(* An option and its argument: what is given grows by its place.           *)
LEMMA GivenGrows ==
    ASSUME Len(argv) \in Nat, DOMAIN argv = 1..Len(argv), optindex \in 1..Len(argv), optindex % 2 = 1,
           optindex' = optindex + 2, argv' = argv
    PROVE  /\ optindex \in Options
           /\ \A c : Given(c)' = Given(c) \cup (IF argv[optindex].c \in c THEN {optindex} ELSE {})
           /\ \A c : \A k \in Given(c) : k < optindex
           /\ Typed' = Typed \cup (IF argv[optindex].c \in {"i", "t"} /\ SaysType(optindex) THEN {optindex} ELSE {})
           /\ \A k \in Typed : k < optindex
           /\ (optindex + 2) % 2 = 1
  <1>1. optindex \in Options
    BY DEF Options
  <1>2. \A k \in Options : k < optindex + 2 <=> k < optindex \/ k = optindex
    <2> SUFFICES ASSUME NEW k \in Options PROVE k < optindex + 2 <=> k < optindex \/ k = optindex
      OBVIOUS
    <2>1. k \in Nat /\ k % 2 = 1 /\ optindex \in Nat
      BY DEF Options
    <2>2. (optindex + 1) % 2 = 0
      BY <2>1
    <2>3. k # optindex + 1
      BY <2>1, <2>2
    <2> QED BY <2>1, <2>3
  <1>3. Options' = Options
    BY DEF Options
  <1>4. \A c : Given(c)' = {k \in Options : k < optindex + 2 /\ argv[k].c \in c}
    BY <1>3 DEF Given
  <1>5. \A c : Given(c)' = Given(c) \cup (IF argv[optindex].c \in c THEN {optindex} ELSE {})
    <2> SUFFICES ASSUME NEW c
                 PROVE  {k \in Options : k < optindex + 2 /\ argv[k].c \in c}
                        = {k \in Options : k < optindex /\ argv[k].c \in c}
                          \cup (IF argv[optindex].c \in c THEN {optindex} ELSE {})
      BY <1>4 DEF Given
    <2> QED BY <1>1, <1>2
  <1>6. \A c : \A k \in Given(c) : k < optindex
    BY DEF Given
  <1>7. \A k : SaysType(k)' <=> SaysType(k)
    BY DEF SaysType
  <1>8. Typed' = {k \in Given({"i", "t"})' : SaysType(k)}
    BY <1>7 DEF Typed
  <1>9. Given({"i", "t"})' = Given({"i", "t"}) \cup (IF argv[optindex].c \in {"i", "t"} THEN {optindex} ELSE {})
    BY <1>5
  <1>10. Typed' = Typed \cup (IF argv[optindex].c \in {"i", "t"} /\ SaysType(optindex) THEN {optindex} ELSE {})
    BY <1>8, <1>9 DEF Typed
  <1>11. \A k \in Typed : k < optindex
    BY <1>6 DEF Typed
  <1>12. (optindex + 2) % 2 = 1
    OBVIOUS
  <1> QED BY <1>1, <1>5, <1>6, <1>10, <1>11, <1>12

LEMMA LastGrows ==
    ASSUME NEW S, NEW i \in Nat, \A y \in S : y < i /\ y \in Nat, NEW k, IsLast(k, S \cup {i})
    PROVE  k = i
  <1>1. i <= k /\ (k = i \/ k \in S)
    BY DEF IsLast
  <1>2. k \in S => k < i /\ k \in Nat
    OBVIOUS
  <1> QED BY <1>1, <1>2

LEMMA UnderstoodGrows ==
    ASSUME DataTypes, Understood, optindex \in 1..Len(argv), optindex % 2 = 1, argv[optindex].c \in Known,
           optindex' = optindex + 2, argv' = argv,
           cmd' = Assigned(argv[optindex].c, argv[optindex + 1])
    PROVE  Understood'
  <1> PICK i : i = optindex
    OBVIOUS
  <1> PICK a : a = argv[i].c
    OBVIOUS
  <1> PICK next : next = argv[i + 1]
    OBVIOUS
  <1>1. argv \in Seq(Argument) /\ cmd \in MpiDecTestCmd(Names, Numbers) /\ a \in Known /\ i \in Nat
    BY DEF DataTypes, CmdType
  <1>2. Len(argv) \in Nat /\ DOMAIN argv = 1..Len(argv)
    BY <1>1
  <1>3. /\ \A c : Given(c)' = Given(c) \cup (IF a \in c THEN {i} ELSE {})
        /\ \A c : \A k \in Given(c) : k < i
        /\ Typed' = Typed \cup (IF a \in {"i", "t"} /\ SaysType(i) THEN {i} ELSE {})
        /\ \A k \in Typed : k < i
    BY <1>2, GivenGrows
  <1>4. (\A c : \A k \in Given(c) : k \in Nat) /\ (\A k \in Typed : k \in Nat)
    BY <1>2 DEF Given, Typed, Options
  <1> PICK r : r = cmd'
    OBVIOUS
  <1>5. r = Assigned(a, next)
    OBVIOUS
  <1>6. /\ r.d = (IF a = "d" THEN next.n ELSE cmd.d) /\ r.w = (IF a = "w" THEN next.n ELSE cmd.w)
        /\ r.h = (IF a = "h" THEN next.n ELSE cmd.h) /\ r.n = (IF a = "n" THEN next.n ELSE cmd.n)
        /\ r.x = (IF a = "x" THEN next.n ELSE cmd.x) /\ r.f = (IF a = "f" THEN next.n ELSE cmd.f)
        /\ r.i = (IF a = "i" THEN next.ext ELSE cmd.i) /\ r.o = (IF a = "o" THEN next.ext ELSE cmd.o)
        /\ r.c = (IF a = "c" THEN next.ext ELSE cmd.c)
        /\ r.pkt_size = (IF a = "c" THEN Large ELSE cmd.pkt_size)
        /\ r.t = (IF a = "t" THEN next.n ELSE IF a = "i" THEN name_to_coding_type(next, cmd.t) ELSE cmd.t)
    BY <1>1, <1>5, AssignedFields
  <1>7. ASSUME NEW c
        PROVE  /\ Given({c})' = {} <=> (Given({c}) = {} /\ a # c)
               /\ \A k : IsLast(k, Given({c})') => IF a = c THEN k = i ELSE IsLast(k, Given({c}))
    <2>1. Given({c})' = Given({c}) \cup (IF a = c THEN {i} ELSE {})
      BY <1>3
    <2>2. (\A y \in Given({c}) : y < i) /\ (\A y \in Given({c}) : y \in Nat)
      BY <1>3, <1>4
    <2>3. CASE a = c
      <3>1. Given({c})' = Given({c}) \cup {i}
        BY <2>1, <2>3
      <3>2. \A k : IsLast(k, Given({c}) \cup {i}) => k = i
        BY <1>1, <2>2, LastGrows
      <3> QED BY <2>3, <3>1, <3>2
    <2>4. CASE a # c
      <3>1. Given({c})' = Given({c})
        BY <2>1, <2>4
      <3> QED BY <2>4, <3>1
    <2> QED BY <2>3, <2>4
  <1>8. ASSUME NEW c \in {"d", "w", "h", "n", "x", "f"} PROVE r[c] = IF a = c THEN next.n ELSE cmd[c]
    <2>1. c = "d" \/ c = "w" \/ c = "h" \/ c = "n" \/ c = "x" \/ c = "f"
      OBVIOUS
    <2> QED BY <1>6, <2>1
  <1>9. ASSUME NEW c \in {"i", "o", "c"} PROVE r[c] = IF a = c THEN next.ext ELSE cmd[c]
    <2>1. c = "i" \/ c = "o" \/ c = "c"
      OBVIOUS
    <2> QED BY <1>6, <2>1
  <1>10. ASSUME NEW c \in {"d", "w", "h", "n", "x", "f"}
         PROVE  /\ Given({c})' = {} => r[c] = Defaults[c]
                /\ \A k : IsLast(k, Given({c})') => r[c] = argv[k + 1].n
    <2>1. /\ Given({c}) = {} => cmd[c] = Defaults[c]
          /\ \A k : IsLast(k, Given({c})) => cmd[c] = argv[k + 1].n
      BY DEF Understood
    <2> QED BY <1>7, <1>8, <2>1
  <1>11. ASSUME NEW c \in {"i", "o", "c"}
         PROVE  /\ Given({c})' = {} => r[c] = None
                /\ \A k : IsLast(k, Given({c})') => r[c] = argv[k + 1].ext
    <2>1. /\ Given({c}) = {} => cmd[c] = None
          /\ \A k : IsLast(k, Given({c})) => cmd[c] = argv[k + 1].ext
      BY DEF Understood
    <2> QED BY <1>7, <1>9, <2>1
  <1>12. (r.pkt_size = Large) <=> Given({"c"})' # {}
    BY <1>6, <1>7 DEF Understood
  <1>13. ASSUME NEW k, IsLast(k, Typed')
         PROVE  IF argv[k].c = "t" THEN r.t = argv[k + 1].n
                ELSE r.t = MJPEG <=> argv[k + 1].ext \in Codings.MJPEG
    <2> DEFINE b == a \in {"i", "t"} /\ SaysType(i)
    <2>1. CASE b
      <3>4. Typed' = Typed \cup {i}
        BY <1>3, <2>1
      <3>5. IsLast(k, Typed \cup {i})
        BY <1>13, <3>4
      <3>1. k = i
        BY <1>1, <1>3, <1>4, <3>5, LastGrows
      <3>2. CASE a = "t"
        BY <1>6, <3>1, <3>2
      <3>3. CASE a # "t"
        <4>1. a = "i" /\ next.ext \in Codings.AVC \cup Codings.HEVC \cup Codings.MJPEG
          BY <2>1, <3>3 DEF SaysType
        <4>2. r.t = name_to_coding_type(next, cmd.t)
          BY <1>6, <4>1
        <4>3. r.t = MJPEG <=> next.ext \in Codings.MJPEG
          BY <4>1, <4>2, TypeOfName
        <4> QED BY <3>1, <3>3, <4>3
      <3> QED BY <3>2, <3>3
    <2>2. CASE ~b
      <3>1. a # "t"
        BY <2>2 DEF SaysType
      <3>2. a = "i" => next.ext \notin Codings.AVC \cup Codings.HEVC \cup Codings.MJPEG
        BY <2>2 DEF SaysType
      <3>3. a = "i" => name_to_coding_type(next, cmd.t) = cmd.t
        BY <3>2, TypeOfName
      <3>4. r.t = cmd.t
        BY <1>6, <3>1, <3>3
      <3>5. IsLast(k, Typed)
        <4>1. Typed' = Typed
          BY <1>3, <2>2
        <4> QED BY <1>13, <4>1
      <3> QED BY <3>4, <3>5 DEF Understood
    <2> QED BY <2>1, <2>2
  <1> QED BY <1>10, <1>11, <1>12, <1>13 DEF Understood

LEMMA ParseInit == Init => ParseInv
  <1> SUFFICES ASSUME Init PROVE ParseInv
    OBVIOUS
  <1>1. pc = "options" /\ optindex = 1 /\ handleoptions = TRUE /\ err = "MPP_NOK" /\ cmd = Defaults
        /\ argv \in Seq(Argument)
    BY CommandAssumption DEF Init, OptionsInit
  <1>2. Len(argv) \in Nat /\ DOMAIN argv = 1..Len(argv)
    BY <1>1
  <1>3. \A c : Given(c) = {}
    BY <1>1, <1>2 DEF Given, Options
  <1>4. Typed = {}
    BY <1>3 DEF Typed
  <1>5. Understood
    <2>1. cmd.i = None /\ cmd.o = None /\ cmd.c = None /\ cmd.pkt_size # Large
      BY <1>1 DEF Defaults, Small, Large
    <2> QED BY <1>1, <1>3, <1>4, <2>1 DEF Understood, IsLast
  <1>6. optindex % 2 = 1 /\ optindex <= Len(argv) + 1 /\ handleoptions /\ cmd.x >= 0 /\ err # "MPP_OK"
    BY <1>1, <1>2 DEF Defaults
  <1> QED BY <1>1, <1>5, <1>6 DEF ParseInv

LEMMA ParseKept ==
    ASSUME ParseInv, UNCHANGED optVars,
           \/ pc' = pc
           \/ pc \notin {"options", "parsed", "done"} /\ pc' \notin {"options", "parsed"}
           \/ pc = "parsed" /\ pc' \notin {"options", "parsed"} /\ (pc' # "done" => err = "MPP_OK")
    PROVE  ParseInv'
  <1>1. UNCHANGED <<argv, optindex, handleoptions, err, cmd>>
    BY DEF optVars
  <1>2. Options' = Options /\ \A c : Given(c)' = Given(c)
    BY <1>1 DEF Options, Given
  <1>3. Typed' = Typed
    BY <1>1, <1>2 DEF Typed, SaysType
  <1>4. AllKnown' = AllKnown
    BY <1>1, <1>2 DEF AllKnown
  <1>5. Understood' = Understood
    BY <1>1, <1>2, <1>3 DEF Understood
  <1>6. pc' = "options" => pc = "options"
    OBVIOUS
  <1>7. pc' # "options" => pc # "options"
    OBVIOUS
  <1>8. pc' \notin {"options", "parsed", "done"} => err' = "MPP_OK"
    BY <1>1 DEF ParseInv
  <1>9. (optindex % 2 = 1)' <=> optindex % 2 = 1
    BY <1>1
  <1> QED BY <1>1, <1>2, <1>4, <1>5, <1>6, <1>7, <1>8, <1>9 DEF ParseInv

(* A line of known options makes the parser take pairs, or stop.           *)
LEMMA ParsePairs ==
    ASSUME DataTypes, AllKnown, ParseInv, ParseStep
    PROVE  \/ /\ all_parsed /\ Len(argv) % 2 = 0
           \/ /\ stop_parsing /\ Len(argv) % 2 = 1 /\ err' = err
           \/ /\ take_option /\ HasNext /\ argv[optindex].c \in Known
  <1>1. /\ pc = "options" /\ optindex % 2 = 1 /\ optindex <= Len(argv) + 1 /\ handleoptions
    BY DEF ParseInv, ParseStep, skip_word, end_of_options, take_option, stop_parsing, all_parsed
  <1>2. argv \in Seq(Argument) /\ optindex \in Nat \ {0} /\ Len(argv) \in Nat /\ DOMAIN argv = 1..Len(argv)
    BY LenProperties DEF DataTypes
  <1>3. optindex <= Len(argv) =>
            /\ argv[optindex].c \in Known /\ argv[optindex].is = "option" /\ argv[optindex].c # "help"
    <2> SUFFICES ASSUME optindex <= Len(argv)
                 PROVE  /\ argv[optindex].c \in Known /\ argv[optindex].is = "option" /\ argv[optindex].c # "help"
      OBVIOUS
    <2>1. optindex \in Options
      BY <1>1, <1>2 DEF Options
    <2>2. argv[optindex].c \in Known
      BY <2>1 DEF AllKnown
    <2>3. argv[optindex] \in Argument
      BY <1>2, ElementOfSeq
    <2>4. argv[optindex].c # "" /\ argv[optindex].c # "help"
      BY <2>2 DEF Known
    <2>5. argv[optindex].is # "option" => argv[optindex].c = ""
      BY <2>3 DEF Argument
    <2> QED BY <2>2, <2>4, <2>5
  <1>4. ~skip_word /\ ~end_of_options
    BY <1>1, <1>3 DEF skip_word, end_of_options, Here
  <1>5. CASE all_parsed
    <2>1. optindex = Len(argv) + 1
      BY <1>1, <1>2, <1>5 DEF all_parsed
    <2>2. Len(argv) % 2 = 0
      BY <1>1, <1>2, <2>1
    <2> QED BY <1>5, <2>2
  <1>6. CASE stop_parsing
    <2>1. ~HasNext /\ err' = err /\ optindex <= Len(argv)
      BY <1>3, <1>6 DEF stop_parsing, Here
    <2>2. ~(optindex < Len(argv))
      BY <2>1 DEF HasNext
    <2>3. optindex = Len(argv)
      <3> PICK n \in Nat, i \in Nat : n = Len(argv) /\ i = optindex
        BY <1>2
      <3>1. i <= n /\ ~(i < n)
        BY <2>1, <2>2
      <3>2. i = n
        BY <3>1
      <3> QED BY <3>2
    <2> QED BY <1>1, <1>6, <2>1, <2>3
  <1>7. CASE take_option
    <2>1. optindex <= Len(argv)
      BY <1>7 DEF take_option
    <2> QED BY <1>3, <1>7, <2>1 DEF take_option, Here
  <1> QED BY <1>4, <1>5, <1>6, <1>7 DEF ParseStep

LEMMA ParseTakes ==
    ASSUME DataTypes, AllKnown, ParseInv, take_option, HasNext, argv[optindex].c \in Known
    PROVE  ParseInv'
  <1> PICK a : a = argv[optindex].c
    OBVIOUS
  <1> PICK next : next = argv[optindex + 1]
    OBVIOUS
  <1>1. /\ pc = "options" /\ optindex <= Len(argv) /\ optindex' = optindex + 2 /\ argv' = argv
        /\ handleoptions' = handleoptions
        /\ cmd' = Assigned(a, next) /\ err' = Checked(a, next, err)
        /\ pc' = IF Stops(a, next, err') THEN "parsed" ELSE pc
    BY DEF take_option, Here, Next1
  <1>2. argv \in Seq(Argument) /\ optindex \in Nat \ {0} /\ Len(argv) \in Nat /\ DOMAIN argv = 1..Len(argv)
        /\ optindex < Len(argv)
    BY LenProperties DEF DataTypes, HasNext
  <1>3. /\ Understood /\ optindex % 2 = 1 /\ handleoptions /\ cmd.x >= 0
        /\ Given({"t"}) = {} => err # "MPP_OK"
    BY <1>1 DEF ParseInv
  <1>4. Understood'
    BY <1>1, <1>2, <1>3, UnderstoodGrows
  <1>5. /\ Given({"t"})' = Given({"t"}) \cup (IF a = "t" THEN {optindex} ELSE {})
        /\ optindex' % 2 = 1 /\ optindex' <= Len(argv) + 1
    <2>1. /\ \A c : Given(c)' = Given(c) \cup (IF argv[optindex].c \in c THEN {optindex} ELSE {})
          /\ (optindex + 2) % 2 = 1
      BY <1>1, <1>2, <1>3, GivenGrows
    <2>2. optindex + 2 <= Len(argv) + 1
      BY <1>2
    <2> QED BY <1>1, <2>1, <2>2
  <1>6. cmd'.x = (IF a = "x" THEN next.n ELSE cmd.x) /\ cmd.x \in Int /\ next.n \in Int
    <2>1. cmd \in MpiDecTestCmd(Names, Numbers) /\ cmd.x \in Int
      BY DEF DataTypes, CmdType
    <2>2. next \in Argument
      <3>1. optindex + 1 \in 1..Len(argv)
        BY <1>2
      <3> QED BY <1>2, <3>1, ElementOfSeq
    <2>3. cmd'.x = (IF a = "x" THEN next.n ELSE cmd.x)
      BY <1>1, <2>1, AssignedFields
    <2> QED BY <2>1, <2>2, <2>3 DEF Argument
  <1>7. a = "t" \/ err' = err
    BY <1>1 DEF Checked
  <1>8. Given({"t"})' = {} => err' # "MPP_OK"
    BY <1>3, <1>5, <1>7
  <1>9. pc' \in {"options", "parsed"}
    BY <1>1
  <1>10. CASE pc' = "options"
    <2>1. ~Stops(a, next, err')
      BY <1>1, <1>10
    <2>2. cmd'.x >= 0
      BY <1>3, <1>6, <2>1 DEF Stops
    <2> QED BY <1>1, <1>3, <1>4, <1>5, <1>8, <1>10, <2>2 DEF ParseInv
  <1>11. CASE pc' = "parsed"
    <2>1. Stops(a, next, err')
      BY <1>1, <1>11
    <2>2. err' = "MPP_OK" => cmd'.x < 0
      BY <1>6, <2>1 DEF Stops
    <2>3. err' = "MPP_OK" => Given({"t"})' # {}
      BY <1>8
    <2> QED BY <1>4, <1>11, <2>2, <2>3 DEF ParseInv
  <1> QED BY <1>9, <1>10, <1>11

LEMMA ParseNext ==
    ASSUME DataTypes, ParseInv, [Next]_vars
    PROVE  ParseInv'
  <1>1. CASE ParseStep
    <2>1. argv' = argv /\ pc = "options" /\ pc' \in {"options", "parsed"}
      BY <1>1 DEF ParseStep, skip_word, end_of_options, take_option, stop_parsing, all_parsed
    <2>2. AllKnown' = AllKnown
      BY <2>1 DEF AllKnown, Options
    <2>3. CASE ~AllKnown
      BY <2>1, <2>2, <2>3 DEF ParseInv
    <2>4. CASE AllKnown /\ take_option /\ HasNext /\ argv[optindex].c \in Known
      BY <2>4, ParseTakes
    <2>5. CASE /\ AllKnown
               /\ \/ all_parsed /\ Len(argv) % 2 = 0
                  \/ stop_parsing /\ Len(argv) % 2 = 1 /\ err' = err
      <3>1. cmd' = cmd /\ optindex' = optindex /\ pc' = "parsed"
        BY <2>5 DEF all_parsed, stop_parsing
      <3>2. Options' = Options /\ \A c : Given(c)' = Given(c)
        BY <2>1, <3>1 DEF Options, Given
      <3>3. Typed' = Typed
        BY <2>1, <3>2 DEF Typed, SaysType
      <3>4. Understood' = Understood
        BY <2>1, <3>1, <3>2, <3>3 DEF Understood
      <3>5. /\ Understood /\ cmd.x >= 0 /\ (Given({"t"}) = {} => err # "MPP_OK")
        BY <2>1, <2>5 DEF ParseInv
      <3>6. \/ all_parsed /\ Len(argv) % 2 = 0
            \/ Len(argv) % 2 = 1 /\ err' = err
        BY <2>5
      <3>7. CASE all_parsed /\ Len(argv) % 2 = 0
        <4>1. optindex > Len(argv)
          BY <3>7 DEF all_parsed
        <4> QED BY <2>1, <2>2, <3>1, <3>4, <3>5, <3>7, <4>1 DEF ParseInv
      <3>8. CASE Len(argv) % 2 = 1 /\ err' = err
        BY <2>1, <2>2, <3>1, <3>2, <3>4, <3>5, <3>8 DEF ParseInv
      <3> QED BY <3>6, <3>7, <3>8
    <2> QED BY <1>1, <2>3, <2>4, <2>5, ParsePairs
  <1>2. CASE mpp_jpg2yuv
    <2>1. pc = "parsed" /\ pc' \in {"done", "setup"} /\ (pc' # "done" => err = "MPP_OK") /\ UNCHANGED optVars
      BY <1>2 DEF mpp_jpg2yuv
    <2> QED BY <2>1, ParseKept
  <1>3. CASE \/ open_input \/ open_output \/ get_buffers \/ query \/ release \/ read \/ put_poll
             \/ put_dequeue \/ put_enqueue \/ get_poll \/ get_dequeue \/ write
    <2>1. pc \notin {"options", "parsed", "done"} /\ pc' \notin {"options", "parsed"}
      BY <1>3 DEF open_input, open_output, get_buffers, Acquires, Out, query, release, Released, read, put_poll,
         put_dequeue, put_enqueue, get_poll, get_dequeue, write, Goes, Returns, Again
    <2>2. UNCHANGED optVars
      BY <1>3 DEF open_input, open_output, get_buffers, still, query, release, read, put_poll,
         put_dequeue, put_enqueue, get_poll, get_dequeue, write, Rest, Io
    <2> QED BY <2>1, <2>2, ParseKept
  <1>4. CASE SimpleStep /\ UNCHANGED optVars
    <2>1. pc \notin {"options", "parsed", "done"} /\ pc' \notin {"options", "parsed"}
      BY <1>4, AfterFrameGoes DEF SimpleStep, read_packet, decode_put_packet, decode_get_frame,
         a_frame, no_frame, timed_out, no_more, info_change, use_frame, end_turn
    <2> QED BY <1>4, <2>1, ParseKept
  <1>5. CASE Decoder \/ UNCHANGED vars
    <2>1. pc' = pc /\ UNCHANGED optVars
      BY <1>5 DEF Decoder, take, decode, SimpleDecoder, vars, Io, Rest
    <2> QED BY <2>1, ParseKept
  <1> QED BY <1>1, <1>2, <1>3, <1>4, <1>5 DEF Next, Thread

(* What Given and Typed say of the last option is what Max names.          *)
LEMMA LastIsMax ==
    ASSUME DataTypes
    PROVE  /\ \A c : Given({c}) # {} => IsLast(Max(Given({c})), Given({c}))
           /\ Typed # {} => IsLast(Max(Typed), Typed)
  <1>1. PICK n \in Nat : n = Len(argv) /\ DOMAIN argv = 1..n
    BY DEF DataTypes
  <1>2. \A c : Given(c) \in SUBSET (1..n)
    BY <1>1 DEF Given, Options
  <1>3. Typed \in SUBSET (1..n)
    BY <1>2 DEF Typed
  <1>4. \A c : Given({c}) # {} => IsLast(Max(Given({c})), Given({c}))
    BY <1>1, <1>2, Greatest
  <1>5. Typed # {} => IsLast(Max(Typed), Typed)
    BY <1>1, <1>3, Greatest
  <1> QED BY <1>4, <1>5

LEMMA ParseImplies ==
    ASSUME DataTypes, ParseInv
    PROVE  CommandLineKept
  <1>1. OptionsUnderstood
    <2> SUFFICES ASSUME pc \notin {"options", "parsed", "done"}, Pairs
                 PROVE  OptionsUnderstood
      BY DEF OptionsUnderstood
    <2>1. AllKnown /\ Len(argv) % 2 = 0
      BY DEF Pairs, AllKnown
    <2>2. Understood /\ (optindex > Len(argv) \/ cmd.x < 0)
      BY <2>1 DEF ParseInv
    <2>3. \A c \in {"d", "w", "h", "n", "x", "f"} :
              cmd[c] = IF Given({c}) = {} THEN Defaults[c] ELSE Value(c).n
      BY <2>2, LastIsMax DEF Understood, Value
    <2>4. \A c \in {"i", "o", "c"} :
              cmd[c] = IF Given({c}) = {} THEN None ELSE Value(c).ext
      BY <2>2, LastIsMax DEF Understood, Value
    <2>5. (cmd.pkt_size = Large) <=> Given({"c"}) # {}
      BY <2>2 DEF Understood
    <2>6. \A k : SaysType(k) <=> argv[k].c = "t" \/ \E set \in Range(Codings) : argv[k + 1].ext \in set
      BY CodingsAre DEF SaysType
    <2>7. Typed = {k \in Given({"i", "t"}) :
                     argv[k].c = "t" \/ \E set \in Range(Codings) : argv[k + 1].ext \in set}
      BY <2>6 DEF Typed
    <2>8. Typed # {} =>
             LET k == Max(Typed)
             IN  IF argv[k].c = "t" THEN cmd.t = argv[k + 1].n
                 ELSE Simple <=> argv[k + 1].ext \notin Codings.MJPEG
      BY <2>2, LastIsMax DEF Understood, Simple
    <2> QED BY <2>2, <2>3, <2>4, <2>5, <2>7, <2>8 DEF OptionsUnderstood
  <1>2. BadLinesRefused
    BY DEF ParseInv, BadLinesRefused, AllKnown
  <1> QED BY <1>1, <1>2 DEF CommandLineKept

(* The decoder is given what the command line says, or nothing: every      *)
(* option of a line of pairs has the value given last, and a line that     *)
(* ends in the middle or asks for a negative timeout starts no decoding    *)
(* unless a good -t came before (mpi_dec_test_parse_options).              *)
THEOREM CommandIsKept == Spec => []CommandLineKept
  <1>1. DecodeInv => DataTypes
    BY DEF DecodeInv
  <1>2. DecodeInv /\ ParseInv /\ [Next]_vars => (DecodeInv /\ ParseInv)'
    BY <1>1, DecodeNext, ParseNext
  <1>3. DecodeInv /\ ParseInv => CommandLineKept
    BY <1>1, ParseImplies
  <1> QED BY <1>2, <1>3, DecodeInit, ParseInit, PTL DEF Spec
=============================================================================
