------------------------------ MODULE MppBytes ------------------------------
(***************************************************************************)
(* The macros of src/mpp/encode/mpp_common.h on memory: the numbers of 16  *)
(* to 64 bits that a stream's parser or writer finds in either byte order. *)
(*                                                                         *)
(* Memory is a function from addresses to bytes.  A macro that writes is   *)
(* the memory it leaves; | of bytes in different places is their sum.      *)
(***************************************************************************)
EXTENDS MppCommon

Memory == [Nat -> Byte]

(* Bytes shifted to their places, the highest first.                       *)
Num16(a, b)       == a * 256 + b
Num24(a, b, c)    == a * 65536 + b * 256 + c
Num32(a, b, c, d) == a * 16777216 + b * 65536 + c * 256 + d
Num64(a, b, c, d, e, f, g, h) ==
    a * 72057594037927936 + b * 281474976710656 + c * 1099511627776 + d * 4294967296
    + e * 16777216 + f * 65536 + g * 256 + h

(* Bytes are ints when they are shifted: one above 127 at the top of 32    *)
(* bits makes the number negative.                                         *)
Int32(v) == IF v < 2147483648 THEN v ELSE v - 4294967296

MPP_RB16(m, x) == Num16(m[x], m[x + 1])
MPP_RL16(m, x) == Num16(m[x + 1], m[x])
MPP_WB16(m, p, d) == [m EXCEPT ![p + 1] = RK_U8(d), ![p] = RK_U8(d \div 256)]
MPP_WL16(m, p, d) == [m EXCEPT ![p] = RK_U8(d), ![p + 1] = RK_U8(d \div 256)]

MPP_RB24(m, x) == Num24(m[x], m[x + 1], m[x + 2])
MPP_RL24(m, x) == Num24(m[x + 2], m[x + 1], m[x])
MPP_WB24(m, p, d) == [m EXCEPT ![p + 2] = RK_U8(d), ![p + 1] = RK_U8(d \div 256),
                               ![p] = RK_U8(d \div 65536)]
MPP_WL24(m, p, d) == [m EXCEPT ![p] = RK_U8(d), ![p + 1] = RK_U8(d \div 256),
                               ![p + 2] = RK_U8(d \div 65536)]

MPP_RB32(m, x) == Int32(Num32(m[x], m[x + 1], m[x + 2], m[x + 3]))
MPP_RL32(m, x) == Int32(Num32(m[x + 3], m[x + 2], m[x + 1], m[x]))
MPP_WB32(m, p, d) == [m EXCEPT ![p + 3] = RK_U8(d), ![p + 2] = RK_U8(d \div 256),
                               ![p + 1] = RK_U8(d \div 65536), ![p] = RK_U8(d \div 16777216)]
MPP_WL32(m, p, d) == [m EXCEPT ![p] = RK_U8(d), ![p + 1] = RK_U8(d \div 256),
                               ![p + 2] = RK_U8(d \div 65536), ![p + 3] = RK_U8(d \div 16777216)]

(* Each byte is an RK_U64 before it is shifted: the number has no sign.    *)
MPP_RB64(m, x) == Num64(m[x], m[x + 1], m[x + 2], m[x + 3],
                        m[x + 4], m[x + 5], m[x + 6], m[x + 7])
MPP_RL64(m, x) == Num64(m[x + 7], m[x + 6], m[x + 5], m[x + 4],
                        m[x + 3], m[x + 2], m[x + 1], m[x])
MPP_WB64(m, p, d) == [m EXCEPT ![p + 7] = RK_U8(d), ![p + 6] = RK_U8(d \div 256),
                               ![p + 5] = RK_U8(d \div 65536), ![p + 4] = RK_U8(d \div 16777216),
                               ![p + 3] = RK_U8(d \div 4294967296),
                               ![p + 2] = RK_U8(d \div 1099511627776),
                               ![p + 1] = RK_U8(d \div 281474976710656),
                               ![p] = RK_U8(d \div 72057594037927936)]
MPP_WL64(m, p, d) == [m EXCEPT ![p] = RK_U8(d), ![p + 1] = RK_U8(d \div 256),
                               ![p + 2] = RK_U8(d \div 65536), ![p + 3] = RK_U8(d \div 16777216),
                               ![p + 4] = RK_U8(d \div 4294967296),
                               ![p + 5] = RK_U8(d \div 1099511627776),
                               ![p + 6] = RK_U8(d \div 281474976710656),
                               ![p + 7] = RK_U8(d \div 72057594037927936)]
=============================================================================
