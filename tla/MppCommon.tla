----------------------------- MODULE MppCommon -----------------------------
(***************************************************************************)
(* The macros of src/mpp/encode/mpp_common.h on numbers and objects:       *)
(* extremes, bounds, alignment and exchange.                               *)
(***************************************************************************)
EXTENDS Integers

MPP_ABS(x) == IF x < 0 THEN -x ELSE x

MPP_MAX(a, b)        == IF a > b THEN a ELSE b
MPP_MAX3(a, b, c)    == MPP_MAX(MPP_MAX(a, b), c)
MPP_MAX4(a, b, c, d) == MPP_MAX(a, MPP_MAX3(b, c, d))

MPP_MIN(a, b)        == IF a > b THEN b ELSE a
MPP_MIN3(a, b, c)    == MPP_MIN(MPP_MIN(a, b), c)
MPP_MIN4(a, b, c, d) == MPP_MIN(a, MPP_MIN3(b, c, d))

(* C's division drops the remainder on either side of zero. *)
Quotient(a, b) == IF (a < 0) = (b < 0) THEN MPP_ABS(a) \div MPP_ABS(b)
                                       ELSE -(MPP_ABS(a) \div MPP_ABS(b))

MPP_DIV(a, b)      == IF b # 0 THEN Quotient(a, b) ELSE a
MPP_SIGN(a)        == IF a < 0 THEN -1 ELSE 1
MPP_DIV_SIGN(a, b) == Quotient(a + Quotient(MPP_SIGN(a) * b, 2), b)

MPP_ALIGN(x, a) == ((x + a - 1) \div a) * a    \* a is a power of 2

mpp_clip(a, amin, amax) == IF a < amin THEN amin ELSE IF a > amax THEN amax ELSE a
MPP_CLIP3(l, h, v) == IF v < l THEN l ELSE IF v > h THEN h ELSE v

-----------------------------------------------------------------------------
(* Objects and their bits: s gives each object the set of bits that are 1, *)
(* XorInto is the assignment a ^= b.                                       *)

BitXor(v, w) == (v \ w) \cup (w \ v)
XorInto(s, a, b) == [s EXCEPT ![a] = BitXor(s[a], s[b])]

MPP_SWAP(s, a, b)  == [s EXCEPT ![b] = s[a], ![a] = s[b]]
MPP_VSWAP(s, a, b) == XorInto(XorInto(XorInto(s, a, b), b, a), a, b)

-----------------------------------------------------------------------------
Byte == 0..255

RK_U8(d) == d % 256         \* what an assignment to a byte keeps
=============================================================================
