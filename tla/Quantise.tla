------------------------------ MODULE Quantise ------------------------------
(***************************************************************************)
(* The 8-bit numbers of the model's outputs, as postprocess.cpp takes them *)
(* to real ones and back.  Real numbers are counted in some small unit,    *)
(* a scale is so many of them, and what a float rounds away is left out.   *)
(***************************************************************************)
EXTENDS Integers

Int8 == -128..127

(* Of num/den, as a number of den-th parts. *)
__clip(num, den, min, max) == IF num <= min * den THEN min * den
                              ELSE IF num >= max * den THEN max * den ELSE num

(* A conversion to int8_t drops what is behind the point, on either side   *)
(* of zero.                                                                *)
Truncated(num, den) == IF num >= 0 THEN num \div den ELSE -((-num) \div den)

(* Mutant: the zero point is left out. *)
NoZeroPoint(f32, zp, scale) == Truncated(__clip(f32, scale, -128, 127), scale)

qnt_f32_to_affine(f32, zp, scale) ==
    Truncated(__clip(f32 + zp * scale, scale, -128, 127), scale)

deqnt_affine_to_f32(qnt, zp, scale) == (qnt - zp) * scale
=============================================================================
