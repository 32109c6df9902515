------------------------------ MODULE MCStaticQ ------------------------------
(* Rings of two and three bytes under every buffer of up to four bytes.    *)
EXTENDS StaticQ

MCByte  == {0, 1}
MCBufs  == UNION {[1..n -> MCByte] : n \in 0..4}
MCSizes == {1, 2, 3}
=============================================================================
