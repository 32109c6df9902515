---------------------------- MODULE MCPostProcess ----------------------------
(***************************************************************************)
(* Four cells over the three heads, every combination of scores, below, at *)
(* and above the threshold, and every set of overlaps; three cells suffice *)
(* where there are two classes.  The third head's numbers have a zero      *)
(* point of their own.  Another session and other label files are tried    *)
(* with the inputs whose cells are all alike.                              *)
(***************************************************************************)
EXTENDS PostProcess

FourCells  == <<2, 1, 1>>
ThreeCells == <<1, 1, 1>>

ZeroPoints == <<1, 1, -1>>
Scales     == <<2, 2, 2>>
Sigmoid(x) == x + 5

Alone == [lines |-> OBJ_CLASS_NUM, others |-> {}, alike |-> FALSE]

MCScenarios == {Alone}
    \cup {[lines |-> n, others |-> {"calls"}, alike |-> TRUE] : n \in 0..(OBJ_CLASS_NUM + 1)}
    \cup {[lines |-> OBJ_CLASS_NUM, others |-> {"calls", "deinit"}, alike |-> TRUE]}
OneScenario == {Alone}
=============================================================================
