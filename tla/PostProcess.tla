----------------------------- MODULE PostProcess -----------------------------
(***************************************************************************)
(* post_process of src/kernel/src/postprocess.cpp: the cells of the three  *)
(* output heads that pass the threshold become boxes, the boxes are sorted *)
(* by score, suppressed class by class where they overlap a better one,    *)
(* and the best that remain are reported under their labels.  The labels   *)
(* are static: the first call of any session loads them, without a lock.   *)
(*                                                                         *)
(* Of two boxes only whether their intersection over union is above the    *)
(* threshold is kept.  Indices count from 1, and 0 stands for the code's   *)
(* -1.                                                                     *)
(***************************************************************************)
EXTENDS Quantise, Sequences, FiniteSets, SequencesExt, FiniteSetsExt

CONSTANTS OBJ_CLASS_NUM, OBJ_NUMB_MAX_SIZE,
          Heads,  \* the number of cells of each output head
          Score,  \* the quantised confidences and class probabilities
          qnt_zps, qnt_scales, \* of each head
          thres,  \* unsigmoid of the confidence threshold
          sigmoid(_),
          Scenarios \* [lines, others, alike]: the lines of the label file,
                    \* what another session may do, "calls" and "deinit", and
                    \* whether the cells are all alike

ASSUME PostProcessAssumption ==
    /\ OBJ_CLASS_NUM \in Nat \ {0} /\ OBJ_NUMB_MAX_SIZE \in Nat \ {0}
    /\ Heads \in Seq(Nat) \ {<<>>} /\ Score \subseteq Int8 /\ thres \in Int
    /\ qnt_zps \in [DOMAIN Heads -> Int] /\ qnt_scales \in [DOMAIN Heads -> Nat \ {0}]
    /\ \A h \in DOMAIN Heads : \A p \in Score :
           sigmoid(deqnt_affine_to_f32(p, qnt_zps[h], qnt_scales[h])) \in Nat \ {0}
    /\ \A s \in Scenarios : s.lines \in Nat

VARIABLES may,        \* the scenario of this behaviour
          init, labels, \* static: loaded, and the classes with a label
          line,       \* the lines this call has read of the file
          other,      \* the other session: "out", "back" or the lines it read
          pc, head,
          input,      \* the cells of each head: confidence and class scores
          classId, objProbs, \* of each box, objProbs until the sort
          indexArray, \* of each place after the sort the box, or 0
          stack,      \* the calls of qsort_descent_inplace to come
          low, high, key, key_index, \* the locals of the call it is in
          overlap,    \* pairs of boxes with an intersection above the threshold
          filterId, i,\* the class and the place nms_sorted_bboxes is at
          group       \* the results, best first

sortVars == <<stack, low, high, key, key_index>>
boxVars  == <<input, classId>>
callVars == <<pc, head, boxVars, objProbs, indexArray, sortVars, overlap, filterId, i, group>>
labelVars == <<init, labels, line, other>>
vars     == <<may, labelVars, callVars>>

Class == 1..OBJ_CLASS_NUM
Cell  == [conf : Score, prob : [Class -> Score]]
validCount == Len(classId)

Inputs == {c \in [DOMAIN Heads -> UNION {[1..n -> Cell] : n \in ToSet(Heads)}] :
               \A h \in DOMAIN Heads : Len(c[h]) = Heads[h]}
Alike  == {[h \in DOMAIN Heads |-> [n \in 1..Heads[h] |-> cell]] : cell \in Cell}

Out  == -1
Back == -2

Init == /\ may \in Scenarios
        /\ init = FALSE /\ labels = {} /\ line = 0 /\ other = Out
        /\ pc = "init" /\ head = 1
        /\ input \in IF may.alike THEN Alike ELSE Inputs
        /\ classId = <<>> /\ objProbs = <<>> /\ indexArray = <<>>
        /\ stack = <<>> /\ low = 0 /\ high = 0 /\ key = 0 /\ key_index = 0
        /\ overlap = {} /\ filterId = 0 /\ i = 0
        /\ group = <<>>

-----------------------------------------------------------------------------
(* loadLabelName, readLines and readLine: a line of the file is the label  *)
(* of the next class, up to OBJ_CLASS_NUM.  A file that is short, or not   *)
(* there, is loaded all the same.                                          *)

More(read) == read < may.lines /\ read < OBJ_CLASS_NUM

loadLabelName(read) == IF More(read) THEN labels' = labels \cup {read + 1} /\ UNCHANGED init
                                     ELSE init' = TRUE /\ UNCHANGED labels

post_process == /\ pc = "init"
                /\ pc' = IF init THEN "propose" ELSE "labels"
                /\ UNCHANGED <<labelVars, head, boxVars, objProbs, indexArray, sortVars, overlap,
                               filterId, i, group>>

load == /\ pc = "labels"
        /\ loadLabelName(line)
        /\ IF More(line) THEN line' = line + 1 /\ UNCHANGED pc
                         ELSE pc' = "propose" /\ UNCHANGED line
        /\ UNCHANGED <<other, head, boxVars, objProbs, indexArray, sortVars, overlap, filterId, i, group>>

(* Another session calls post_process at any time.  Its steps on the       *)
(* labels matter only to the parts of this call that look at them.         *)
Looks == pc \in {"init", "labels", "collect"}

(* Mutant: the labels count as loaded before they are read. *)
LoadedFirst == /\ Looks /\ "calls" \in may.others /\ other = Out /\ ~init
               /\ other' = 0 /\ init' = TRUE
               /\ UNCHANGED <<labels, line, callVars>>

other_calls == /\ Looks /\ "calls" \in may.others /\ other = Out /\ ~init
               /\ other' = 0
               /\ UNCHANGED <<init, labels, line, callVars>>

other_loads == /\ Looks /\ other >= 0
               /\ loadLabelName(other)
               /\ other' = IF More(other) THEN other + 1 ELSE Back
               /\ UNCHANGED <<line, callVars>>

(* The labels are freed; init stays 0, so nobody loads them again. *)
deinitPostProcess == /\ Looks /\ "deinit" \in may.others /\ other = Back
                     /\ labels' = {}
                     /\ UNCHANGED <<init, line, other, callVars>>

-----------------------------------------------------------------------------
(* generate_proposals *)

(* The first of the classes with the highest score. *)
MaxClass(cell) == CHOOSE k \in Class :
                      /\ \A l \in Class : cell.prob[l] <= cell.prob[k]
                      /\ \A l \in 1..(k - 1) : cell.prob[l] < cell.prob[k]

Logit(q, h) == deqnt_affine_to_f32(q, qnt_zps[h], qnt_scales[h])
thres_i8(h) == qnt_f32_to_affine(thres, qnt_zps[h], qnt_scales[h])

(* The confidence may equal the threshold, the class score may not. *)
Passes(cell, h) == cell.conf >= thres_i8(h) /\ cell.prob[MaxClass(cell)] > thres_i8(h)
Joint(cell, h)  == sigmoid(Logit(cell.prob[MaxClass(cell)], h)) * sigmoid(Logit(cell.conf, h))

(* The elements of a set of places, from the first to the last. *)
Ascending(S) == CHOOSE s \in [1..Cardinality(S) -> S] :
                    \A p, q \in DOMAIN s : p < q => s[p] < s[q]

(* The boxes of a head, in the order of its cells. *)
Passing(h)  == {n \in DOMAIN input[h] : Passes(input[h][n], h)}
BoxOf(n, h) == [id |-> MaxClass(input[h][n]), prop |-> Joint(input[h][n], h)]
Found(h) == LET cells == Ascending(Passing(h))
            IN  [b \in DOMAIN cells |-> BoxOf(cells[b], h)]

generate_proposals ==
    /\ pc = "propose"
    /\ LET found == Found(head)
       IN  /\ classId' = classId \o [b \in DOMAIN found |-> found[b].id]
           /\ objProbs' = objProbs \o [b \in DOMAIN found |-> found[b].prop]
    /\ IF head < Len(Heads)
       THEN head' = head + 1 /\ UNCHANGED <<pc, indexArray, stack>>
       ELSE /\ pc' = IF classId' = <<>> THEN "done" ELSE "sort"
            /\ indexArray' = [b \in DOMAIN classId' |-> b]
            /\ stack' = <<<<1, Len(classId')>>>>
            /\ UNCHANGED head
    /\ UNCHANGED <<input, low, high, key, key_index, overlap, filterId, i, group>>

-----------------------------------------------------------------------------
(* qsort_descent_inplace(input, left, right, indices) on objProbs *)

Left  == Head(stack)[1]
Right == Head(stack)[2]

(* The area of two boxes' intersection over that of their union does not   *)
(* tell them apart, and is 1 for a box and itself.                         *)
Overlaps(n) == {o \in SUBSET {{b, c} : b, c \in 1..n} : \A b \in 1..n : {b} \in o}

(* A call of one place or none returns at once.  The boxes' positions are  *)
(* looked at from here on.                                                 *)
qsort_descent_inplace ==
    /\ pc = "sort"
    /\ IF stack = <<>>
       THEN /\ pc' = "nms" /\ filterId' = Min(ToSet(classId)) /\ i' = 1
            /\ overlap' \in Overlaps(validCount)
            /\ UNCHANGED sortVars
       ELSE /\ IF Left < Right
               THEN /\ pc' = "down"
                    /\ low' = Left /\ high' = Right
                    /\ key' = objProbs[Left] /\ key_index' = indexArray[Left]
                    /\ UNCHANGED stack
               ELSE stack' = Tail(stack) /\ UNCHANGED <<pc, low, high, key, key_index>>
            /\ UNCHANGED <<overlap, filterId, i>>
    /\ UNCHANGED <<head, boxVars, objProbs, indexArray, group>>

(* input[to] = input[from], with its index. *)
Move(to, from) == /\ objProbs' = [objProbs EXCEPT ![to] = objProbs[from]]
                  /\ indexArray' = [indexArray EXCEPT ![to] = indexArray[from]]

(* Mutant: the index stays behind. *)
DownWithoutIndex ==
    /\ pc = "down" /\ pc' = "up"
    /\ high' = Max({low} \cup {h \in low..high : objProbs[h] > key})
    /\ objProbs' = [objProbs EXCEPT ![low] = objProbs[high']]
    /\ UNCHANGED <<head, boxVars, indexArray, stack, low, key, key_index, overlap, filterId, i, group>>

(* high moves down to a score above the key, which fills the hole at low. *)
down == /\ pc = "down" /\ pc' = "up"
        /\ high' = Max({low} \cup {h \in low..high : objProbs[h] > key})
        /\ Move(low, high')
        /\ UNCHANGED <<head, boxVars, stack, low, key, key_index, overlap, filterId, i, group>>

(* low moves up to a score below the key, which fills the hole at high. *)
up == /\ pc = "up"
      /\ low' = Min({high} \cup {l \in low..high : objProbs[l] < key})
      /\ Move(high, low')
      /\ pc' = IF low' < high THEN "down" ELSE "place"
      /\ UNCHANGED <<head, boxVars, stack, high, key, key_index, overlap, filterId, i, group>>

(* The key goes to the hole, and the two sides are sorted. *)
place == /\ pc = "place" /\ pc' = "sort"
         /\ objProbs' = [objProbs EXCEPT ![low] = key]
         /\ indexArray' = [indexArray EXCEPT ![low] = key_index]
         /\ stack' = <<<<Left, low - 1>>, <<low + 1, Right>>>> \o Tail(stack)
         /\ UNCHANGED <<head, boxVars, low, high, key, key_index, overlap, filterId, i, group>>

-----------------------------------------------------------------------------
(* nms_sorted_bboxes, one turn of its outer loop.  The class is looked up  *)
(* at the place i, not at the box indexArray[i].                           *)

Later == {c \in ToSet(classId) : c > filterId}

NextTurn == IF i < validCount THEN i' = i + 1 /\ UNCHANGED <<pc, filterId>>
            ELSE IF Later # {} THEN i' = 1 /\ filterId' = Min(Later) /\ UNCHANGED pc
            ELSE pc' = "collect" /\ UNCHANGED <<i, filterId>>

(* Mutant: only the next place is compared. *)
NeighbourOnly ==
    /\ pc = "nms"
    /\ LET n == indexArray[i]
       IN  indexArray' = IF n = 0 \/ classId[i] # filterId THEN indexArray
                         ELSE [j \in DOMAIN indexArray |->
                                  IF j = i + 1 /\ {n, indexArray[j]} \in overlap THEN 0
                                  ELSE indexArray[j]]
    /\ NextTurn
    /\ UNCHANGED <<head, boxVars, objProbs, sortVars, overlap, group>>

nms_sorted_bboxes ==
    /\ pc = "nms"
    /\ LET n == indexArray[i]
       IN  indexArray' = IF n = 0 \/ classId[i] # filterId THEN indexArray
                         ELSE [j \in DOMAIN indexArray |->
                                  IF j > i /\ {n, indexArray[j]} \in overlap THEN 0
                                  ELSE indexArray[j]]
    /\ NextTurn
    /\ UNCHANGED <<head, boxVars, objProbs, sortVars, overlap, group>>

-----------------------------------------------------------------------------
(* The places that are left, at most OBJ_NUMB_MAX_SIZE. *)

Result(p) == [box |-> indexArray[p], id |-> classId[indexArray[p]], prop |-> objProbs[p]]

Places == Ascending({p \in DOMAIN indexArray : indexArray[p] # 0})

(* The label of a result is copied from what labels points to; there may   *)
(* be none.                                                                *)
Report(results) == /\ group' = results
                   /\ pc' = IF \A r \in DOMAIN results : results[r].id \in labels
                            THEN "done" ELSE "crashed"
                   /\ UNCHANGED <<head, boxVars, objProbs, indexArray, sortVars, overlap, filterId, i>>

(* Mutant: the limit counts places, not results. *)
LimitPlaces ==
    /\ pc = "collect"
    /\ Report([r \in {r \in DOMAIN Places : Places[r] <= OBJ_NUMB_MAX_SIZE} |-> Result(Places[r])])

(* Mutant: no limit. *)
NoLimit == pc = "collect" /\ Report([r \in DOMAIN Places |-> Result(Places[r])])

collect ==
    /\ pc = "collect"
    /\ Report([r \in 1..Min({Len(Places), OBJ_NUMB_MAX_SIZE}) |-> Result(Places[r])])

Detect == generate_proposals \/ qsort_descent_inplace \/ down \/ up \/ place
          \/ nms_sorted_bboxes \/ collect
Next == /\ \/ post_process \/ load \/ other_calls \/ other_loads \/ deinitPostProcess
           \/ Detect /\ UNCHANGED labelVars
        /\ UNCHANGED may

Spec == Init /\ [][Next]_vars

-----------------------------------------------------------------------------
Box == 1..validCount

(* A result, with the box and the class it stands for; the group has room  *)
(* for OBJ_NUMB_MAX_SIZE of them.                                          *)
detect_result_t == [box : Box, id : Class, prop : Int]
detect_result_group_t == {results \in Seq(detect_result_t) : Len(results) <= OBJ_NUMB_MAX_SIZE}

Pcs == {"init", "labels", "propose", "sort", "down", "up", "place", "nms", "collect", "done", "crashed"}

TypeOK ==
    /\ may \in Scenarios /\ init \in BOOLEAN /\ labels \subseteq Class
    /\ line \in 0..OBJ_CLASS_NUM /\ other \in {Out, Back} \cup 0..OBJ_CLASS_NUM
    /\ pc \in Pcs /\ head \in DOMAIN Heads
    /\ classId \in Seq(Class) /\ Len(objProbs) = validCount
    /\ pc \notin {"init", "labels", "propose"} => indexArray \in [Box -> Box \cup {0}]
    /\ stack \in Seq(Nat \X Nat) /\ low \in 0..validCount /\ high \in 0..validCount
    /\ overlap \subseteq SUBSET Box /\ filterId \in Class \cup {0} /\ i \in 0..validCount
    /\ group \in detect_result_group_t

(* The boxes before the sort: the cells that pass, head after head. *)
Proposed == FlattenSeq([h \in DOMAIN Heads |-> Found(h)])

(* The sort orders the scores and moves each box along with its score,     *)
(* through every pass of the in-place partition and with equal scores.     *)
SortedTogether ==
    pc = "sort" /\ stack = <<>> =>
        /\ \A p, q \in Box : p < q => objProbs[p] >= objProbs[q]
        /\ \A p \in Box : objProbs[p] = Proposed[indexArray[p]].prop
        /\ ToSet(indexArray) = Box

Kept == ToSet(indexArray) \ {0}
Better(b, c) == \/ Proposed[b].prop > Proposed[c].prop
                \/ Proposed[b].prop = Proposed[c].prop /\ b # c

(* Greedy suppression: boxes of one class that are kept do not overlap,    *)
(* and one is dropped only for a kept one of its class that is as good.    *)
IsGreedy ==
    pc = "collect" =>
        /\ \A b, c \in Kept : b # c /\ classId[b] = classId[c] => {b, c} \notin overlap
        /\ \A c \in Box \ Kept : \E b \in Kept : /\ classId[b] = classId[c]
                                                 /\ {b, c} \in overlap
                                                 /\ Better(b, c)

(* The report is the best of what is kept: nothing left out is better than *)
(* what is in it, and nothing is left out while there is room.             *)
BestKept ==
    pc = "done" /\ validCount > 0 =>
        /\ Len(group) = Min({Cardinality(Kept), OBJ_NUMB_MAX_SIZE})
        /\ \A r \in DOMAIN group :
               /\ group[r].box \in Kept /\ group[r].id = Proposed[group[r].box].id
               /\ group[r].prop = Proposed[group[r].box].prop
               /\ \A b \in Kept \ {group[q].box : q \in DOMAIN group} :
                      Proposed[b].prop <= group[r].prop

(* The 8-bit threshold is within a step of the real one, on each head's    *)
(* own scale: a cell that is clearly above becomes a box, one below by a   *)
(* step does not.                                                          *)
Cells == UNION {{h} \X (1..Heads[h]) : h \in DOMAIN Heads}
Conf(c) == Logit(input[c[1]][c[2]].conf, c[1])
Prob(c) == LET cell == input[c[1]][c[2]] IN Logit(cell.prob[MaxClass(cell)], c[1])
Clear(c) == Conf(c) >= thres /\ Prob(c) >= thres + qnt_scales[c[1]]
Near(c)  == Conf(c) > thres - qnt_scales[c[1]] /\ Prob(c) > thres
WithinStep ==
    pc = "done" => /\ Cardinality({c \in Cells : Clear(c)}) <= validCount
                   /\ validCount <= Cardinality({c \in Cells : Near(c)})

ReportsBest == BestKept /\ WithinStep

(* Every detection has its label, although the labels are loaded by        *)
(* whichever session is first and two may load them at once: one is        *)
(* missing only when the file is short, or after deinitPostProcess.        *)
LabelsKnown ==
    pc = "crashed" => may.lines < OBJ_CLASS_NUM \/ "deinit" \in may.others
=============================================================================
