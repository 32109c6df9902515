------------------------------ MODULE MppList ------------------------------
(***************************************************************************)
(* The linked list of src/mpp/encode/mpp_list.h: a ring of list_heads, one *)
(* of which stands for the list, and the loops over it.  rank is a history *)
(* variable that says in which order the nodes of the list belong.         *)
(***************************************************************************)
EXTENDS Integers

CONSTANT Node   \* the list_heads that are put into the list

Head == CHOOSE h : h \notin Node   \* the list_head of the list
None == CHOOSE n : n \notin Node \cup {Head}
All  == Node \cup {Head}

VARIABLES next, prev,       \* of every list_head
          list,             \* history: the nodes linked in
          rank, first, last,\* history: their order, and numbers beyond it
          how,              \* the loop: "safe", "entry", "reverse", or "no" loop
          pos, n,           \* of the loop
          begun, seen       \* history: the nodes it began with, and has left

linkVars  == <<next, prev>>
orderVars == <<list, rank, first, last>>
loopVars  == <<how, pos, n, begun, seen>>
vars      == <<linkVars, orderVars, loopVars>>

-----------------------------------------------------------------------------
(* INIT_LIST_HEAD, or LIST_HEAD, of the list; the nodes are not yet        *)
(* initialised.                                                            *)
Init == /\ next \in [All -> All] /\ next[Head] = Head
        /\ prev \in [All -> All] /\ prev[Head] = Head
        /\ list = {} /\ rank \in [Node -> Int] /\ first = 0 /\ last = 0
        /\ how = "no" /\ pos = None /\ n = None /\ begun = {} /\ seen = {}

(* Between two neighbours; the node is in neither place before. *)
__list_add(new, p, x) ==
    /\ prev' = [prev EXCEPT ![x] = new, ![new] = p]
    /\ next' = [next EXCEPT ![new] = x, ![p] = new]

(* At the head of the list: the node comes before all others. *)
list_add(new) ==
    /\ how = "no" /\ new \notin list
    /\ __list_add(new, Head, next[Head])
    /\ list' = list \cup {new} /\ first' = first - 1
    /\ rank' = [rank EXCEPT ![new] = first']
    /\ UNCHANGED <<last, loopVars>>

list_add_tail(new) ==
    /\ how = "no" /\ new \notin list
    /\ __list_add(new, prev[Head], Head)
    /\ list' = list \cup {new} /\ last' = last + 1
    /\ rank' = [rank EXCEPT ![new] = last']
    /\ UNCHANGED <<first, loopVars>>

(* __list_del of the entry's neighbours, then the entry is its own. *)
list_del_init(entry) ==
    /\ entry \in list
    /\ how = "no" \/ (how = "safe" /\ entry = pos)
    /\ prev' = [prev EXCEPT ![next[entry]] = prev[entry], ![entry] = entry]
    /\ next' = [next EXCEPT ![prev[entry]] = next[entry], ![entry] = entry]
    /\ list' = list \ {entry}
    /\ UNCHANGED <<rank, first, last, loopVars>>

list_is_last(entry) == next[entry] = Head
list_empty          == next[Head] = Head

-----------------------------------------------------------------------------
(* list_for_each_safe and list_for_each_entry_safe, how = "safe", have the *)
(* next node in n before the body, which may delete pos; list_for_each_entry *)
(* takes it from pos after the body.                                       *)

loop_begins == /\ how = "no" /\ how' \in {"safe", "entry"} /\ next[Head] # Head
               /\ pos' = next[Head] /\ n' = next[next[Head]]
               /\ begun' = list /\ seen' = {}
               /\ UNCHANGED <<linkVars, orderVars>>

(* list_for_each_entry_reverse, which has no n. *)
loop_begins_reverse == /\ how = "no" /\ how' = "reverse" /\ prev[Head] # Head
                       /\ pos' = prev[Head]
                       /\ begun' = list /\ seen' = {}
                       /\ UNCHANGED <<linkVars, orderVars, n>>

Following == CASE how = "safe"    -> n
               [] how = "entry"   -> next[pos]
               [] how = "reverse" -> prev[pos]

loop_turns == /\ how # "no" /\ Following # Head
              /\ pos' = Following /\ n' = next[Following]
              /\ seen' = seen \cup {pos}
              /\ UNCHANGED <<linkVars, orderVars, how, begun>>

loop_ends == /\ how # "no" /\ Following = Head
             /\ how' = "no" /\ seen' = seen \cup {pos}
             /\ UNCHANGED <<linkVars, orderVars, pos, n, begun>>

-----------------------------------------------------------------------------
Next == \/ \E node \in Node : list_add(node) \/ list_add_tail(node) \/ list_del_init(node)
        \/ loop_begins \/ loop_begins_reverse \/ loop_turns \/ loop_ends

Spec == Init /\ [][Next]_vars

-----------------------------------------------------------------------------
TypeOK == /\ next \in [All -> All] /\ prev \in [All -> All]
          /\ list \in SUBSET Node /\ rank \in [Node -> Int]
          /\ first \in Int /\ last \in Int /\ first <= last
          /\ how \in {"no", "safe", "entry", "reverse"}
          /\ begun \in SUBSET Node /\ seen \in SUBSET Node

(* No node of the list belongs between x and y. *)
Neighbours(x, y) ==
    /\ x # Head /\ y # Head => rank[x] < rank[y]
    /\ \A z \in list : ~ /\ x = Head \/ rank[x] < rank[z]
                         /\ y = Head \/ rank[z] < rank[y]

(* next goes from node to node in their order and back to the head, prev   *)
(* the other way round, after any additions and deletions.                 *)
Linked == \A x \in list \cup {Head} :
              /\ next[x] \in list \cup {Head} /\ prev[x] \in list \cup {Head}
              /\ prev[next[x]] = x /\ next[prev[x]] = x
              /\ Neighbours(x, next[x])

(* list_is_last and list_empty tell what the list holds. *)
Tells == /\ list_empty <=> list = {}
         /\ \A x \in list : list_is_last(x) <=> \A z \in list : rank[z] <= rank[x]

(* A loop visits every node of the list it began with once, also when its  *)
(* body deletes nodes as it visits them.                                   *)
VisitsOnce == /\ loop_turns => pos' \in begun \ seen'
              /\ loop_ends => seen' = begun
EachOnce == [][VisitsOnce]_vars
=============================================================================
