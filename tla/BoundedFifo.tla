----------------------------- MODULE BoundedFifo -----------------------------
(***************************************************************************)
(* What the byte queue of src/queue promises its callers: a FIFO of bytes  *)
(* with a capacity.  A put is all or nothing, a take removes the oldest    *)
(* bytes, as many as there are up to the number asked for, and a peek      *)
(* reads a slice without removing it.  Nothing is said of a ring, of       *)
(* indices or of storage: module StaticQ has those and implements this.    *)
(***************************************************************************)
EXTENDS Integers, Sequences

CONSTANTS Byte,  \* the bytes a caller may store
          Bufs,  \* the buffers a caller may put, sequences of bytes
          Sizes, \* the capacities a caller may ask for
          Word   \* 2^32: uint32_t arithmetic is modulo Word

VARIABLES fifo,     \* the bytes in the queue, oldest first
          capacity, \* 0 until the queue is initialised
          reply     \* the last call: what was asked, its code, its bytes

fifoVars == <<fifo, capacity, reply>>

Reply(op, asked, code, bytes) == [op |-> op, asked |-> asked, code |-> code, bytes |-> bytes]

Fits(n) == Len(fifo) < capacity /\ n <= capacity - Len(fifo)

Least(a, b) == IF a < b THEN a ELSE b

Init == /\ fifo = <<>>
        /\ capacity = 0
        /\ reply = Reply("none", 0, 0, <<>>)

Open(n) == /\ n >= 2
           /\ capacity' = n
           /\ fifo' = <<>>
           /\ reply' = Reply("init", n, 0, <<>>)

Clear == /\ fifo' = <<>>
         /\ reply' = Reply("erase", 0, 0, <<>>)
         /\ UNCHANGED capacity

Length == /\ reply' = Reply("len", 0, Len(fifo), <<>>)
          /\ UNCHANGED <<fifo, capacity>>

Put(buf) == /\ Fits(Len(buf))
            /\ fifo' = fifo \o buf
            /\ reply' = Reply("in", Len(buf), 0, <<>>)
            /\ UNCHANGED capacity

Take(n) == LET k == Least(n, Len(fifo)) IN
           /\ reply' = Reply("out", n, k, SubSeq(fifo, 1, k))
           /\ fifo' = SubSeq(fifo, k + 1, Len(fifo))
           /\ UNCHANGED capacity

Drop(n) == LET k == Least(n, Len(fifo)) IN
           /\ reply' = Reply("delete", n, k, <<>>)
           /\ fifo' = SubSeq(fifo, k + 1, Len(fifo))
           /\ UNCHANGED capacity

Peek(n, offset) ==
    /\ fifo # <<>>
    /\ offset + n <= Len(fifo)
    /\ reply' = Reply("preview", <<n, offset>>, n, SubSeq(fifo, offset + 1, offset + n))
    /\ UNCHANGED <<fifo, capacity>>

(* A peek whose offset + length overflows a word is promised nothing but   *)
(* that the queue is left alone.                                           *)
PeekOverflow(n, offset) ==
    /\ offset + n >= Word
    /\ reply' \in [op : {"preview"}, asked : {<<n, offset>>}, code : Int, bytes : Seq(Byte)]
    /\ UNCHANGED <<fifo, capacity>>

(* A refusal changes nothing, and there is one only when the call cannot   *)
(* be served: a bad size, a buffer with no room, a slice that is not       *)
(* there, or a NULL argument.                                              *)
Refuse(op, asked) == /\ \E code \in {-1, -2, -3} : reply' = Reply(op, asked, code, <<>>)
                     /\ UNCHANGED <<fifo, capacity>>

Refusal ==
    \/ \E n \in Sizes : n < 2 /\ Refuse("init", n)
    \/ \E buf \in Bufs : ~Fits(Len(buf)) /\ Refuse("in", Len(buf))
    \/ \E n, offset \in 0..(Word - 1) :
          (fifo = <<>> \/ offset + n > Len(fifo)) /\ Refuse("preview", <<n, offset>>)
    \/ Refuse("null", 0)

Next == \/ Clear \/ Length \/ Refusal
        \/ \E n \in Sizes : Open(n)
        \/ \E buf \in Bufs : Put(buf)
        \/ \E n \in 0..(Word - 1) : Take(n) \/ Drop(n)
        \/ \E n, offset \in 0..(Word - 1) : Peek(n, offset) \/ PeekOverflow(n, offset)

Spec == Init /\ [][Next]_fifoVars
=============================================================================
