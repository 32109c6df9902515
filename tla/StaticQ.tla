------------------------------- MODULE StaticQ -------------------------------
(***************************************************************************)
(* The byte ring of src/queue/static_q.cpp.  One action is one call of the *)
(* API, run to its return: the calls are for one thread at a time, the     *)
(* __disable_irq of static_q.h expands to nothing (module Pipeline takes   *)
(* the byte loops apart).  The copy loops are written in closed form: what *)
(* the n iterations leave in data, head, tail and len.                     *)
(***************************************************************************)
EXTENDS Integers, Sequences

CONSTANTS Byte,  \* the values of a uint8_t
          Bufs,  \* the buffers handed to queue_in
          Sizes, \* the sizes handed to queue_init
          Word   \* 2^32, the modulus of uint32_t

ASSUME QAssumption ==
    /\ Word \in Nat \ {0}
    /\ Bufs \subseteq Seq(Byte)
    /\ Sizes \subseteq {s \in Nat : 2 * s <= Word}
    /\ Byte # {}

VARIABLES data,  \* the caller's storage; its bytes outside the ring are any
          size, head, tail, len,
          reply  \* the last call: what was asked, the code and bytes returned

vars == <<data, size, head, tail, len, reply>>

Word32 == 0..(Word - 1)

(* AArch64: udiv by zero gives 0, so x % 0 leaves x. *)
Mod(x, n) == IF n = 0 THEN x ELSE x % n

Least(a, b) == IF a < b THEN a ELSE b

Reply(op, asked, code, bytes) == [op |-> op, asked |-> asked, code |-> code, bytes |-> bytes]

Init == /\ data = <<>>
        /\ size = 0 /\ head = 0 /\ tail = 0 /\ len = 0
        /\ reply = Reply("none", 0, 0, <<>>)

(* The storage is the caller's array: what it holds on entry is arbitrary. *)
queue_init(n) ==
    IF n < 2
    THEN /\ reply' = Reply("init", n, -1, <<>>)
         /\ UNCHANGED <<data, size, head, tail, len>>
    ELSE /\ data' \in [0..(n - 1) -> Byte]
         /\ size' = n
         /\ head' = 0 /\ tail' = 0 /\ len' = 0
         /\ reply' = Reply("init", n, 0, <<>>)

(* Mutant: the tail is left where it was. *)
EraseKeepsTail ==
    /\ head' = 0 /\ len' = 0
    /\ reply' = Reply("erase", 0, 0, <<>>)
    /\ UNCHANGED <<data, size, tail>>

queue_erase ==
    /\ head' = 0 /\ tail' = 0 /\ len' = 0
    /\ reply' = Reply("erase", 0, 0, <<>>)
    /\ UNCHANGED <<data, size>>

queue_len ==
    /\ reply' = Reply("len", 0, len, <<>>)
    /\ UNCHANGED <<data, size, head, tail, len>>

(* The iteration of queue_in's loop that writes cell i, if it writes it. *)
Turn(i) == Mod(i + size - tail, size)

queue_in(buf) ==
    LET n == Len(buf)
        code == IF len >= size THEN -2 ELSE IF n > size - len THEN -3 ELSE 0
    IN  /\ reply' = Reply("in", n, code, <<>>)
        /\ UNCHANGED <<size, head>>
        /\ IF code = 0
           THEN /\ data' = [i \in DOMAIN data |->
                              IF Turn(i) < n THEN buf[Turn(i) + 1] ELSE data[i]]
                /\ tail' = Mod(tail + n, size)
                /\ len' = len + n
           ELSE UNCHANGED <<data, tail, len>>

(* The n bytes read from cell h on. *)
Read(h, n) == [k \in 1..n |-> data[Mod(h + (k - 1), size)]]

queue_out(want) ==
    LET n == Least(want, len)
    IN  /\ reply' = Reply("out", want, n, Read(head, n))
        /\ head' = IF n = 0 THEN head ELSE Mod(head + n, size)
        /\ len' = len - n
        /\ UNCHANGED <<data, size, tail>>

(* Mutant: the slice is read from head, whatever the offset. *)
PreviewFromHead(n, offset) ==
    LET code == IF len = 0 THEN -2
                ELSE IF len < (offset + n) % Word THEN -3 ELSE n
    IN  /\ reply' = Reply("preview", <<n, offset>>, code, IF code < 0 THEN <<>> ELSE Read(head, n))
        /\ UNCHANGED <<data, size, head, tail, len>>

(* offset + len and head + offset are uint32_t sums. *)
queue_preview(n, offset) ==
    LET code == IF len = 0 THEN -2
                ELSE IF len < (offset + n) % Word THEN -3 ELSE n
        first == Mod((head + offset) % Word, size)
    IN  /\ reply' = Reply("preview", <<n, offset>>, code, IF code < 0 THEN <<>> ELSE Read(first, n))
        /\ UNCHANGED <<data, size, head, tail, len>>

(* Mutant: more can be deleted than there is. *)
DeleteUnclamped(want) ==
    /\ reply' = Reply("delete", want, want, <<>>)
    /\ head' = Mod(head + want, size)
    /\ len' = len - want
    /\ UNCHANGED <<data, size, tail>>

queue_delete_data(want) ==
    LET n == Least(want, len)
    IN  /\ reply' = Reply("delete", want, n, <<>>)
        /\ head' = Mod(head + n, size)
        /\ len' = len - n
        /\ UNCHANGED <<data, size, tail>>

(* Every call tests its pointers first and returns -1. *)
NullArgument ==
    /\ reply' = Reply("null", 0, -1, <<>>)
    /\ UNCHANGED <<data, size, head, tail, len>>

Next == \/ queue_erase \/ queue_len \/ NullArgument
        \/ \E n \in Sizes : queue_init(n)
        \/ \E buf \in Bufs : queue_in(buf)
        \/ \E n \in Word32 : queue_out(n) \/ queue_delete_data(n)
        \/ \E n, offset \in Word32 : queue_preview(n, offset)

Spec == Init /\ [][Next]_vars

-----------------------------------------------------------------------------
(* Every index, length and stored byte stays in its uint32_t or uint8_t.   *)
TypeOK == /\ size \in {0} \cup Sizes
          /\ data \in [0..(size - 1) -> Byte]
          /\ head \in Word32 /\ tail \in Word32 /\ len \in Word32
          /\ reply.code \in Int /\ reply.bytes \in Seq(Byte)

(* The ring keeps its shape over any sequence of calls, refused ones and   *)
(* re-initialisations included: before queue_init all is zero, afterwards  *)
(* head and tail index the storage and are len apart, modulo size.         *)
RingShape == IF size = 0
             THEN head = 0 /\ tail = 0 /\ len = 0
             ELSE /\ size >= 2
                  /\ head < size
                  /\ len <= size
                  /\ tail = Mod(head + len, size)

(* The bytes between head and tail, oldest first. *)
Contents == Read(head, len)

Fifo == INSTANCE BoundedFifo WITH fifo <- Contents, capacity <- size

(* The ring is the FIFO: queue_in stores all of a buffer or refuses it for *)
(* want of room, queue_out and queue_delete_data remove the oldest bytes,  *)
(* queue_preview reads the slice asked for and no call disturbs the rest.  *)
IsFifo == Fifo!Spec
=============================================================================
