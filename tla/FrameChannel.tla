---------------------------- MODULE FrameChannel ----------------------------
(***************************************************************************)
(* What main.cc wants of its queue: a bounded FIFO channel of frames from  *)
(* the camera to the inference loop, which holds one frame at a time.  A   *)
(* frame that finds the channel full is lost, and only such a frame is.    *)
(***************************************************************************)
EXTENDS Integers, Sequences

CONSTANTS Frame,   \* the frames; a name is used again when its frame is gone
          NoFrame,
          Capacity \* frames the channel holds

VARIABLES chan, \* the frames waiting, oldest first
          hand, \* the frame the inference loop works on, or NoFrame
          lost  \* frames refused and never released

chanVars == <<chan, hand, lost>>

Queued == {chan[i] : i \in DOMAIN chan}

Init == chan = <<>> /\ hand = NoFrame /\ lost = {}

Accept(f) == /\ f \notin Queued \cup lost \cup {hand}
             /\ Len(chan) < Capacity
             /\ chan' = Append(chan, f)
             /\ UNCHANGED <<hand, lost>>

Refuse(f) == /\ f \notin Queued \cup lost \cup {hand}
             /\ Len(chan) = Capacity
             /\ lost' = lost \cup {f}
             /\ UNCHANGED <<chan, hand>>

Take == /\ hand = NoFrame /\ chan # <<>>
        /\ hand' = Head(chan)
        /\ chan' = Tail(chan)
        /\ UNCHANGED lost

Finish == /\ hand # NoFrame
          /\ hand' = NoFrame
          /\ UNCHANGED <<chan, lost>>

(* The name of a lost frame stands for a new one. *)
Reuse(f) == /\ f \in lost
            /\ lost' = lost \ {f}
            /\ UNCHANGED <<chan, hand>>

Next == \/ Take \/ Finish
        \/ \E f \in Frame : Accept(f) \/ Refuse(f) \/ Reuse(f)

Spec == Init /\ [][Next]_chanVars
=============================================================================
