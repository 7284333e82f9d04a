----------------------------- MODULE BoundedFifo -----------------------------
(***************************************************************************)
(* What the packet queue between the controller's receive loop and a WTP   *)
(* thread promises: packets come out in the order they went in, none is    *)
(* altered or invented, and at most Capacity of them wait.  A packet that  *)
(* is refused on arrival leaves no trace, so a refusal is a stuttering     *)
(* step.                                                                   *)
(***************************************************************************)
EXTENDS Naturals, Sequences

CONSTANTS Capacity,   \* most packets that can wait
          Packet      \* the packets

VARIABLES fifo,       \* packets waiting, oldest first
          taken       \* the packet taken last

vars == <<fifo, taken>>

Init == fifo = <<>> /\ taken \notin Packet

Put(p) == /\ Len(fifo) < Capacity
          /\ fifo' = Append(fifo, p)
          /\ UNCHANGED taken

Take == /\ fifo # <<>>
        /\ taken' = Head(fifo)
        /\ fifo' = Tail(fifo)

Next == (\E p \in Packet : Put(p)) \/ Take

Spec == Init /\ [][Next]_vars
==============================================================================
