------------------------------ MODULE FifoQueue ------------------------------
(***************************************************************************)
(* What the two event queues of the audit system promise: a bounded first- *)
(* in first-out queue.  audisp/queue.c (events on their way to plugins)    *)
(* and audisp/plugins/remote/queue.c (events on their way to the remote    *)
(* server) are both shown to implement it.                                 *)
(***************************************************************************)
EXTENDS Integers, Sequences

CONSTANTS Element,   \* what can be queued
          Capacity   \* how many elements fit

VARIABLE fifo        \* the queued elements, oldest first

Init == fifo = << >>

(* An element is accepted behind everything queued, if there is room. *)
Put == \E e \in Element : Len(fifo) < Capacity /\ fifo' = Append(fifo, e)

(* Only the oldest element leaves. *)
Take == fifo # << >> /\ fifo' = Tail(fifo)

(* The queue is thrown away as a whole. *)
Clear == fifo' = << >>

Next == Put \/ Take \/ Clear

Spec == Init /\ [][Next]_fifo

(* A queue that is never thrown away. *)
DurableSpec == Init /\ [][Put \/ Take]_fifo
=============================================================================
