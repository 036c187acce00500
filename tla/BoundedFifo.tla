----------------------------- MODULE BoundedFifo -----------------------------
(***************************************************************************)
(* What a queue_t promises: at most Capacity items wait, and they are read *)
(* in the order they were written, each once.                              *)
(***************************************************************************)
EXTENDS Naturals, Sequences

CONSTANTS Item, Capacity

VARIABLES items, \* what was written and not read yet, the oldest first
          data   \* what the last successful read returned

vars == <<items, data>>

Init ==
    /\ items = <<>>
    /\ data \in Item

Write(d) ==
    /\ Len(items) < Capacity
    /\ items' = Append(items, d)
    /\ UNCHANGED data

Read ==
    /\ items # <<>>
    /\ data' = Head(items)
    /\ items' = Tail(items)

Next == Read \/ \E d \in Item : Write(d)

Spec == Init /\ [][Next]_vars
=============================================================================
