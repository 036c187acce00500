-------------------------------- MODULE Queue --------------------------------
(***************************************************************************)
(* The ring buffer of a queue_t (src/src/librertos.c, lines 1380-1469).    *)
(* queue_read() and queue_write() each do their work on it in one critical *)
(* section, so that calls of tasks and of interrupts come one after the    *)
(* other, in any order.  The tasks that wait to read are as in Semaphore.  *)
(*                                                                         *)
(* head and tail are byte offsets.  The item_size bytes that memcpy()      *)
(* moves at an offset are one item, found again only at that offset.       *)
(***************************************************************************)
EXTENDS Integers, Sequences

CONSTANTS Item,
          que_size,  \* number of items the queue can hold
          item_size  \* size of an item in bytes

ASSUME SizeAssumption == que_size \in 1 .. 255 /\ item_size \in 1 .. 255

VARIABLES free, used, \* uint8_t
          head, tail, \* uint16_t
          end,        \* uint16_t
          buff,       \* the items in the buffer, by offset
          data        \* what the last successful read copied

vars == <<free, used, head, tail, end, buff, data>>

UInt8(n) == n % 256
UInt16(n) == n % 65536

\* The places for items in the buffer, and their offsets.
Slot == 0 .. que_size - 1
OffsetOf(n) == n * item_size
Offset == {OffsetOf(n) : n \in Slot}

\* queue_init().  The buffer holds anything.
Init ==
    /\ free = que_size
    /\ used = 0
    /\ head = 0
    /\ tail = 0
    /\ end = UInt16(que_size * item_size)
    /\ buff \in [Offset -> Item]
    /\ data \in Item

\* Mutant: the offset goes back to 0 only after it has passed the end.
Advance_Past(offset) ==
    IF UInt16(offset + item_size) > end THEN 0 ELSE UInt16(offset + item_size)

\* The next item's offset: back to the start at the end of the buffer.
Advance(offset) ==
    IF UInt16(offset + item_size) >= end THEN 0 ELSE UInt16(offset + item_size)

\* queue_read(), when queue_can_be_read().
Read ==
    /\ used > 0
    /\ data' = buff[tail]
    /\ tail' = Advance(tail)
    /\ free' = UInt8(free + 1)
    /\ used' = UInt8(used - 1)
    /\ UNCHANGED <<head, end, buff>>

\* Mutant: queue_can_be_written() is not asked.
Write_Overwrites(d) ==
    /\ buff' = [buff EXCEPT ![head] = d]
    /\ head' = Advance(head)
    /\ free' = UInt8(free - 1)
    /\ used' = UInt8(used + 1)
    /\ UNCHANGED <<tail, end, data>>

\* queue_write(), when queue_can_be_written().
Write(d) ==
    /\ free > 0
    /\ buff' = [buff EXCEPT ![head] = d]
    /\ head' = Advance(head)
    /\ free' = UInt8(free - 1)
    /\ used' = UInt8(used + 1)
    /\ UNCHANGED <<tail, end, data>>

Next == Read \/ \E d \in Item : Write(d)

Spec == Init /\ [][Next]_vars

-----------------------------------------------------------------------------
(* Properties.                                                               *)

\* Slots are counted around the ring.
Wrap(n) == IF n >= que_size THEN n - que_size ELSE n

TailSlot == CHOOSE n \in Slot : tail = OffsetOf(n)

\* The ring is consistent: its counters stay within their widths and add up,
\* head and tail stay inside the buffer, at items, and head is as many items
\* after tail as are used (lines 1423-1428, 1452-1457).
RingOK ==
    /\ used \in 0 .. que_size
    /\ free = que_size - used
    /\ end = que_size * item_size
    /\ tail \in Offset
    /\ head = OffsetOf(Wrap(TailSlot + used))
    /\ buff \in [Offset -> Item]
    /\ data \in Item

\* The items written and not read yet, the oldest first.
Items == [i \in 1 .. used |-> buff[OffsetOf(Wrap(TailSlot + i - 1))]]

\* A queue is a bounded FIFO: no item is lost, read twice, overwritten or
\* read out of order, wherever the offsets wrap (lines 1415-1469).
Fifo == INSTANCE BoundedFifo WITH items <- Items, Capacity <- que_size

ImplementsFifo == Fifo!Spec
=============================================================================
