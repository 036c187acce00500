----------------------------- MODULE QueueProofs -----------------------------
(***************************************************************************)
(* Proofs about Queue, for every que_size and item_size that uint8_t holds *)
(* and for any items: the ring stays consistent, no counter or offset      *)
(* overflows, and the queue implements a bounded FIFO.                     *)
(***************************************************************************)
EXTENDS Queue, TLAPS

-----------------------------------------------------------------------------
(* Arithmetic of slots and offsets.                                          *)

\* What fits uint16_t is not changed by it.
LEMMA SmallIsKept ==
    ASSUME NEW a \in Nat, a <= 65025
    PROVE  UInt16(a) = a
BY DEF UInt16

\* A function on 1 .. n is a sequence.
LEMMA FunctionIsSequence ==
    ASSUME NEW n \in Nat, NEW f \in [1 .. n -> Item]
    PROVE  f \in Seq(Item) /\ Len(f) = n
OBVIOUS

\* Consecutive slots are item_size bytes apart, inside the buffer.
LEMMA OffsetMonotone ==
    ASSUME NEW m \in Nat, NEW n \in Nat, m < n
    PROVE  /\ OffsetOf(m) \in Nat /\ OffsetOf(n) \in Nat
           /\ OffsetOf(m) + item_size <= OffsetOf(n)
<1>1. item_size \in Nat \ {0}
  BY SizeAssumption
<1>2. (n - m) * item_size >= 1 * item_size
  BY <1>1
<1>3. n * item_size = m * item_size + (n - m) * item_size
  BY <1>1
<1>4. m * item_size \in Nat /\ n * item_size \in Nat
  BY <1>1
<1> QED
  BY <1>1, <1>2, <1>3, <1>4 DEF OffsetOf

\* Two slots with the same offset are the same.
LEMMA OffsetInjective ==
    ASSUME NEW m \in Nat, NEW n \in Nat, OffsetOf(m) = OffsetOf(n)
    PROVE  m = n
<1>1. item_size \in Nat \ {0}
  BY SizeAssumption
<1>2. ~(m < n)
  BY <1>1, OffsetMonotone
<1>3. ~(n < m)
  BY <1>1, OffsetMonotone
<1> QED
  BY <1>2, <1>3

\* The whole buffer fits uint16_t, with room for one more item.
LEMMA BufferFits ==
    /\ OffsetOf(que_size) \in Nat
    /\ que_size * item_size = OffsetOf(que_size)
    /\ OffsetOf(que_size) <= 65025
<1>1. que_size \in Nat /\ item_size \in Nat /\ que_size <= 255 /\ item_size <= 255
  BY SizeAssumption
<1>2. que_size * item_size <= 255 * item_size
  BY <1>1
<1> QED
  BY <1>1, <1>2 DEF OffsetOf

\* Advancing an offset is going to the next slot around the ring.
LEMMA AdvanceIsNextSlot ==
    ASSUME NEW n \in Slot, end = que_size * item_size
    PROVE  Advance(OffsetOf(n)) = OffsetOf(Wrap(n + 1))
<1>1. /\ que_size \in Nat \ {0} /\ item_size \in 1 .. 255
      /\ n \in Nat /\ n < que_size
  BY SizeAssumption DEF Slot
<1>2. OffsetOf(n) \in Nat /\ OffsetOf(n) + item_size <= OffsetOf(que_size)
  BY <1>1, OffsetMonotone
<1>3. OffsetOf(n + 1) = OffsetOf(n) + item_size /\ OffsetOf(0) = 0
  BY <1>1 DEF OffsetOf
<1>4. UInt16(OffsetOf(n) + item_size) = OffsetOf(n + 1)
  <2>1. OffsetOf(que_size) \in Nat /\ OffsetOf(que_size) <= 65025
    BY BufferFits
  <2>2. /\ OffsetOf(n) + item_size \in Nat
        /\ OffsetOf(n) + item_size <= 65025
    BY <1>1, <1>2, <2>1
  <2> QED
    BY <2>2, <1>3, SmallIsKept
<1>5. end = OffsetOf(que_size)
  BY BufferFits
<1>6. CASE n + 1 = que_size
  <2>1. Wrap(n + 1) = 0
    BY <1>1, <1>6 DEF Wrap
  <2>2. Advance(OffsetOf(n)) = 0
    BY <1>2, <1>4, <1>5, <1>6, BufferFits DEF Advance
  <2> QED
    BY <2>1, <2>2, <1>3
<1>7. CASE n + 1 < que_size
  <2>1. Wrap(n + 1) = n + 1
    BY <1>1, <1>7 DEF Wrap
  <2>2. /\ OffsetOf(n + 1) \in Nat
        /\ OffsetOf(n + 1) + item_size <= OffsetOf(que_size)
    BY <1>1, <1>7, OffsetMonotone
  <2>3. ~(OffsetOf(n + 1) >= OffsetOf(que_size))
    BY <2>2, <1>1, BufferFits
  <2> QED
    BY <2>1, <2>3, <1>4, <1>5 DEF Advance
<1> QED
  BY <1>1, <1>6, <1>7

\* The slot of the oldest item is the one tail points to.
LEMMA TailSlotIs ==
    ASSUME NEW n \in Slot, tail = OffsetOf(n)
    PROVE  TailSlot = n
<1>1. TailSlot \in Slot /\ tail = OffsetOf(TailSlot)
  BY DEF TailSlot
<1>2. Slot \subseteq Nat
  BY SizeAssumption DEF Slot
<1>3. TailSlot \in Nat /\ n \in Nat /\ OffsetOf(TailSlot) = OffsetOf(n)
  BY <1>1, <1>2
<1> QED
  BY <1>3, OffsetInjective

LEMMA TailSlotIsPrime ==
    ASSUME NEW n \in Slot, tail' = OffsetOf(n)
    PROVE  TailSlot' = n
<1>1. TailSlot' \in Slot /\ tail' = OffsetOf(TailSlot')
  BY DEF TailSlot
<1>2. Slot \subseteq Nat
  BY SizeAssumption DEF Slot
<1>3. TailSlot' \in Nat /\ n \in Nat /\ OffsetOf(TailSlot') = OffsetOf(n)
  BY <1>1, <1>2
<1> QED
  BY <1>3, OffsetInjective

\* Slots that are less than a turn apart are different.
LEMMA WrapInjective ==
    ASSUME NEW t \in Slot, NEW i \in 0 .. que_size, NEW j \in 0 .. que_size,
           i < j, j < que_size
    PROVE  /\ Wrap(t + i) \in Slot /\ Wrap(t + j) \in Slot
           /\ Wrap(t + i) # Wrap(t + j)
           /\ OffsetOf(Wrap(t + i)) # OffsetOf(Wrap(t + j))
<1>1. /\ Wrap(t + i) \in Slot /\ Wrap(t + j) \in Slot
      /\ Wrap(t + i) # Wrap(t + j)
  BY SizeAssumption DEF Wrap, Slot
<1> QED
  BY <1>1, OffsetInjective, SizeAssumption DEF Slot

-----------------------------------------------------------------------------
(* The ring stays consistent.                                                *)

LEMMA InitRing == Init => RingOK
<1> SUFFICES ASSUME Init PROVE RingOK
  OBVIOUS
<1>1. que_size \in 1 .. 255 /\ item_size \in 1 .. 255
  BY SizeAssumption
<1>2. 0 \in Slot /\ OffsetOf(0) = 0
  BY <1>1 DEF Slot, OffsetOf
<1>3. TailSlot = 0
  BY <1>2, TailSlotIs DEF Init
<1>4. end = que_size * item_size
  <2>1. que_size * item_size \in Nat /\ que_size * item_size <= 65025
    <3>1. que_size * item_size = OffsetOf(que_size)
      BY BufferFits
    <3> QED
      BY <3>1, BufferFits
  <2> QED
    BY <2>1, SmallIsKept DEF Init
<1>5. head = OffsetOf(Wrap(TailSlot + used))
  BY <1>1, <1>2, <1>3 DEF Init, Wrap
<1>6. tail \in Offset
  BY <1>2 DEF Init, Offset
<1> QED
  BY <1>1, <1>4, <1>5, <1>6 DEF Init, RingOK

\* What RingOK says of a state, with the slot of tail by name.
LEMMA RingFacts ==
    ASSUME RingOK
    PROVE  /\ TailSlot \in Slot /\ tail = OffsetOf(TailSlot)
           /\ used \in 0 .. que_size /\ free = que_size - used
           /\ que_size \in 1 .. 255
           /\ used < que_size => Wrap(TailSlot + used) \in Slot
           /\ \A i \in 1 .. used : Wrap(TailSlot + i - 1) \in Slot
<1>1. \E n \in Slot : tail = OffsetOf(n)
  BY DEF RingOK, Offset
<1>2. TailSlot \in Slot /\ tail = OffsetOf(TailSlot)
  BY <1>1 DEF TailSlot
<1> QED
  BY <1>2, SizeAssumption DEF RingOK, Wrap, Slot

\* A write puts the item in the first free slot and advances head.
LEMMA WriteRing ==
    ASSUME RingOK, NEW d \in Item, Write(d)
    PROVE  /\ RingOK'
           /\ TailSlot' = TailSlot /\ used' = used + 1
<1> DEFINE t == TailSlot
<1>1. /\ t \in Slot /\ tail = OffsetOf(t)
      /\ used \in 0 .. que_size - 1 /\ free = que_size - used
      /\ que_size \in 1 .. 255
  BY RingFacts DEF Write
<1>2. TailSlot' = t
  BY <1>1, TailSlotIsPrime DEF Write
<1> HIDE DEF t
<1>3. used' = used + 1 /\ free' = que_size - used'
  BY <1>1 DEF Write, UInt8
<1>4. Wrap(t + used) \in Slot /\ head = OffsetOf(Wrap(t + used))
  BY <1>1, SizeAssumption DEF RingOK, Wrap, Slot, t
<1>5. head' = OffsetOf(Wrap(Wrap(t + used) + 1))
  BY <1>4, AdvanceIsNextSlot DEF Write, RingOK
<1>6. Wrap(Wrap(t + used) + 1) = Wrap(t + (used + 1))
  BY <1>1, SizeAssumption DEF Wrap, Slot
<1>7. buff' \in [Offset -> Item]
  BY <1>4 DEF Write, RingOK, Offset
<1>8. tail' \in Offset /\ end' = que_size * item_size /\ data' \in Item
  BY DEF Write, RingOK
<1>9. used' \in 0 .. que_size
  BY <1>1, <1>3
<1>10. head' = OffsetOf(Wrap(TailSlot' + used'))
  BY <1>2, <1>3, <1>5, <1>6
<1> QED
  BY <1>2, <1>3, <1>7, <1>8, <1>9, <1>10 DEF RingOK, t

\* A read takes the item of the tail slot and advances tail.
LEMMA ReadRing ==
    ASSUME RingOK, Read
    PROVE  /\ RingOK'
           /\ TailSlot' = Wrap(TailSlot + 1) /\ used' = used - 1
<1> DEFINE t == TailSlot
<1>1. /\ t \in Slot /\ tail = OffsetOf(t)
      /\ used \in 1 .. que_size /\ free = que_size - used
      /\ que_size \in 1 .. 255
  BY RingFacts DEF Read
<1> HIDE DEF t
<1>2. Wrap(t + 1) \in Slot
  BY <1>1 DEF Wrap, Slot
<1>3. tail' = OffsetOf(Wrap(t + 1))
  BY <1>1, AdvanceIsNextSlot DEF Read, RingOK
<1>4. TailSlot' = Wrap(t + 1)
  BY <1>2, <1>3, TailSlotIsPrime
<1>5. used' = used - 1 /\ free' = que_size - used'
  BY <1>1 DEF Read, UInt8
<1>6. Wrap(Wrap(t + 1) + (used - 1)) = Wrap(t + used)
  BY <1>1 DEF Wrap, Slot
<1>7. head' = OffsetOf(Wrap(TailSlot' + used'))
  BY <1>4, <1>5, <1>6 DEF Read, RingOK, t
<1>8. data' \in Item
  BY DEF Read, RingOK
<1>9. tail' \in Offset /\ end' = que_size * item_size /\ buff' \in [Offset -> Item]
  BY <1>2, <1>3 DEF Read, RingOK, Offset
<1>10. used' \in 0 .. que_size
  BY <1>1, <1>5
<1> QED
  BY <1>4, <1>5, <1>7, <1>8, <1>9, <1>10 DEF RingOK, t

LEMMA NextRing == RingOK /\ [Next]_vars => RingOK'
<1> SUFFICES ASSUME RingOK, [Next]_vars PROVE RingOK'
  OBVIOUS
<1>1. CASE Read
  BY <1>1, ReadRing
<1>2. CASE \E d \in Item : Write(d)
  BY <1>2, WriteRing
<1>3. CASE UNCHANGED vars
  BY <1>3 DEF vars, RingOK, TailSlot
<1> QED
  BY <1>1, <1>2, <1>3 DEF Next

\* The ring of a queue of any size is consistent in every reachable state.
THEOREM RingCorrect == Spec => []RingOK
<1>1. Init => RingOK
  BY InitRing
<1>2. RingOK /\ [Next]_vars => RingOK'
  BY NextRing
<1> QED
  BY <1>1, <1>2, PTL DEF Spec

\* No arithmetic of queue_read() or queue_write() wraps: the offset computed
\* before it is compared with end fits uint16_t, the counters fit uint8_t.
NoOverflow ==
    /\ \A offset \in {head, tail} :
          UInt16(offset + item_size) = offset + item_size
    /\ free > 0 => UInt8(used + 1) = used + 1 /\ UInt8(free - 1) = free - 1
    /\ used > 0 => UInt8(free + 1) = free + 1 /\ UInt8(used - 1) = used - 1

THEOREM NothingOverflows == Spec => []NoOverflow
<1>1. RingOK => NoOverflow
  <2> SUFFICES ASSUME RingOK PROVE NoOverflow
    OBVIOUS
  <2>1. /\ TailSlot \in Slot /\ tail = OffsetOf(TailSlot)
        /\ used \in 0 .. que_size /\ free = que_size - used
        /\ que_size \in 1 .. 255
    BY RingFacts
  <2>2. \A n \in Slot : UInt16(OffsetOf(n) + item_size) = OffsetOf(n) + item_size
    <3> SUFFICES ASSUME NEW n \in Slot
                 PROVE  UInt16(OffsetOf(n) + item_size) = OffsetOf(n) + item_size
      OBVIOUS
    <3>1. /\ OffsetOf(n) \in Nat
          /\ OffsetOf(n) + item_size <= OffsetOf(que_size)
      BY <2>1, OffsetMonotone DEF Slot
    <3>2. OffsetOf(que_size) \in Nat /\ OffsetOf(que_size) <= 65025
      BY BufferFits
    <3>3. /\ OffsetOf(n) + item_size \in Nat
          /\ OffsetOf(n) + item_size <= 65025
      BY <3>1, <3>2, SizeAssumption
    <3> QED
      BY <3>3, SmallIsKept
  <2>3. Wrap(TailSlot + used) \in Slot
    BY <2>1 DEF Wrap, Slot
  <2>4. \A offset \in {head, tail} :
           UInt16(offset + item_size) = offset + item_size
    BY <2>1, <2>2, <2>3 DEF RingOK
  <2>5. /\ free > 0 => UInt8(used + 1) = used + 1 /\ UInt8(free - 1) = free - 1
        /\ used > 0 => UInt8(free + 1) = free + 1 /\ UInt8(used - 1) = used - 1
    BY <2>1 DEF UInt8
  <2> QED
    BY <2>4, <2>5 DEF NoOverflow
<1> QED
  BY <1>1, RingCorrect, PTL

-----------------------------------------------------------------------------
(* The refinement.                                                           *)

\* The items of a consistent ring are a sequence of items.
LEMMA ItemsAreSequence ==
    ASSUME RingOK
    PROVE  Items \in Seq(Item) /\ Len(Items) = used
<1>1. /\ used \in Nat
      /\ \A i \in 1 .. used : OffsetOf(Wrap(TailSlot + i - 1)) \in Offset
  BY RingFacts DEF Offset
<1>2. Items \in [1 .. used -> Item]
  BY <1>1 DEF Items, RingOK
<1> QED
  BY <1>1, <1>2, FunctionIsSequence

\* A write appends its item.
LEMMA WriteImplements ==
    ASSUME RingOK, NEW d \in Item, Write(d)
    PROVE  Fifo!Write(d)
<1> DEFINE t == TailSlot
<1>1. /\ t \in Slot /\ used \in 0 .. que_size - 1 /\ que_size \in 1 .. 255
      /\ head = OffsetOf(Wrap(t + used)) /\ Wrap(t + used) \in Slot
  BY RingFacts DEF Write, RingOK
<1>2. TailSlot' = t /\ used' = used + 1 /\ RingOK'
  BY WriteRing
<1>3. Items \in Seq(Item) /\ Len(Items) = used
  BY ItemsAreSequence
<1> HIDE DEF t
<1>4. \A i \in 1 .. used + 1 :
         Items'[i] = buff'[OffsetOf(Wrap(t + i - 1))]
  BY <1>2 DEF Items
<1>5. Items'[used + 1] = d
  <2>1. t + (used + 1) - 1 = t + used
    BY <1>1 DEF Slot
  <2>2. Items'[used + 1] = buff'[head]
    BY <1>1, <1>4, <2>1
  <2> QED
    BY <2>2, <1>1 DEF Write, RingOK, Offset
<1>6. ASSUME NEW i \in 1 .. used
      PROVE  Items'[i] = Items[i]
  <2> DEFINE o == OffsetOf(Wrap(t + i - 1))
  <2>1. /\ i - 1 \in 0 .. que_size /\ i - 1 < used
        /\ t + (i - 1) = t + i - 1
    BY <1>1 DEF Slot
  <2>2. /\ OffsetOf(Wrap(t + (i - 1))) # OffsetOf(Wrap(t + used))
        /\ Wrap(t + (i - 1)) \in Slot
    BY <1>1, <2>1, WrapInjective
  <2>3. o # head /\ o \in Offset
    BY <1>1, <2>1, <2>2 DEF Offset
  <2>4. buff'[o] = buff[o]
    BY <2>3 DEF Write, RingOK
  <2>5. Items[i] = buff[o]
    BY DEF Items, t
  <2>6. Items'[i] = buff'[o]
    BY <1>1, <1>4
  <2> QED
    BY <2>4, <2>5, <2>6
<1>7. Items' \in Seq(Item) /\ Len(Items') = used + 1
  <2>1. Items' = [i \in 1 .. used' |-> buff'[OffsetOf(Wrap(TailSlot' + i - 1))]]
    BY DEF Items
  <2>2. /\ used' \in Nat
        /\ \A i \in 1 .. used' :
              OffsetOf(Wrap(TailSlot' + i - 1)) \in Offset
    BY <1>1, <1>2 DEF Offset, Wrap, Slot, t
  <2>3. Items' \in [1 .. used' -> Item]
    BY <1>2, <2>1, <2>2 DEF RingOK
  <2>4. Items' \in Seq(Item) /\ Len(Items') = used'
    BY <2>2, <2>3, FunctionIsSequence
  <2> QED
    BY <1>2, <2>4
<1>8. Items' = Append(Items, d)
  <2>1. /\ Append(Items, d) \in Seq(Item)
        /\ Len(Append(Items, d)) = used + 1
        /\ \A i \in 1 .. used + 1 :
              Append(Items, d)[i] = IF i = used + 1 THEN d ELSE Items[i]
    BY <1>1, <1>3
  <2>2. \A i \in 1 .. used + 1 : Items'[i] = Append(Items, d)[i]
    BY <1>1, <1>5, <1>6, <2>1
  <2> QED
    BY <1>7, <2>1, <2>2
<1> QED
  BY <1>1, <1>3, <1>8 DEF Fifo!Write, Write

\* A read returns and removes the oldest item.
LEMMA ReadImplements ==
    ASSUME RingOK, Read
    PROVE  Fifo!Read
<1> DEFINE t == TailSlot
<1>1. /\ t \in Slot /\ tail = OffsetOf(t) /\ used \in 1 .. que_size
      /\ que_size \in 1 .. 255
  BY RingFacts DEF Read
<1>2. TailSlot' = Wrap(t + 1) /\ used' = used - 1 /\ RingOK'
  BY ReadRing
<1>3. Items \in Seq(Item) /\ Len(Items) = used
  BY ItemsAreSequence
<1> HIDE DEF t
<1>4. Head(Items) = buff[tail]
  <2>1. Wrap(t + 1 - 1) = t
    BY <1>1 DEF Wrap, Slot
  <2>2. Items[1] = buff[OffsetOf(Wrap(t + 1 - 1))]
    BY <1>1 DEF Items, t
  <2> QED
    BY <1>1, <1>3, <2>1, <2>2
<1>5. ASSUME NEW i \in 1 .. used - 1
      PROVE  Items'[i] = Items[i + 1]
  <2>1. Wrap(Wrap(t + 1) + i - 1) = Wrap(t + (i + 1) - 1)
    BY <1>1 DEF Wrap, Slot
  <2>2. Items[i + 1] = buff[OffsetOf(Wrap(t + (i + 1) - 1))]
    BY <1>1 DEF Items, t
  <2>3. Items'[i] = buff'[OffsetOf(Wrap(Wrap(t + 1) + i - 1))]
    BY <1>2 DEF Items
  <2> QED
    BY <2>1, <2>2, <2>3 DEF Read
<1>6. Items' \in Seq(Item) /\ Len(Items') = used - 1
  <2>1. Items' = [i \in 1 .. used' |-> buff'[OffsetOf(Wrap(TailSlot' + i - 1))]]
    BY DEF Items
  <2>2. /\ used' \in Nat
        /\ \A i \in 1 .. used' :
              OffsetOf(Wrap(TailSlot' + i - 1)) \in Offset
    BY <1>1, <1>2 DEF Offset, Wrap, Slot
  <2>3. Items' \in [1 .. used' -> Item]
    BY <1>2, <2>1, <2>2 DEF RingOK
  <2>4. Items' \in Seq(Item) /\ Len(Items') = used'
    BY <2>2, <2>3, FunctionIsSequence
  <2> QED
    BY <1>2, <2>4
<1>7. Items' = Tail(Items)
  <2>1. /\ Tail(Items) \in Seq(Item) /\ Len(Tail(Items)) = used - 1
        /\ \A i \in 1 .. used - 1 : Tail(Items)[i] = Items[i + 1]
    BY <1>1, <1>3
  <2>2. \A i \in 1 .. used - 1 : Items'[i] = Tail(Items)[i]
    BY <1>5, <2>1
  <2> QED
    BY <1>6, <2>1, <2>2
<1> QED
  BY <1>1, <1>3, <1>4, <1>7 DEF Fifo!Read, Read

\* A queue of any size implements a bounded FIFO of that size.
THEOREM QueueIsFifo == Spec => ImplementsFifo
<1>1. Init => Fifo!Init
  <2> SUFFICES ASSUME Init PROVE Fifo!Init
    OBVIOUS
  <2>1. Items \in Seq(Item) /\ Len(Items) = 0
    BY InitRing, ItemsAreSequence DEF Init
  <2> QED
    BY <2>1 DEF Fifo!Init, Init
<1>2. RingOK /\ [Next]_vars => [Fifo!Next]_Fifo!vars
  <2> SUFFICES ASSUME RingOK, [Next]_vars PROVE [Fifo!Next]_Fifo!vars
    OBVIOUS
  <2>1. CASE Read
    BY <2>1, ReadImplements DEF Fifo!Next
  <2>2. CASE \E d \in Item : Write(d)
    BY <2>2, WriteImplements DEF Fifo!Next
  <2>3. CASE UNCHANGED vars
    BY <2>3 DEF vars, Fifo!vars, Items, TailSlot
  <2> QED
    BY <2>1, <2>2, <2>3 DEF Next
<1> QED
  BY <1>1, <1>2, RingCorrect, PTL DEF Spec, ImplementsFifo, Fifo!Spec
=============================================================================
