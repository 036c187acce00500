------------------------------ MODULE QueueWait ------------------------------
(***************************************************************************)
(* A queue_t and the tasks that wait to read it (src/src/librertos.c,      *)
(* lines 1380-1590).  The event list event_write is used as a semaphore    *)
(* uses event_unlock, and used is counted as a semaphore counts: a read is *)
(* a lock that also reads the ring, a write is an unlock that also writes  *)
(* it.  So this is Semaphore and Queue together, with count for used.      *)
(***************************************************************************)
EXTENDS Semaphore

CONSTANTS Item, item_size

VARIABLES free, head, tail, end, buff, data \* see Queue

ring == <<free, head, tail, end, buff, data>>
queueVars == <<allVars, ring>>

Ring == INSTANCE Queue WITH que_size <- max, used <- count

ASSUME CreatedEmpty == init_count = 0

\* queue_init().
QueueInit == SemInit /\ Ring!Init

\* queue_read(), successful or not, by the task t, a handler or main.
QueueRead(t) ==
    /\ SemaphoreLock(t)
    /\ Ring!Read \/ (count = 0 /\ UNCHANGED ring)

\* Mutant: the event is not told of the item.
QueueWrite_NoResume(d) ==
    /\ count < max
    /\ count' = count + 1
    /\ Ring!Write(d)
    /\ UNCHANGED <<vars, waiting, woken>>

\* queue_write(d); a full queue changes nothing.
QueueWrite(d) ==
    /\ SemaphoreUnlock
    /\ Ring!Write(d)

\* queue_suspend() and all that may happen during it.
QueueOther ==
    /\ WaitNext
    /\ UNCHANGED ring

QueueNext ==
    \/ \E t \in Task \cup {NULL} : QueueRead(t)
    \/ \E d \in Item : QueueWrite(d)
    \/ QueueOther

QueueSpec == QueueInit /\ [][QueueNext]_queueVars

-----------------------------------------------------------------------------
(* Properties.                                                               *)

\* No item is stranded, with timeouts or without: while tasks wait to read,
\* for each item in the ring another task was resumed by a queue_write()
\* (line 1460), has not called queue_read() since and does not wait again.
\* A task_suspend(), or the rest of its own wait (line 1011), may have put it
\* to sleep meanwhile; NoLostUnlock says more of waits without timeouts.
NoItemStranded ==
    waiting # <<>> => Len(Ring!Items) <= Cardinality(woken \ ToSet(waiting))
=============================================================================
