----------------------------- MODULE MCQueueWait -----------------------------
(* QueueWait for TLC, with the tasks of MCSemaphore.  Of the ring, only what *)
(* may still be read matters.                                                *)
EXTENDS QueueWait, MCSemaphore

QueueView == <<View, head, Ring!Items>>
=============================================================================
