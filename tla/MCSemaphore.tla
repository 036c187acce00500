----------------------------- MODULE MCSemaphore -----------------------------
(* Semaphore for TLC: tasks are numbers, each its own priority or, with      *)
(* TwoLevels, of two priorities that several tasks share.                    *)
EXTENDS Semaphore

TaskIsPriority == [t \in Task |-> t]
TwoLevels == [t \in Task |-> t % 2]

\* delay_until is only ever read of tasks on a delayed list.
View == <<tick, current, suspended, list, stack, sleep, semaphore,
          [t \in Sleeping |-> delay_until[t]]>>
=============================================================================
