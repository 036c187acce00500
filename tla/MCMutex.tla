------------------------------- MODULE MCMutex -------------------------------
(* Mutex for TLC: tasks are 1, 2, ..., task t has the priority t - 1.        *)
EXTENDS Mutex

TaskIsPriority == [t \in Task |-> t - 1]
OneTimed == [t \in Task |-> {t = 3}]
Recursive == [t \in Task |-> IF t = 2 THEN 2 ELSE 1]
AllForever == [t \in Task |-> {FALSE}]
MutexSymmetry == Permutations(Mutex)

\* Nothing here reads the order of the suspended and of the delayed tasks.
View == <<scheduler_depth, higher_priority_task_ready, current_task,
          [l \in ListId |-> IF l \in Priority THEN list[l] ELSE ToSet(list[l])],
          priority, running, stack, mutexVars>>
=============================================================================
