------------------------------ MODULE TaskLists ------------------------------
(* The lists of tasks as the other modules have them: a sequence of tasks,   *)
(* for the nodes of the tasks in the order of their next pointers.           *)
(* LinkedList and ResumeAll show what the pointers do.                       *)
EXTENDS Integers, Sequences, SequencesExt

CONSTANT Task \* the task_t objects of the application

\* list_remove: the sequence without its element t.
Without(s, t) ==
    IF \E i \in 1 .. Len(s) : s[i] = t
    THEN RemoveAt(s, CHOOSE i \in 1 .. Len(s) : s[i] = t)
    ELSE s
=============================================================================
