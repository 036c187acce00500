------------------------------ MODULE ResumeAll ------------------------------
(***************************************************************************)
(* task_resume_all() (src/src/librertos.c, lines 812-856), walking over    *)
(* linked lists that interrupt handlers change under it.  It holds the     *)
(* scheduler lock: no task runs meanwhile, and handlers finish before it   *)
(* goes on.  For each node it reads the next one, enables interrupts,      *)
(* resumes the task, disables them and goes on with what it had read.      *)
(***************************************************************************)
EXTENDS LinkedList

CONSTANT Timers \* the nodes of timers, which task_resume_all() skips

ASSUME TimersAssumption == Timers \subseteq Node

VARIABLES walk,     \* task_resume_all(): see below
          left,     \* history: tasks that were suspended or delayed when it was
                    \* called and that neither it nor a handler moved since
          nextMoved \* history: a handler has moved a node while it was next

vars == <<heap, walk, left, nextMoved>>

(* walk holds                                                                *)
(*   pc    "idle"    not called, or returned,                                *)
(*         "before"  interrupts enabled, the task not yet resumed,           *)
(*         "after"   resumed, interrupts still enabled,                      *)
(*         "astray"  a list_t was taken for a node_t: nothing is defined     *)
(*   at    the position in Walked of the list it walks over;                 *)
(*   node  the node, and                                                     *)
(*   next  next_node.                                                        *)
Walked == <<"suspended", "delayed0", "delayed1">>
Idle == [pc |-> "idle", at |-> 0, node |-> NULL, next |-> NULL]
Walk == {Idle} \cup [pc : {"before", "after", "astray"}, at : 1 .. Len(Walked),
                     node : Node, next : Cell]

Init ==
    /\ heap = EmptyHeap
    /\ walk = Idle
    /\ left = {}
    /\ nextMoved = FALSE

-----------------------------------------------------------------------------
\* The while loop at node n of list Walked[i]: it reads the next one.
At(h, i, n) == [pc |-> "before", at |-> i, node |-> n, next |-> h.next[n]]

\* The lists from Walked[k] on: the first node of the first that is not empty.
WalkFrom(h, k) ==
    LET full == {i \in k .. Len(Walked) : h.next[Walked[i]] # Walked[i]}
    IN  IF full = {} THEN Idle
        ELSE LET i == CHOOSE j \in full : \A other \in full : j <= other
             IN  At(h, i, h.next[Walked[i]])

\* Mutant: node->next is read after the task was resumed.
NextNode_Late == heap.next[walk.node]

\* The node the loop goes on with.
NextNode == walk.next

\* The end of an iteration: the end of the list is the list itself.
Continue ==
    walk' = IF NextNode = Walked[walk.at] THEN WalkFrom(heap, walk.at + 1)
            ELSE IF NextNode \in ListId THEN [walk EXCEPT !.pc = "astray"]
            ELSE At(heap, walk.at, NextNode)

\* The call, up to the first window.
TaskResumeAll ==
    /\ walk.pc = "idle"
    /\ walk' = WalkFrom(heap, 1)
    /\ left' = {n \in Node \ Timers : heap.list[n] \in ToSet(Walked)}
    /\ nextMoved' = FALSE
    /\ UNCHANGED heap

\* A timer is skipped.
SkipTimer ==
    /\ walk.pc = "before" /\ walk.node \in Timers
    /\ Continue
    /\ UNCHANGED <<heap, left, nextMoved>>

\* Mutant: it goes to the front of the ready list.
Resumed_First(h, n) == InsertFirst(ListRemove(h, n), "ready", n)

\* task_resume(): to the end of a ready list.
Resumed(h, n) == InsertLast(ListRemove(h, n), "ready", n)

\* The walk resumes its task.
ResumeNode ==
    /\ walk.pc = "before" /\ walk.node \notin Timers
    /\ heap' = Resumed(heap, walk.node)
    /\ left' = left \ {walk.node}
    /\ walk' = [walk EXCEPT !.pc = "after"]
    /\ UNCHANGED nextMoved

NextIteration ==
    /\ walk.pc = "after"
    /\ Continue
    /\ UNCHANGED <<heap, left, nextMoved>>

-----------------------------------------------------------------------------
\* What a task does while no walk is on, or a handler at any moment, to n.
Touch(n) ==
    /\ walk.pc # "astray"
    /\ left' = left \ {n}
    /\ nextMoved' = (nextMoved \/ walk.next = n)
    /\ UNCHANGED walk

\* librertos_create_task(n): suspended, and at once resumed.
TaskCreate(n) ==
    /\ heap' = Resumed(InsertLast(heap, "suspended", n), n)
    /\ Touch(n)

\* task_resume(n), also by the tick interrupt when a delay is over, and
\* timer_start(n).
TaskResume(n) ==
    /\ heap' = Resumed(heap, n)
    /\ Touch(n)

\* task_suspend(n) and timer_stop(n).
TaskSuspend(n) ==
    /\ heap' = InsertFirst(ListRemove(heap, n), "suspended", n)
    /\ Touch(n)

\* The end of task_delay() by task n, or of timer_reset(n) by a handler too:
\* somewhere on a list of delayed tasks.
Delay(n, l, pos) ==
    /\ walk.pc = "idle" \/ n \in Timers
    /\ pos \in {l} \cup {m \in Node \ {n} : heap.list[m] = l}
    /\ heap' = InsertAfter(ListRemove(heap, n), l, pos, n)
    /\ Touch(n)

Next ==
    \/ TaskResumeAll
    \/ SkipTimer
    \/ ResumeNode
    \/ NextIteration
    \/ \E n \in Node : ~NodeInList(heap, n) /\ TaskCreate(n)
    \/ \E n \in Node :
          /\ NodeInList(heap, n)
          /\ \/ TaskResume(n)
             \/ TaskSuspend(n)
             \/ \E l \in {"delayed0", "delayed1"} : \E pos \in Node \cup {l} :
                   Delay(n, l, pos)

Spec == Init /\ [][Next]_vars

-----------------------------------------------------------------------------
(* Properties.                                                               *)

\* The types, and the shape of the lists (lines 859-920): prev undoes next,
\* every node is on the list that its list field names, and length counts it.
RingsOK ==
    /\ walk \in Walk
    /\ \A c \in {n \in Node : NodeInList(heap, n)} \cup ListId :
          /\ heap.next[c] \in Cell /\ heap.prev[c] \in Cell
          /\ heap.prev[heap.next[c]] = c
    /\ \A l \in ListId :
          /\ ToSet(SequenceOf(heap, l)) = {n \in Node : heap.list[n] = l}
          /\ Cardinality({n \in Node : heap.list[n] = l}) = heap.length[l]

\* list_remove() and list_insert_*() move one node of a sequence, and leave
\* the order of all others alone.
SL == INSTANCE SequenceLists
          WITH Task <- Node, lists <- [l \in ListId |-> SequenceOf(heap, l)]
ImplementsSequences == SL!Spec

\* "Resume all tasks" (line 841): when task_resume_all() returns it has
\* resumed each task that was suspended or delayed and that no handler moved,
\* and it ends, never mistaking the end of a list for a node, unless a
\* handler moved the node it had read as the next one (lines 822-824).
ResumesAll ==
    ~nextMoved => /\ walk.pc # "astray"
                  /\ walk.pc = "idle" => left = {}
=============================================================================
