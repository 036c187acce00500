------------------------------ MODULE Semaphore ------------------------------
(***************************************************************************)
(* A semaphore and the tasks that wait for it (src/src/librertos.c, lines  *)
(* 925-1188), on top of Delay: the event list, ordered by priority, a wait *)
(* with or without a timeout, and unlocks that come from tasks and from    *)
(* interrupt handlers at any moment, also in the middle of a wait.         *)
(*                                                                         *)
(* A task waits in two steps that each enable interrupts: it suspends and  *)
(* looks for its place on the event list (event_find_priority_position()), *)
(* then, with a timeout, it delays itself (task_delay_now_until()).        *)
(***************************************************************************)
EXTENDS Delay

CONSTANTS max,           \* semaphore_t.max
          init_count,    \* init_count of semaphore_init()
          Timeouts       \* the ticks_to_delay of waits; MAX_DELAY waits for ever

ASSUME CountAssumption == max \in Nat \ {0} /\ init_count \in 0 .. max
ASSUME TimeoutAssumption == Timeouts \subseteq Tick

VARIABLES count,   \* semaphore_t.count
          waiting, \* event_unlock.suspended_tasks, in order
          woken    \* history: tasks resumed by semaphore_unlock() that have not
                   \* tried to lock since

semaphore == <<count, waiting, woken>>
allVars == <<vars, semaphore>>

SemInit ==
    /\ Init
    /\ count = init_count
    /\ waiting = <<>>
    /\ woken = {}

-----------------------------------------------------------------------------
\* The task that executes, or NULL: an interrupt handler may call as well.
Caller == {NULL} \cup (IF Executes("run") THEN {Top.task} ELSE {})

\* semaphore_lock(), successful or not.
SemaphoreLock(t) ==
    /\ t \in Caller
    /\ count' = IF count > 0 THEN count - 1 ELSE count
    /\ woken' = woken \ {t}
    /\ UNCHANGED <<vars, waiting>>

\* event_resume_task(): the first task on the event list, if any.
EventResume ==
    \/ /\ waiting # <<>>
       /\ Resume(Head(waiting))
       /\ waiting' = Tail(waiting)
       /\ woken' = woken \cup {Head(waiting)}
    \/ /\ waiting = <<>>
       /\ UNCHANGED <<tick, current, suspended, list, delay_until, sleep,
                      waiting, woken>>

\* Mutant: the maximum is not tested.
SemaphoreUnlock_NoMax ==
    /\ count' = count + 1
    /\ EventResume
    /\ UNCHANGED stack

\* semaphore_unlock(); it does nothing when the count is at its maximum.
SemaphoreUnlock ==
    /\ count < max
    /\ count' = count + 1
    /\ EventResume
    /\ UNCHANGED stack

\* Mutant: the count is not looked at again after a lock that failed.
Unavailable_NotChecked == TRUE

\* semaphore_can_be_locked() in semaphore_suspend().
Unavailable == count = 0

\* semaphore_suspend(ticks) by the task that executes, up to its first
\* comparison: it is suspended and last on the event list.
SemaphoreSuspend(ticks) ==
    /\ Executes("run") /\ ~Contains(waiting, Top.task)
    /\ Unavailable
    /\ suspended' = suspended \cup {Top.task}
    /\ list' = Unlisted(Top.task)
    /\ sleep' = Awake(Top.task)
    /\ waiting' = Append(waiting, Top.task)
    /\ woken' = woken \ {Top.task}
    /\ stack' = Replace([Top EXCEPT !.pc = "event", !.ticks = ticks,
                                    !.pos = Head(waiting')])
    /\ UNCHANGED <<tick, current, delay_until, count>>

\* Mutant: the search ends when its position is gone.
EventNext_NoRestart(pos) ==
    IF Contains(waiting, pos) THEN Successor(waiting, pos) ELSE NULL

\* Where event_find_priority_position() goes on after a comparison.
EventNext(pos) ==
    IF Contains(waiting, pos) THEN Successor(waiting, pos) ELSE First(waiting)

\* The end of event_add_task_to_event(): the task moves before pos, unless it
\* was resumed, or is in its place.
EventMove(t, pos) ==
    waiting' = IF t \in suspended /\ Contains(waiting, t)
               THEN InsertBefore(Without(waiting, t), pos, t)
               ELSE waiting

\* Mutant: task_suspend() comes after event_add_task_to_event(), not before.
EventPlaced_SuspendsLast(pos) ==
    /\ EventMove(Top.task, pos)
    /\ stack' = Replace(TaskFrame(Top.task))
    /\ suspended' = suspended \cup {Top.task}
    /\ UNCHANGED <<tick, current, list, delay_until, sleep>>

\* The rest of event_delay_task() once the place is found: the move, then for
\* a wait with a timeout get_tick() and task_delay_now_until().
EventPlaced(pos) ==
    /\ EventMove(Top.task, pos)
    /\ \/ /\ Top.ticks = MAX_DELAY
          /\ stack' = Replace(TaskFrame(Top.task))
          /\ UNCHANGED <<tick, current, suspended, list, delay_until, sleep>>
       \/ /\ Top.ticks # MAX_DELAY
          /\ DelayUntil([Top EXCEPT !.now = tick,
                                    !.wakeup = (tick + Top.ticks) % TickMod,
                                    !.left = Top.ticks, !.wrapped = FALSE])

\* The comparison of event_find_priority_position() and the stretch after it.
EventCompare ==
    LET found == /\ Priority[Top.task] > Priority[Top.pos]
                 /\ Contains(waiting, Top.pos)
        next == EventNext(Top.pos)
    IN  /\ Executes("event")
        /\ \/ /\ found
              /\ EventPlaced(Top.pos)
           \/ /\ ~found /\ next = NULL
              /\ EventPlaced(NULL)
           \/ /\ ~found /\ next # NULL
              /\ stack' = Replace([Top EXCEPT !.pos = next])
              /\ UNCHANGED <<tick, current, suspended, list, delay_until,
                             sleep, waiting>>
        /\ UNCHANGED <<count, woken>>

\* Mutant: task_resume() leaves the event_node on the event list.
EventRemove_Keep(t) == waiting' = waiting

\* The event_node in task_resume().
EventRemove(t) == waiting' = Without(waiting, t)

\* t is not in the middle of event_find_priority_position().
Placed(t) == \A i \in DOMAIN stack :
                 stack[i].pc = "event" => stack[i].task # t

\* What Delay does, with the event list.  task_resume() of t, by a handler,
\* another task, or the tick when the time of its wait or delay is over.
OtherResume(t) ==
    /\ TaskResume(t) \/ (TickResume /\ Top.task = t)
    /\ EventRemove(t)
    /\ UNCHANGED <<count, woken>>
\* task_suspend() of t by a handler or another task.  No handler suspends a
\* task that is still looking for its place: had it resumed the task before,
\* lines 985-990 would remove an event_node that is on no list.
OtherSuspend(t) ==
    /\ Placed(t)
    /\ TaskSuspend(t)
    /\ UNCHANGED semaphore
KernelStep ==
    /\ (\E t \in Task : TaskStart(t)) \/ TaskReturn \/ ScanCompare
       \/ TickInterrupt \/ TickLoop
    /\ UNCHANGED semaphore

\* A wait, and what happens during it.
WaitNext ==
    \/ \E ticks \in Timeouts : SemaphoreSuspend(ticks)
    \/ EventCompare
    \/ \E t \in Task : OtherResume(t) \/ OtherSuspend(t)
    \/ KernelStep

SemNext ==
    \/ \E t \in Task \cup {NULL} : SemaphoreLock(t)
    \/ SemaphoreUnlock
    \/ WaitNext

SemSpec == SemInit /\ [][SemNext]_allVars

-----------------------------------------------------------------------------
(* Properties.                                                               *)

\* The types of the variables.
SemTypeOK ==
    /\ TypeOK
    /\ count \in 0 .. max
    /\ waiting \in Seq(Task)
    /\ woken \subseteq Task

\* A task is on the event list once at most, and only while it does not run:
\* whatever resumes it (an unlock, another task, the end of its timeout)
\* takes it off the list (lines 599-600).
WaitersAsleep ==
    /\ \A i, j \in DOMAIN waiting : waiting[i] = waiting[j] => i = j
    /\ \A t \in ToSet(waiting) : t \notin Ready

\* "HigherPriorityResumesFirst" (tests/librertos_event_test.cpp:131): apart
\* from a task still looking for its place, waiters are sorted by priority,
\* although some may leave while another looks (lines 937-967).
WaitersSorted ==
    \A i, j \in DOMAIN waiting :
        i < j /\ Placed(waiting[i]) /\ Placed(waiting[j])
           => Priority[waiting[i]] >= Priority[waiting[j]]

\* No unlock is lost: while tasks wait, as many tasks have been woken to try
\* again, and neither wait nor sleep, as the semaphore can be locked times
\* (lines 1112-1118, 1163-1165).
NoLostUnlock ==
    waiting # <<>> =>
        count <= Cardinality(woken \ (ToSet(waiting) \cup Sleeping))

\* "Suspend the task and insert in the end of the list so that the event can
\* resume the task" (lines 1001-1003): a task resumed in the middle of its
\* wait is not suspended again by that same wait.
WaitResumeKept ==
    [][\A t \in Ready :
          t \notin Ready' =>
             OtherSuspend(t)
             \/ (Top.task = t /\ \E ticks \in Timeouts : SemaphoreSuspend(ticks))
      ]_allVars
=============================================================================
