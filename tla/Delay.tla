-------------------------------- MODULE Delay --------------------------------
(***************************************************************************)
(* Time in LibreRTOS (src/src/librertos.c, lines 353-436 and 465-613): the *)
(* tick counter that wraps around, the two lists of delayed tasks that     *)
(* swap roles when it does, task_delay() and the tick interrupt.           *)
(*                                                                         *)
(* delay_find_tick_position() and resume_list_of_tasks() enable interrupts *)
(* between two looks at a list, and task_delay() reads the tick before it  *)
(* locks anything.  An action is a stretch of code with interrupts         *)
(* disabled; between two of them an interrupt may resume or suspend any    *)
(* task or be the next tick, which may itself be interrupted.              *)
(*                                                                         *)
(* Which task runs is left to PriorityScheduler, which Kernel implements:  *)
(* a task starts above tasks of lower priority, never inside a stretch     *)
(* that holds the scheduler lock.  A task on none of the lists is ready.   *)
(***************************************************************************)
EXTENDS Integers, Sequences, FiniteSets, SequencesExt, TaskLists

CONSTANTS NULL,       \* no task; as a list position, the head of the list
          TickMod,    \* tick_t counts modulo TickMod
          Priority,   \* the priority of each task
          Preemptive, \* KERNEL_MODE == LIBRERTOS_PREEMPTIVE
          Delays,     \* the ticks_to_delay that tasks ask for
          MaxIsr      \* bound: tick interrupts nested in one another

ASSUME NullAssumption == NULL \notin Task
ASSUME TickAssumption == TickMod \in Nat \ {0, 1} /\ Delays \subseteq 0 .. TickMod - 1
ASSUME PriorityAssumption == Priority \in [Task -> Nat]
ASSUME BoundAssumption == Preemptive \in BOOLEAN /\ MaxIsr \in Nat

VARIABLES tick,        \* librertos.tick
          current,     \* tasks_delayed_current is tasks_delayed[current]
          suspended,   \* tasks_suspended; nothing here reads its order
          list,        \* tasks_delayed[0] and [1], in order
          delay_until, \* task_t.delay_until
          stack,       \* the call stack, its last element executes
          sleep        \* history, of each task's last delay: see below

vars == <<tick, current, suspended, list, delay_until, stack, sleep>>

-----------------------------------------------------------------------------
Delayed == {0, 1}
Tick == 0 .. TickMod - 1
MAX_DELAY == TickMod - 1
overflow == 1 - current

OnList(t, l) == t \in ToSet(list[l])
Sleeping == {t \in Task : \E l \in Delayed : OnList(t, l)}
Ready == Task \ (suspended \cup Sleeping)

First(s) == IF s = <<>> THEN NULL ELSE Head(s)
IndexOf(s, t) == CHOOSE i \in DOMAIN s : s[i] = t
Successor(s, t) ==
    IF IndexOf(s, t) = Len(s) THEN NULL ELSE s[IndexOf(s, t) + 1]

\* list_insert_after(list, pos->prev, node).
InsertBefore(s, pos, t) ==
    IF pos = NULL THEN Append(s, t) ELSE InsertAt(s, IndexOf(s, pos), t)

(* sleep[t], of a task on a delayed list: the left and wrapped of its call,  *)
(* and whether it was inserted after the last tick.                          *)
Sleep == [left : Tick, wrapped : BOOLEAN, fresh : BOOLEAN]
NoSleep == [left |-> 0, wrapped |-> FALSE, fresh |-> FALSE]

\* list_remove(), from whatever list the task is on.
Unlisted(t) == [l \in Delayed |-> Without(list[l], t)]
Awake(t) == [sleep EXCEPT ![t] = NoSleep]

(* A frame of the stack is a task function, or the handler of a tick:        *)
(*   pc       "run"      the task's own code                                 *)
(*            "read"     in task_delay(), the tick read, nothing locked yet  *)
(*            "scan"     comparing with pos in delay_find_tick_position()    *)
(*            "event"    comparing with pos on the way to a wait (Semaphore) *)
(*            "reset", "stop"  of a timer (Timer)                            *)
(*            "overflow" resume_list_of_tasks(tasks_delayed_overflow)        *)
(*            "current"  resume_list_of_tasks(tasks_delayed_current)         *)
(*   task     the task; in a handler, the task to resume, NULL if resumed    *)
(*   timer    the frame delays a timer, for its caller, and ends with that   *)
(*   ticks    ticks_to_delay of a wait                                       *)
(*   now      the tick read by task_delay() or incremented by the handler    *)
(*   wakeup   tick_to_wakeup                                                 *)
(*   list     the list that is scanned or emptied                            *)
(*   pos      the position of the scan, and its delay_until                  *)
(*   left     history: ticks left of the delay asked for, from its get_tick()*)
(*   wrapped  history: the tick counter has wrapped since that get_tick()    *)

PC == {"run", "read", "scan", "event", "reset", "stop", "overflow",
       "current"}
Frame == [pc : PC, task : Task \cup {NULL}, timer : BOOLEAN, ticks : Tick,
          now : Tick, wakeup : Tick, list : Delayed, pos : Task \cup {NULL},
          pos_tick : Tick, left : Tick, wrapped : BOOLEAN]

TaskFrame(t) ==
    [pc |-> "run", task |-> t, timer |-> FALSE, ticks |-> 0, now |-> 0,
     wakeup |-> 0, list |-> 0, pos |-> NULL, pos_tick |-> 0, left |-> 0, wrapped |-> FALSE]

InHandler(f) == f.pc \in {"overflow", "current"}
Top == Last(stack)
Executes(pc) == stack # <<>> /\ Top.pc = pc
Replace(f) == Append(Front(stack), f)

\* task_delay_now_until() returns in frame f.
DelayReturn(f) == IF f.timer THEN Front(stack) ELSE Replace(TaskFrame(f.task))

-----------------------------------------------------------------------------
Init ==
    /\ tick = 0
    /\ current = 0
    /\ suspended = {}
    /\ list = [l \in Delayed |-> <<>>]
    /\ delay_until = [t \in Task |-> 0]
    /\ stack = <<>>
    /\ sleep = [t \in Task |-> NoSleep]

\* librertos_sched() calls t, from main or on top of a task it preempts.
TaskStart(t) ==
    /\ t \in Ready
    /\ \/ stack = <<>>
       \/ /\ Preemptive
          /\ Executes("run") \/ Executes("read")
          /\ Priority[Top.task] < Priority[t]
    /\ stack' = Append(stack, TaskFrame(t))
    /\ UNCHANGED <<tick, current, suspended, list, delay_until, sleep>>

TaskReturn ==
    /\ Executes("run")
    /\ stack' = Front(stack)
    /\ UNCHANGED <<tick, current, suspended, list, delay_until, sleep>>

\* task_suspend(t) and task_resume(t), called by the code that executes or by
\* an interrupt handler of its own.
TaskSuspend(t) ==
    /\ suspended' = suspended \cup {t}
    /\ list' = Unlisted(t)
    /\ sleep' = Awake(t)
    /\ UNCHANGED <<tick, current, delay_until, stack>>

Resume(t) ==
    /\ suspended' = suspended \ {t}
    /\ list' = Unlisted(t)
    /\ sleep' = Awake(t)
    /\ UNCHANGED <<tick, current, delay_until>>

TaskResume(t) ==
    /\ Resume(t)
    /\ UNCHANGED stack

-----------------------------------------------------------------------------
(* task_delay().                                                             *)

\* get_tick() and tick_to_wakeup, before task_delay_now_until() locks.
ReadTick(ticks_to_delay) ==
    /\ Executes("run")
    /\ stack' = Replace([Top EXCEPT !.pc = "read", !.now = tick,
                                    !.wakeup = (tick + ticks_to_delay) % TickMod,
                                    !.left = ticks_to_delay, !.wrapped = FALSE])
    /\ UNCHANGED <<tick, current, suspended, list, delay_until, sleep>>

\* Mutant: a task that was resumed during the scan goes to sleep again.
Insert_Unconditional(f, lists, asleep, pos) ==
    /\ suspended' = asleep \ {f.task}
    /\ list' = [lists EXCEPT ![f.list] = InsertBefore(@, pos, f.task)]
    /\ sleep' = [sleep EXCEPT ![f.task] =
                    [left |-> f.left, wrapped |-> f.wrapped, fresh |-> TRUE]]
    /\ stack' = DelayReturn(f)

\* The end of task_delay_now_until(): the task of f moves to its list, before
\* pos, unless it was resumed.  lists and asleep are the delayed lists and the
\* suspended tasks before that.
Insert(f, lists, asleep, pos) ==
    /\ stack' = DelayReturn(f)
    /\ suspended' = asleep \ {f.task}
    /\ \/ /\ f.task \in asleep
          /\ list' = [lists EXCEPT ![f.list] = InsertBefore(@, pos, f.task)]
          /\ sleep' = [sleep EXCEPT ![f.task] =
                [left |-> f.left, wrapped |-> f.wrapped, fresh |-> TRUE]]
       \/ /\ f.task \notin asleep
          /\ list' = lists
          /\ UNCHANGED sleep

\* The scan arrives at pos, reads its delay_until and enables interrupts, or
\* it arrives at the head of the list and ends.
ScanAt(f, lists, asleep, pos) ==
    \/ /\ pos # NULL
       /\ stack' = Replace([f EXCEPT !.pc = "scan", !.pos = pos,
                                     !.pos_tick = delay_until[pos]])
       /\ suspended' = asleep
       /\ list' = lists
       /\ UNCHANGED sleep
    \/ /\ pos = NULL
       /\ Insert(f, lists, asleep, NULL)

\* Mutant: the overflow list is chosen for the wakeups that are still ahead.
DelayList_Swapped(now, wakeup) == IF now < wakeup THEN overflow ELSE current

DelayList(now, wakeup) == IF now < wakeup THEN current ELSE overflow

\* Mutant: the task is not removed from the list it is on.
DelayUntil_NoRemove(f) ==
    LET l == DelayList(f.now, f.wakeup)
    IN  /\ delay_until' = [delay_until EXCEPT ![f.task] = f.wakeup]
        /\ ScanAt([f EXCEPT !.list = l], list, suspended \cup {f.task},
                  First(list[l]))
        /\ UNCHANGED <<tick, current>>

\* task_delay_now_until(f.now, f.wakeup) up to the first comparison: the task
\* is suspended, its list is chosen, the scan starts at the first task.
DelayUntil(f) ==
    LET l == DelayList(f.now, f.wakeup)
        lists == Unlisted(f.task)
    IN  /\ delay_until' = [delay_until EXCEPT ![f.task] = f.wakeup]
        /\ ScanAt([f EXCEPT !.list = l], lists, suspended \cup {f.task},
                  First(lists[l]))
        /\ UNCHANGED <<tick, current>>

TaskDelay ==
    /\ Executes("read")
    /\ DelayUntil(Top)

\* Mutant: a removed pos is taken for the head of the list.
ScanNext_NoRestart(f) ==
    IF ~OnList(f.pos, f.list) THEN NULL ELSE Successor(list[f.list], f.pos)

\* Mutant: the start of the list is not read again when pos was removed.
ScanNext_Stuck(f) ==
    IF ~OnList(f.pos, f.list) THEN f.pos ELSE Successor(list[f.list], f.pos)

\* Where the scan goes on after an unsuccessful comparison: from the start if
\* pos was removed meanwhile.
ScanNext(f) ==
    IF ~OnList(f.pos, f.list) THEN First(list[f.list])
    ELSE Successor(list[f.list], f.pos)

\* The comparison of delay_find_tick_position() and the interrupts-disabled
\* stretch after it.
ScanCompare ==
    /\ Executes("scan")
    /\ \/ /\ Top.wakeup < Top.pos_tick /\ OnList(Top.pos, Top.list)
          /\ Insert(Top, list, suspended, Top.pos)
       \/ /\ Top.wakeup >= Top.pos_tick \/ ~OnList(Top.pos, Top.list)
          /\ ScanAt(Top, list, suspended, ScanNext(Top))
    /\ UNCHANGED <<tick, current, delay_until>>

-----------------------------------------------------------------------------
(* librertos_tick_interrupt().                                               *)

\* A tick passes for every delay.
Elapse(r) == [r EXCEPT !.left = IF @ = 0 THEN 0 ELSE @ - 1]

\* The while condition and the break of resume_list_of_tasks(l, now).
FirstDue(l, now) ==
    IF list[l] # <<>> /\ now >= delay_until[Head(list[l])]
    THEN Head(list[l]) ELSE NULL

\* Handler frame f looks for the next task to resume: in its list, and after
\* the overflow list in the current one.  There is no frame if none is left.
Handler(f, cur) ==
    LET due == FirstDue(f.list, IF f.pc = "overflow" THEN MAX_DELAY ELSE f.now)
        next == FirstDue(cur, f.now)
    IN  IF due # NULL THEN <<[f EXCEPT !.task = due]>>
        ELSE IF f.pc = "overflow" /\ next # NULL
        THEN <<[f EXCEPT !.pc = "current", !.list = cur, !.task = next]>>
        ELSE <<>>

\* Mutant: the lists are not swapped when the tick wraps.
CurrentAt_NoSwap(now) == current

\* swap_lists_of_delayed_tasks(), when the tick wraps.
CurrentAt(now) == IF now = 0 THEN 1 - current ELSE current

\* The interrupt: the tick, the swap, and the first task to resume if any.
TickInterrupt ==
    LET now == (tick + 1) % TickMod
        handler == [TaskFrame(NULL) EXCEPT
                       !.pc = IF now = 0 THEN "overflow" ELSE "current",
                       !.now = now,
                       !.list = IF now = 0 THEN 1 - CurrentAt(now)
                                           ELSE CurrentAt(now)]
        passed(f) == [Elapse(f) EXCEPT !.wrapped = @ \/ now = 0]
    IN  /\ Cardinality({i \in DOMAIN stack : InHandler(stack[i])}) < MaxIsr
        /\ tick' = now
        /\ current' = CurrentAt(now)
        /\ stack' = [i \in DOMAIN stack |->
                        IF InHandler(stack[i]) THEN stack[i] ELSE passed(stack[i])]
                    \o Handler(handler, CurrentAt(now))
        /\ sleep' = [t \in Task |-> [Elapse(sleep[t]) EXCEPT !.fresh = FALSE]]
        /\ UNCHANGED <<suspended, list, delay_until>>

\* task_resume() of the task that resume_list_of_tasks() found, whatever
\* happened to that task meanwhile.
TickResume ==
    /\ stack # <<>> /\ InHandler(Top) /\ Top.task # NULL
    /\ Resume(Top.task)
    /\ stack' = Replace([Top EXCEPT !.task = NULL])

\* The loop goes on, or the handler returns.
TickLoop ==
    /\ stack # <<>> /\ InHandler(Top) /\ Top.task = NULL
    /\ stack' = Front(stack) \o Handler(Top, current)
    /\ UNCHANGED <<tick, current, suspended, list, delay_until, sleep>>

-----------------------------------------------------------------------------
Next ==
    \/ \E t \in Task : TaskStart(t) \/ TaskSuspend(t) \/ TaskResume(t)
    \/ TaskReturn
    \/ \E d \in Delays : ReadTick(d)
    \/ TaskDelay
    \/ ScanCompare
    \/ TickInterrupt
    \/ TickResume
    \/ TickLoop

Spec == Init /\ [][Next]_vars

(* Fairness.  The timer keeps ticking, and what was interrupted goes on: the *)
(* kernel's own code always gets to its next stretch.  Nothing is assumed of *)
(* the tasks.                                                                *)
Fairness ==
    /\ SF_vars(TickInterrupt) /\ SF_vars(TickResume) /\ SF_vars(TickLoop)
    /\ SF_vars(TaskDelay) /\ SF_vars(ScanCompare)

FairSpec == Spec /\ Fairness

-----------------------------------------------------------------------------
(* Properties.                                                               *)

\* The types of the variables; a task is on one list at most.
TypeOK ==
    /\ tick \in Tick
    /\ current \in Delayed
    /\ suspended \subseteq Task
    /\ list \in [Delayed -> Seq(Task)]
    /\ delay_until \in [Task -> Tick]
    /\ stack \in Seq(Frame)
    /\ sleep \in [Task -> Sleep]
    /\ Sleeping \cap suspended = {}
    /\ \A k, l \in Delayed : \A i \in DOMAIN list[k], j \in DOMAIN list[l] :
          list[k][i] = list[l][j] => k = l /\ i = j

\* However tasks come and go while delay_find_tick_position() looks for a
\* place (lines 487-501), each delayed list stays sorted by delay_until, which
\* resume_list_of_tasks() relies on when it stops at the first task (368).
SortedByTick ==
    \A l \in Delayed :
        IsSorted([i \in DOMAIN list[l] |-> delay_until[list[l][i]]], <=)

\* The tick interrupt never ends a delay early (lines 368, 378-385): through
\* the wrap of the tick and the swap of the lists, and with handlers that
\* interrupt handlers, a task sleeps for at least the ticks it asked for.
NeverEarly ==
    [][\A t \in Sleeping :
          sleep[t].left > 0 => ~(TickResume /\ Top.task = t)]_vars

\* Once the handlers of a tick are done no delay has expired, except of tasks
\* inserted since that tick.
Overdue(t) ==
    /\ t \in Sleeping
    /\ \A i \in DOMAIN stack : ~InHandler(stack[i])
    /\ sleep[t].left = 0
    /\ ~sleep[t].fresh

\* "Delay task for a certain amount of ticks" (line 543): a task does not
\* sleep on when its ticks have passed, if the tick counter did not wrap while
\* the task was between get_tick() and its insertion (lines 553, 523, 535).
NeverOverdueUnlessWrapped ==
    \A t \in Task : Overdue(t) => sleep[t].wrapped

\* Every delay ends (lines 364-384, 471-501): the scan that restarts when it
\* finds its position gone comes to its end, and no task stays on a delayed
\* list for ever, unless it runs on and delays itself again and again.
InDelay(t) ==
    t \in Sleeping \/ \E i \in DOMAIN stack :
                         stack[i].pc = "scan" /\ stack[i].task = t

DelayEnds ==
    \A t \in Task :
        []<>~InDelay(t) \/ []<><<TaskDelay /\ Top.task = t>>_vars
=============================================================================
