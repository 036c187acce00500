------------------------------- MODULE Kernel -------------------------------
(***************************************************************************)
(* The scheduling core of LibreRTOS (src/src/librertos.c, lines 67-351 and *)
(* 568-613): initialisation, task creation, the scheduler loop, the        *)
(* scheduler lock, the interrupt lock, task_suspend and task_resume.       *)
(*                                                                         *)
(* There is one CPU.  What interleaves is its call stack: an interrupt     *)
(* handler, or a task that librertos_sched starts from inside an unlock,   *)
(* is pushed on top of what was executing, and only the top of the stack   *)
(* steps.  The code enables and disables interrupts explicitly, so one     *)
(* action is one stretch of code that runs with interrupts disabled, and   *)
(* InterruptEnter is enabled between any two actions.                      *)
(*                                                                         *)
(* A scheduler_lock()/scheduler_unlock() pair that an API function makes   *)
(* while it already holds the lock is left out: the code only ever         *)
(* compares scheduler_depth with 0.                                        *)
(***************************************************************************)
EXTENDS Integers, Sequences, FiniteSets, SequencesExt, TaskLists

CONSTANTS NULL,           \* "no task": current_task in main and in interrupts
          NUM_PRIORITIES, \* priorities are 0 .. NUM_PRIORITIES-1
          Preemptive,     \* KERNEL_MODE == LIBRERTOS_PREEMPTIVE
          MaxIsr,         \* bound: interrupt frames on the stack
          MaxLocks        \* bound: nested scheduler_lock() calls of one frame

ASSUME NullAssumption == NULL \notin Task
ASSUME PriorityAssumption == NUM_PRIORITIES \in Nat \ {0}
ASSUME ModeAssumption == Preemptive \in BOOLEAN
ASSUME BoundAssumption == MaxIsr \in Nat /\ MaxLocks \in Nat

VARIABLES scheduler_depth,            \* how many scheduler locks are held
          higher_priority_task_ready, \* a resume found a task to preempt for
          current_task,
          list,                       \* the tasks of each scheduler list, in order
          priority,                   \* task_t.priority
          running,                    \* the tasks with task_state = TASK_RUNNING
          stack                       \* the call stack, its last element executes

vars == <<scheduler_depth, higher_priority_task_ready, current_task, list,
          priority, running, stack>>

-----------------------------------------------------------------------------
(* Lists.  tasks_ready[p] is list[p]; the others have negative names.        *)

Priority == 0 .. NUM_PRIORITIES - 1
Suspended == -1
Delayed0 == -2
Delayed1 == -3
ListId == Priority \cup {Suspended, Delayed0, Delayed1}

\* Mutant: the node is inserted without list_remove.
MoveLast_NoRemove(t, l) ==
    [k \in ListId |-> IF k = l THEN Append(Without(list[k], t), t) ELSE list[k]]

\* list_remove and list_insert_last / list_insert_first of a sched_node, in
\* the lists ls.
LastOn(ls, t, l) ==
    [k \in ListId |-> IF k = l THEN Append(Without(ls[k], t), t)
                               ELSE Without(ls[k], t)]
FirstOn(ls, t, l) ==
    [k \in ListId |-> IF k = l THEN <<t>> \o Without(ls[k], t)
                               ELSE Without(ls[k], t)]

MoveLast(t, l) == LastOn(list, t, l)
MoveFirst(t, l) == FirstOn(list, t, l)

OnList(t, l) == \E i \in 1 .. Len(list[l]) : list[l][i] = t

\* A task exists for the application once librertos_create_task listed it.
Created == {t \in Task : \E l \in ListId : OnList(t, l)}

Ready == {t \in Task : \E l \in Priority : OnList(t, l)}

\* The priority a resumed or scheduled task has to exceed.
PriorityOf(t) == IF t = NULL THEN -1 ELSE priority[t]

-----------------------------------------------------------------------------
(* The call stack.  A frame holds                                            *)
(*   kind   "init" main() before librertos_start(), "main" after it,         *)
(*          "task" librertos_sched() and the task function it called,        *)
(*          "isr"  an interrupt handler;                                     *)
(*   task   the task of a "task" frame;                                      *)
(*   saved  the local current_task of librertos_sched ("task"), or the       *)
(*          task that interrupt_lock() returned ("isr");                     *)
(*   pc     "run"     application code,                                      *)
(*          "create"  locked, arg not yet in tasks_suspended,                *)
(*          "resume"  locked, arg not yet resumed,                           *)
(*          "unlock"  about to call scheduler_unlock(),                      *)
(*          "exit"    interrupt_unlock(), current_task already restored,     *)
(*          "sched"   entering librertos_sched(), interrupts still enabled,  *)
(*          "iret"    handler done, to return from the interrupt;            *)
(*   arg    the task a "create" or "resume" is about;                        *)
(*   locks  scheduler_lock() calls of the frame not yet undone;              *)
(*   base   history: scheduler_depth when the frame was pushed.  Nothing     *)
(*          reads it but invariants.                                         *)

Kind == {"init", "main", "task", "isr"}
PC == {"run", "create", "resume", "unlock", "exit", "sched", "iret"}
Frame == [kind : Kind, task : Task \cup {NULL}, saved : Task \cup {NULL},
          pc : PC, arg : Task \cup {NULL}, locks : Nat, base : Nat]

Top == Last(stack)
InUserCode == Top.pc = "run"

Push(s, f) == Append(s, f)
Pop(s) == Front(s)

\* Frame f goes on at pc, about task t, with n more locks.
Moved(f, pc, t, n) ==
    [kind |-> f.kind, task |-> f.task, saved |-> f.saved, pc |-> pc, arg |-> t,
     locks |-> f.locks + n, base |-> f.base]

\* So does the top frame of s.
Goto(s, pc, t, n) == [s EXCEPT ![Len(s)] = Moved(Last(s), pc, t, n)]

\* main(), with the scheduler locks it holds.
MainFrame(kind, locks) ==
    [kind |-> kind, task |-> NULL, saved |-> NULL, pc |-> "run", arg |-> NULL,
     locks |-> locks, base |-> 0]

\* Where a frame goes on after scheduler_unlock() and librertos_sched().
AfterUnlock == IF Top.kind = "isr" /\ Top.pc \in {"exit", "sched"}
               THEN "iret" ELSE "run"

\* The lock main() holds until librertos_start(), and that of an interrupt.
LocksOfFrame(kind) == IF kind \in {"init", "isr"} THEN 1 ELSE 0

IsrFrames == {i \in 1 .. Len(stack) : stack[i].kind = "isr"}

-----------------------------------------------------------------------------
\* librertos_init().  Nothing is created, main holds the scheduler lock.
Init ==
    /\ scheduler_depth = 1
    /\ higher_priority_task_ready = FALSE
    /\ current_task = NULL
    /\ list = [l \in ListId |-> <<>>]
    /\ priority = [t \in Task |-> 0]
    /\ running = {}
    /\ stack = <<MainFrame("init", 1)>>

\* Mutant: ++scheduler_depth is lost.
LockFor_NoIncrement(pc, t) ==
    /\ stack' = Goto(stack, pc, t, 1)
    /\ UNCHANGED <<scheduler_depth, higher_priority_task_ready, current_task,
                   list, running>>

\* scheduler_lock() on the way into an operation on t.
LockFor(pc, t) ==
    /\ scheduler_depth' = scheduler_depth + 1
    /\ stack' = Goto(stack, pc, t, 1)
    /\ UNCHANGED <<higher_priority_task_ready, current_task, list, running>>

\* librertos_create_task(): the fields of t, then scheduler_lock().  Tasks are
\* created "at any point" (doc/Tasks.md:5-6), each once.
CreateTask(t, p) ==
    /\ InUserCode
    /\ t \notin Created
    /\ \A i \in 1 .. Len(stack) : stack[i].pc = "create" => stack[i].arg # t
    /\ priority' = [priority EXCEPT ![t] = p]
    /\ LockFor("create", t)

\* Its critical section: t enters tasks_suspended; task_resume(t) follows.
CreateInsert ==
    /\ Top.pc = "create"
    /\ list' = MoveLast(Top.arg, Suspended)
    /\ stack' = Goto(stack, "resume", Top.arg, 0)
    /\ UNCHANGED <<scheduler_depth, higher_priority_task_ready, current_task,
                   priority, running>>

\* task_resume() up to its scheduler_lock().
TaskResume(t) ==
    /\ InUserCode
    /\ t \in Created
    /\ LockFor("resume", t)
    /\ UNCHANGED priority

\* Mutant: a resume of a low priority task clears the request of another.
ResumeInsert_FlagOverwritten ==
    /\ Top.pc = "resume"
    /\ list' = MoveLast(Top.arg, priority[Top.arg])
    /\ higher_priority_task_ready' =
          (priority[Top.arg] > PriorityOf(current_task))
    /\ stack' = Goto(stack, "unlock", NULL, 0)
    /\ UNCHANGED <<scheduler_depth, current_task, priority, running>>

\* The critical section of task_resume().
ResumeInsert ==
    /\ Top.pc = "resume"
    /\ list' = MoveLast(Top.arg, priority[Top.arg])
    /\ higher_priority_task_ready' =
          (higher_priority_task_ready
             \/ priority[Top.arg] > PriorityOf(current_task))
    /\ stack' = Goto(stack, "unlock", NULL, 0)
    /\ UNCHANGED <<scheduler_depth, current_task, priority, running>>

\* task_suspend() takes no lock; a running task runs on until it returns.
TaskSuspend(t) ==
    /\ InUserCode
    /\ t \in Created
    /\ list' = MoveFirst(t, Suspended)
    /\ UNCHANGED <<scheduler_depth, higher_priority_task_ready, current_task,
                   priority, running, stack>>

\* scheduler_lock() by the application.
SchedulerLock ==
    /\ InUserCode
    /\ Top.locks < LocksOfFrame(Top.kind) + MaxLocks
    /\ LockFor("run", NULL)
    /\ UNCHANGED priority

\* Mutants: scheduler_depth == 0, or KERNEL_MODE, is not tested.
Unlock_AnyDepth ==
    /\ scheduler_depth' = scheduler_depth - 1
    /\ stack' = Goto(stack, IF Preemptive /\ higher_priority_task_ready
                            THEN "sched" ELSE AfterUnlock, NULL, -1)
    /\ UNCHANGED <<higher_priority_task_ready, current_task, list, priority,
                   running>>
Unlock_AnyMode ==
    /\ scheduler_depth' = scheduler_depth - 1
    /\ stack' = Goto(stack, IF scheduler_depth = 1 /\ higher_priority_task_ready
                            THEN "sched" ELSE AfterUnlock, NULL, -1)
    /\ UNCHANGED <<higher_priority_task_ready, current_task, list, priority,
                   running>>

\* scheduler_unlock(): the last unlock of a preemptive kernel calls the
\* scheduler when a resume asked for it.
Unlock ==
    /\ scheduler_depth' = scheduler_depth - 1
    /\ stack' = Goto(stack, IF /\ Preemptive
                               /\ scheduler_depth = 1
                               /\ higher_priority_task_ready
                            THEN "sched" ELSE AfterUnlock, NULL, -1)
    /\ UNCHANGED <<higher_priority_task_ready, current_task, list, priority,
                   running>>

\* scheduler_unlock() by the application, undoing a lock of its own.
SchedulerUnlock ==
    /\ InUserCode
    /\ Top.locks > LocksOfFrame(Top.kind)
    /\ Unlock

\* scheduler_unlock() at the end of an operation or of an interrupt.
OperationUnlock ==
    /\ Top.pc \in {"unlock", "exit"}
    /\ Unlock

\* librertos_start(), once.
Start ==
    /\ InUserCode /\ Top.kind = "init"
    /\ Top.locks = 1
    /\ scheduler_depth' = 0
    /\ stack' = [stack EXCEPT ![Len(stack)] = MainFrame("main", 0)]
    /\ UNCHANGED <<higher_priority_task_ready, current_task, list, priority,
                   running>>

-----------------------------------------------------------------------------
(* The scheduler.                                                            *)

\* Mutant: the loop goes down to the priority of the current task itself.
NonEmptyAbove_Equal(ls, cur) ==
    {p \in Priority : p >= PriorityOf(cur) /\ ls[p] # <<>>}

\* get_higher_priority_task(): of the ready lists above the priority of cur,
\* only the highest that is not empty counts, and only its first task.
NonEmptyAbove(ls, cur) ==
    {p \in Priority : p > PriorityOf(cur) /\ ls[p] # <<>>}

\* Mutant: the loop goes up instead of down.
HigherPriorityTask_Lowest(ls, run, cur) ==
    IF \E p \in NonEmptyAbove(ls, cur) :
          /\ \A q \in NonEmptyAbove(ls, cur) : p <= q
          /\ Head(ls[p]) \notin run
    THEN Head(ls[CHOOSE p \in NonEmptyAbove(ls, cur) :
                    \A q \in NonEmptyAbove(ls, cur) : p <= q])
    ELSE NULL

\* Mutant: a task that runs already is taken again.
HigherPriorityTask_Running(ls, run, cur) ==
    IF NonEmptyAbove(ls, cur) # {}
    THEN Head(ls[CHOOSE p \in NonEmptyAbove(ls, cur) :
                    \A q \in NonEmptyAbove(ls, cur) : q <= p])
    ELSE NULL

HigherPriorityTask(ls, run, cur) ==
    IF \E p \in NonEmptyAbove(ls, cur) :
          /\ \A q \in NonEmptyAbove(ls, cur) : q <= p
          /\ Head(ls[p]) \notin run
    THEN Head(ls[CHOOSE p \in NonEmptyAbove(ls, cur) :
                    \A q \in NonEmptyAbove(ls, cur) : q <= p])
    ELSE NULL

\* librertos_sched() running t, in a call made while cur was current.
TaskFrame(t, cur) ==
    [kind |-> "task", task |-> t, saved |-> cur, pc |-> "run", arg |-> NULL,
     locks |-> 0, base |-> scheduler_depth]

\* Mutant: the list is not rotated.
Dispatch_NoRotation(t) ==
    /\ higher_priority_task_ready' = FALSE
    /\ current_task' = t
    /\ UNCHANGED <<scheduler_depth, priority, list>>

\* What the scheduler does to run t: rotate its list, mark it.
Dispatch(t) ==
    /\ higher_priority_task_ready' = FALSE
    /\ current_task' = t
    /\ list' = MoveLast(t, priority[t])
    /\ UNCHANGED <<scheduler_depth, priority>>

\* librertos_sched() finds a task: it is called on top of the caller.
SchedDispatch(t) ==
    /\ Top.pc = "sched"
    /\ t = HigherPriorityTask(list, running, current_task)
    /\ Dispatch(t)
    /\ running' = running \cup {t}
    /\ stack' = Push(Goto(stack, AfterUnlock, NULL, 0),
                     TaskFrame(t, current_task))

\* librertos_sched() finds no task and returns to its caller.
SchedNothing ==
    /\ Top.pc = "sched"
    /\ HigherPriorityTask(list, running, current_task) = NULL
    /\ stack' = Goto(stack, AfterUnlock, NULL, 0)
    /\ UNCHANGED <<scheduler_depth, higher_priority_task_ready, current_task,
                   list, priority, running>>

\* Mutant: task_state stays TASK_RUNNING after the return.
TaskReturn_StillRunning(t) ==
    /\ InUserCode /\ Top.kind = "task"
    /\ Top.locks = 0
    /\ t = HigherPriorityTask(list, running \ {Top.task}, Top.saved)
    /\ t # NULL
    /\ Dispatch(t)
    /\ running' = running \cup {t}
    /\ stack' = Push(Pop(stack), TaskFrame(t, Top.saved))

\* The task function returned with the scheduler unlocked: the same call of
\* librertos_sched goes on with the next task above the one it preempted.
TaskReturn(t) ==
    /\ InUserCode /\ Top.kind = "task"
    /\ Top.locks = 0
    /\ t = HigherPriorityTask(list, running \ {Top.task}, Top.saved)
    /\ t # NULL
    /\ Dispatch(t)
    /\ running' = (running \ {Top.task}) \cup {t}
    /\ stack' = Push(Pop(stack), TaskFrame(t, Top.saved))

\* Mutant: librertos_sched does not restore current_task.
TaskReturnLast_NoRestore ==
    /\ InUserCode /\ Top.kind = "task"
    /\ Top.locks = 0
    /\ HigherPriorityTask(list, running \ {Top.task}, Top.saved) = NULL
    /\ running' = running \ {Top.task}
    /\ current_task' = NULL
    /\ stack' = Pop(stack)
    /\ UNCHANGED <<scheduler_depth, higher_priority_task_ready, list, priority>>

\* The task function returned and there is none: librertos_sched returns.
TaskReturnLast ==
    /\ InUserCode /\ Top.kind = "task"
    /\ Top.locks = 0
    /\ HigherPriorityTask(list, running \ {Top.task}, Top.saved) = NULL
    /\ running' = running \ {Top.task}
    /\ current_task' = Top.saved
    /\ stack' = Pop(stack)
    /\ UNCHANGED <<scheduler_depth, higher_priority_task_ready, list, priority>>

\* while (1) { librertos_sched(); } in main().
MainLoop ==
    /\ InUserCode /\ Top.kind = "main"
    /\ Top.locks = 0
    /\ stack' = Goto(stack, "sched", NULL, 0)
    /\ UNCHANGED <<scheduler_depth, higher_priority_task_ready, current_task,
                   list, priority, running>>

-----------------------------------------------------------------------------
(* Interrupts.                                                               *)

\* Mutant: interrupt_lock() does not lock the scheduler.
InterruptEnter_NoLock ==
    /\ Cardinality(IsrFrames) < MaxIsr
    /\ current_task' = NULL
    /\ stack' = Push(stack, [kind |-> "isr", task |-> NULL,
                             saved |-> current_task, pc |-> "run",
                             arg |-> NULL, locks |-> 1,
                             base |-> scheduler_depth])
    /\ UNCHANGED <<scheduler_depth, higher_priority_task_ready, list, priority,
                   running>>

\* An interrupt arrives and its handler calls interrupt_lock().
InterruptEnter ==
    /\ Cardinality(IsrFrames) < MaxIsr
    /\ scheduler_depth' = scheduler_depth + 1
    /\ current_task' = NULL
    /\ stack' = Push(stack, [kind |-> "isr", task |-> NULL,
                             saved |-> current_task, pc |-> "run",
                             arg |-> NULL, locks |-> 1,
                             base |-> scheduler_depth])
    /\ UNCHANGED <<higher_priority_task_ready, list, priority, running>>

\* The handler calls interrupt_unlock(), up to its scheduler_unlock().
InterruptUnlock ==
    /\ InUserCode /\ Top.kind = "isr"
    /\ Top.locks = 1
    /\ current_task' = Top.saved
    /\ stack' = Goto(stack, "exit", NULL, 0)
    /\ UNCHANGED <<scheduler_depth, higher_priority_task_ready, list, priority,
                   running>>

\* The handler returns to the code it interrupted.
InterruptReturn ==
    /\ Top.pc = "iret"
    /\ stack' = Pop(stack)
    /\ UNCHANGED <<scheduler_depth, higher_priority_task_ready, current_task,
                   list, priority, running>>

-----------------------------------------------------------------------------
Next ==
    \/ \E t \in Task, p \in Priority : CreateTask(t, p)
    \/ CreateInsert
    \/ \E t \in Task : TaskResume(t)
    \/ ResumeInsert
    \/ \E t \in Task : TaskSuspend(t)
    \/ SchedulerLock
    \/ SchedulerUnlock
    \/ OperationUnlock
    \/ Start
    \/ \E t \in Task : SchedDispatch(t)
    \/ SchedNothing
    \/ \E t \in Task : TaskReturn(t)
    \/ TaskReturnLast
    \/ MainLoop
    \/ InterruptEnter
    \/ InterruptUnlock
    \/ InterruptReturn

Spec == Init /\ [][Next]_vars

-----------------------------------------------------------------------------
(* Fairness.  The CPU executes what is on top of the stack, interrupts leave *)
(* it some time, and application code (a task function, a handler, main)     *)
(* does not keep the CPU or a lock for ever: tasks run to completion.        *)

KernelStep(kind) ==
    /\ Top.kind = kind
    /\ \/ CreateInsert \/ ResumeInsert \/ OperationUnlock
       \/ SchedNothing \/ (\E t \in Task : SchedDispatch(t))
       \/ InterruptReturn

TaskCompletes(t) ==
    /\ Top.task = t
    /\ (\E u \in Task : TaskReturn(u)) \/ TaskReturnLast

Fairness ==
    /\ \A kind \in Kind : SF_vars(KernelStep(kind))
    /\ \A kind \in Kind : SF_vars(SchedulerUnlock /\ Top.kind = kind)
    /\ \A t \in Task : SF_vars(TaskCompletes(t))
    /\ SF_vars(InterruptUnlock)
    /\ SF_vars(Start)
    /\ SF_vars(MainLoop)

FairSpec == Spec /\ Fairness

-----------------------------------------------------------------------------
(* Properties.                                                               *)

\* The types of the variables; the stack is never empty.
TypeOK ==
    /\ scheduler_depth \in Nat
    /\ higher_priority_task_ready \in BOOLEAN
    /\ current_task \in Task \cup {NULL}
    /\ list \in [ListId -> Seq(Task)]
    /\ priority \in [Task -> Priority]
    /\ running \subseteq Task
    /\ stack \in Seq(Frame) /\ stack # <<>>

\* list_remove and list_insert_* keep every task on exactly one scheduler
\* list, exactly once, and a ready task on the list of its own priority
\* (lines 139, 577-579, 595-596, 189-190), whatever interrupts do in between.
EachTaskOnOneList ==
    \A k, l \in ListId :
        \A i \in 1 .. Len(list[k]), j \in 1 .. Len(list[l]) :
            /\ list[k][i] = list[l][j] => k = l /\ i = j
            /\ k \in Priority => priority[list[k][i]] = k

\* librertos_sched never calls a task function that has not returned: a task
\* is on the call stack at most once, exactly when its task_state says it is
\* running (lines 186-187, 226, 239).
NoReentry ==
    /\ \A t \in Task :
          t \in running <=> \E i \in 1 .. Len(stack) :
                              stack[i].kind = "task" /\ stack[i].task = t
    /\ \A i, j \in 1 .. Len(stack) :
          stack[i].kind = "task" /\ stack[j].kind = "task"
             /\ stack[i].task = stack[j].task => i = j

\* A task only ever runs on top of tasks of lower priority, through whatever
\* handlers (line 178): the call stack holds at most NUM_PRIORITIES tasks.
PriorityNesting ==
    \A i, j \in 1 .. Len(stack) :
        i < j /\ stack[i].kind = "task" /\ stack[j].kind = "task"
           => priority[stack[i].task] < priority[stack[j].task]

\* current_task as the frame f, when it is on top, has to find it: a handler
\* sees no task from interrupt_lock() to interrupt_unlock().
CurrentTaskOf(f) ==
    IF f.kind = "task" THEN f.task
    ELSE IF f.kind = "isr" /\ f.pc \in {"exit", "sched", "iret"} THEN f.saved
    ELSE NULL

\* current_task is that of the code that executes, and every scheduler call
\* and handler will restore what the code under it needs (lines 219, 242,
\* 331-332, 349), under any nesting.
CurrentTaskRestored ==
    /\ current_task = CurrentTaskOf(Top)
    /\ \A i \in 2 .. Len(stack) : stack[i].saved = CurrentTaskOf(stack[i - 1])

\* The assertion of librertos_sched (line 213) and what it protects: the
\* scheduler runs with scheduler_depth 0, and every frame finds again, once
\* what it called or what interrupted it has returned, the depth it left.
DepthBalanced ==
    /\ Top.pc = "sched" => scheduler_depth = 0
    /\ scheduler_depth = Top.base + Top.locks
    /\ \A i \in 2 .. Len(stack) :
          stack[i].base = stack[i - 1].base + stack[i - 1].locks

\* A scheduler_lock() holds (line 246 on): no task is run on top of code,
\* task, main or handler, that holds the scheduler lock.
LockPreventsPreemption ==
    \A i, j \in 1 .. Len(stack) :
        i < j /\ stack[j].kind = "task" => stack[i].locks = 0

\* A preemptive kernel runs a task "as soon as it is ready"
\* (doc/Project-Setup.md:67-69): while a task executes with the scheduler
\* unlocked, no task of higher priority is ready.
NoMissedPreemption ==
    Preemptive /\ Top.kind = "task" /\ Top.pc = "run" /\ scheduler_depth = 0
       => \A u \in Ready : priority[u] <= priority[Top.task]

\* A cooperative kernel runs another task "only when the current task
\* finishes" (doc/Project-Setup.md:70-72), from main's loop alone: never a
\* task, and never a handler, under a task.
CooperativeRunsOne ==
    ~Preemptive =>
        \A i \in 1 .. Len(stack) : stack[i].kind = "task" => i = 2

\* The scheduler shares the CPU among the tasks of the highest priority
\* (lines 189-190): one that stays ready, and that task_resume() does not send
\* back to the end of its list again and again, runs again and again.
StaysReady(t) == t \in Ready /\ \A u \in Ready : priority[u] <= priority[t]
Resumed(t) == ResumeInsert /\ Top.arg = t

ReadyTasksShareTheCPU ==
    \A t \in Task :
        <>[]StaysReady(t) /\ <>[][~Resumed(t)]_vars => []<>(t \in running)

\* With the ready lists as a set and the task states as the set of active
\* tasks, the kernel is a priority scheduler: it calls and returns from tasks
\* only as PriorityScheduler allows.
PS == INSTANCE PriorityScheduler WITH ready <- Ready, active <- running

ImplementsPriorityScheduler == PS!Spec
=============================================================================
