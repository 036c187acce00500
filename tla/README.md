# LibreRTOS in TLA+

A TLA+ development of LibreRTOS, a small single-stack real-time kernel whose
implementation is one file, `src/src/librertos.c` (types in
`src/include/librertos.h`). Line numbers below are of `librertos.c`.

There is one CPU and no thread: tasks are functions that run to completion, and
the scheduler *calls* them on the stack of whatever it preempts. Everything that
interleaves is therefore on one call stack. An interrupt handler is pushed on top
of any code that has interrupts enabled; a task is pushed on top of any code that
unlocks the scheduler. What makes the code hard is that it enables interrupts as
often as it can: the searches of sorted lists open a window at every comparison,
and whatever was read before a window may be stale after it.

## 1. Inventory

| Component (lines) | State | Operations | Interacts with |
|---|---|---|---|
| Scheduler and tasks (67-351, 568-613) | `scheduler_depth`, `higher_priority_task_ready`, `current_task`, ready lists, `tasks_suspended`, each task's `priority`, `task_state` | `librertos_init`, `_create_task`, `_start`, `_sched`, `scheduler_lock/unlock`, `interrupt_lock/unlock`, `task_suspend`, `task_resume` | called by everything; calls task functions |
| Linked lists (859-920) | `head`, `tail`, `length`; `next`, `prev`, `list` of nodes | insert first/last/after, remove | used by all |
| Tick and delays (353-436, 465-556) | `tick`, `tasks_delayed[2]`, the two role pointers, `delay_until` | `librertos_tick_interrupt`, `get_tick`, `task_delay` | resumes tasks from a handler |
| Events and semaphores (925-1188) | `suspended_tasks` in priority order, `count`, `max` | `semaphore_lock/unlock/suspend/lock_suspend` | suspends, delays and resumes tasks |
| Mutexes (1192-1369) | `count`, `task_owner`, priorities of owners | `mutex_lock/unlock/suspend/lock_suspend`, `task_set_priority` | events, ready lists |
| Queues (1380-1590) | `free`, `used`, `head`, `tail`, `end`, buffer | `queue_read/write/suspend/read_suspend` | events |
| Timers (615-810) | a task with `type` and `period` | `librertos_create_timer`, `timer_start/reset/stop` | `task_delay` on behalf of another task |
| `task_resume_all` (812-856) | none | resumes all but timers | all lists, with windows |
| Ports, examples, tests | | interrupt enable/disable, idle | |

Hard behaviours and what makes each component correct:

* **Scheduler.** Calls nest: unlock, dispatch, task, unlock, ..., interrupt,
  unlock. Every level must find `current_task` and `scheduler_depth` as it left
  them, no task may be entered twice, tasks nest in strictly rising priority, a
  lock keeps tasks off, and no request for a preemption is lost.
* **Delays.** The tick wraps and the two delayed lists swap roles; ticks nest; the
  insertion keeps a sorted list with interrupts enabled between comparisons. A
  delay is neither too short nor too long, and a resume during the insertion
  counts.
* **Events.** The same search by priority; the wait is announced first and placed
  later, so unlocks, timeouts and other resumes can hit any of its steps. No
  wakeup is lost, no task waits and runs at once, the first waiter has the highest
  priority.
* **Queues.** FIFO order through every wrap of the ring, fixed-width counters.
* **Mutexes.** Mutual exclusion among tasks and callers without a task, recursion;
  a priority that is lent lasts until an unlock and is given back; owners whose
  priority changes while they wait or are ready are moved on ready and event lists,
  the latter with windows, also inside `mutex_unlock`; no unlock is lost.
* **Timers.** `timer_reset` delays the timer in the name of whoever calls it, so
  resets nest in one another, in scans and in the timer's own expiry. An auto-reset
  timer goes on, a one-shot timer runs once, a stopped one does not run.
* **`task_resume_all` and lists.** A walk that keeps a pointer across a window while
  handlers move nodes: it ends, misses no task, and the pointers stay rings.

## 2. Modules

| Module | Models | State and actions against the code |
|---|---|---|
| `PriorityScheduler` | what the scheduler promises | `ready`, `active` tasks; when a task may be called or return. No lists, locks, handlers or stack |
| `Kernel` | scheduler and tasks | the variables of `librertos` and a call `stack`; a frame stands for `main`, for one call of `librertos_sched` with its task, or for a handler. One action per stretch with interrupts disabled, `InterruptEnter` between any two |
| `TaskLists` | a list of tasks as a sequence (extended by `Kernel`, `Delay` and `SequenceLists`) | `Without` is `list_remove` |
| `KernelProofs` | | theorems about `Kernel` |
| `Delay` | tick and delays | `tick` modulo `TickMod`, the two lists, `current` for the role pointers. `ScanCompare` is one comparison and the locked stretch after it; `TickResume`/`TickLoop` are the two stretches of the handler's loop |
| `Semaphore` | events, semaphore, waits (extends `Delay`) | `count`, `waiting` (the event list). `EventCompare` is one comparison of the search by priority, `EventPlaced` the end of the wait, which may go on into `Delay`'s `DelayUntil` |
| `DelayProofs` | | theorems about `Delay`; `TaskListProofs` has the lemmas about its lists |
| `BoundedFifo` | what a queue promises | a bounded sequence |
| `Queue` | the ring of a queue | the fields of `queue_t`, in their widths, and the buffer by byte offset |
| `QueueProofs` | | theorems about `Queue` |
| `QueueWait` | queues with waiting readers (extends `Semaphore`, instantiates `Queue`) | `used` is the `count` of the semaphore; a read is a lock and a read of the ring, a write an unlock and a write |
| `SemaphoreProofs` | | theorems about `Semaphore` and `QueueWait` |
| `Mutex` | mutexes, priority inheritance (extends `Kernel`) | `count`, `task_owner`, `waiting` (each mutex's event list); `search` is the one `event_find_priority_position` that may be under way, with the call it belongs to: the wait, the raise of an owner in `mutex_suspend`, or the drop in `mutex_unlock` |
| `MutexProofs` | | theorems about `Mutex` |
| `Timer` | software timers (extends `Delay`) | timers are tasks of `Delay`; a `timer_reset`, and the restart in `librertos_timer_next_state`, is a frame (`pc = "reset"`, then `"scan"`) that delays the timer for whoever called |
| `TimerProofs` | | theorems about `Timer` |
| `SequenceLists` | what the scheduler lists promise | sequences; a node is created at the end of the ready list, and goes from where it is to the end of the ready list, the front of the suspended list or anywhere on a delayed list |
| `LinkedList` | `list_t`, `node_t` | `heap`: `next`, `prev`, `list`, `length`, a list being the head of its own ring; one operator per list function |
| `ResumeAll` | `task_resume_all` (extends `LinkedList`) | `walk`: the list, `node` and `next_node`; two actions per node, as its window splits them, and handlers in between |
| `ResumeAllProofs` | | theorems about `LinkedList` and `ResumeAll` |
| `MC*` | instances for TLC | symmetry, priorities, views |

Composition. `Kernel` implements `PriorityScheduler`. `Delay` uses only what
`PriorityScheduler` promises (a task starts above lower priorities, never
inside a locked stretch) in place of the whole dispatcher, and so does
`Semaphore`, which is `Delay` with an event list, and `Timer`. `QueueWait` is
`Semaphore` and `Queue` together. `Mutex` is the only one that needs the
dispatcher itself, as priorities change under it, and extends `Kernel`. `Queue`
implements `BoundedFifo`; `ResumeAll` implements `SequenceLists`, which is the
ground for the sequences of all others.

Abstractions, and why they are sound:

* A critical section is one action: `CRITICAL_ENTER` disables all interrupts of a
  single CPU. The explicit `INTERRUPTS_ENABLE`/`DISABLE` pairs in the searches
  (444-505, 931-972, 371-373) end an action and start the next.
* Lists are sequences, except in `LinkedList` and `ResumeAll`, which have the pointers
  and implement the sequences.
* In `Kernel` an API call that locks the scheduler while it already holds the lock
  is left out of the depth: the depth is only compared with 0.
* In `Delay` and `Semaphore` a task on no list is ready; the order of ready lists
  and `tasks_suspended` is not read there. Handlers other than the tick are
  single calls (`task_resume`, `task_suspend`, `semaphore_unlock`) that may come at
  any moment; they are not put on the stack, because they hold no position
  across a window. A handler never delays or waits, as it is not a task.
* Views leave out `delay_until` of tasks on no delayed list, which nothing reads.
* `sleep`, `left`, `wrapped`, `fresh`, `woken`, `base`, `held`, `loan`, `armed`, `stopped`,
  `quiet`, `nextMoved` and `ResumeAll`'s `left` are history: no guard
  reads them. `stopped` has the auto-reset timers that `timer_stop` suspended and nobody
  has resumed or delayed since; `quiet` the timers stopped when nobody was about to start
  them again (`AboutToStart`) and not started or reset since.
* Tasks are created once each, by `main`, by tasks or by handlers (doc/Tasks.md:5-6),
  before or after `librertos_start`; `interrupt_lock` is one action, because a handler
  nested inside it restores `current_task` and dispatches nothing above the lock.
* The asserted preconditions of the API are guards: a task that waits is not on
  an event list (line 999), the caller of a delay is a task (518), a mutex that is
  unlocked is locked.
* That a mutex is unlocked by who locked it is an assumption about its use, not a
  condition of the code: lines 1271-1303 assert only that it is locked, and
  `tests/mutex_test.cpp` (270-292) unlocks from `main` what a task locked. The guard of
  `MutexUnlock` assumes it, and `MutualExclusion` says nothing of other uses.
* In `Mutex`, the tasks are created and started; the suspended and delayed lists are
  sets to TLC (`View`); a wait with a timeout ends at any tick, as the order of the
  delayed list and its search are in `Delay`. The application takes no scheduler
  lock of its own there (`Kernel` has that). `woken` forgets its tasks when nobody
  waits.
* In `Timer`, what an interrupt between the `task_resume` and the `get_tick` of one
  `timer_reset` does, it may as well do before it; `timer_start` of a stopped timer is
  a `timer_reset`. Tasks that are no timers are resumed, not suspended, by others.
* In `ResumeAll`, handlers are single moves of any node between any two steps; a call
  of `task_resume_all` by a handler is several of them, and `librertos_create_task` is one
  (the insertion on `tasks_suspended` and the resume): a handler between its two
  stretches may come before it. Tasks move nodes only while no walk is on, because it
  holds the scheduler lock.

## 3. Runs

| Run | Bounds | Shows |
|---|---|---|
| `kernel_preemptive` | 3 tasks, 3 priorities, 2 nested interrupts, a user lock per frame | types, lists, no reentry, priority nesting, `current_task`, no missed preemption, depth balanced, locks hold, refinement of `PriorityScheduler` |
| `kernel_cooperative` | 2 tasks, cooperative | one task at a time; round robin among equals |
| `delay_liveness` | 3 tasks, tick modulo 3, delays of 1 and 2, no nested handlers, cooperative | restarted scans and delays end |
| `timers` | a task, an auto-reset and a one-shot timer, cooperative (what tasks do to timers, handlers may do as well), tick modulo 3, 2 nested resets, tick handlers that do not nest | sorted lists, delays never early, late only if the tick wrapped inside the call, resumes kept, auto timers go on, one-shot timers run once, stopped timers do not run |
| `timer_reset_in_scan` | the same, tick modulo 4 | **violation** of `NeverOverdueUnlessWrapped` (finding 3) |
| `semaphore_forever` | 4 tasks, 2 priorities, `max` 2 | waits without timeout: no unlock lost, waiters sorted, resumes kept |
| `semaphore_lost_wakeup` | 2 tasks | **violation** of `WaitResumeKept` (finding 1) |
| `queue` | 4 items of 3 bytes, 3 values | ring consistent; refinement of `BoundedFifo` |
| `queue_wait` | 2 tasks, 2 items, tick modulo 4, every timeout | waits with timeouts: event list and delayed lists agree, no item stranded |
| `mutex` | 3 tasks of 3 priorities, 2 mutexes, 1 interrupt, one task recursive, one with timeouts | mutual exclusion, loans honoured and ended, waiters sorted, no unlock lost, no reentry while priorities change |
| `mutex_missed_preemption` | 2 tasks, 1 mutex | **violation** of `NoMissedPreemption` (finding 2) |
| `resume_all` | 3 tasks and a timer on 4 lists, each created at any time | pointers consistent, refinement of `SequenceLists`, nobody left behind |

Why the bounds are enough to meet the cases. Three tasks on three priorities with
two nested interrupts reach: a task preempted by a task preempted by a task, each
through a handler, with a handler on a handler. A search needs an inserted task, a
cursor and a neighbour, so three tasks. In `delay_liveness` two tasks may be on the list
that the third searches, so that a scan whose position was removed starts again with a
node left to compare with; its mutant starts again at the node that left and never ends.
The view of that run, `LiveView`, leaves out the histories and the `delay_until` of tasks
that are awake: no guard, no fairness condition and no part of `DelayEnds` reads
them, so that two states of one view have the same steps. With a tick modulo 4 and a delay of 3 the
wakeup is before, at and after a wrap, and two wraps happen within two delays.
Four waiters of two priorities give two equal ones below and above; `max` 2 makes
two unlocks meet two woken tasks. The FIFO of four items wraps at every phase of
head against tail. Two mutexes and three tasks give an owner that waits for the
other mutex with a waiter of its own above and below it: each of the three searches
meets each of the others' changes. `TickMod` 3 with periods 2 (auto) and 2
(one-shot) and a delay of 1 puts wakeups before, at and after a wrap, on both lists,
with a node to scan. Four nodes give a walk a node, a next one, one after it that
moves, and a timer; the tasks of `resume_all` are symmetric, as nothing compares them. Deadlock is checked in every run but `resume_all`, where the
model stops after a list was taken for a node.

Bounds are constants and appear only in guards: `MaxIsr` (handler frames),
`MaxLocks` (user locks per frame), `MaxCount` (recursive locks of a mutex per task),
`Timed` (which tasks wait with a timeout), `Others` (the tasks that `task_suspend` and
`task_resume` are called for), `MaxResets` (calls of `timer_reset` on the stack).
`TickMod` is the width of `tick_t`. `Delays` leaves 0 out of the runs: `task_delay(0)`
compares `now < now` at line 523, goes to the overflow list and sleeps a whole
period of the counter, and no document says what a delay of 0 means.

Some cases the code gets wrong are excluded by name, so that the rest can be checked;
section 6 describes them: `ResetInScan` is FALSE in `timers` (finding 3, and a reset of
a timer that a tick handler is about to resume); no `task_suspend` of a task that
looks for its place on an event list; `wrapped` in `NeverOverdueUnlessWrapped`;
`MaxIsr` is 1 in `timers`, because a tick handler inside another one makes a reset
above it early;
`delayed` in `MutexWaitersSorted`; `nextMoved` in `ResumesAll`; and, in
`StoppedNeverRuns`, the stops that `AboutToStart` names: of a timer that a tick handler
below has found due, that is in the middle of a reset, or, auto-reset, whose function
runs. The code undoes these. `AutoContinues` asks nothing of a timer in `stopped`.

Some properties are weaker than their hazard. `NoItemStranded` counts a woken reader as
one that will look even if its own wait or a `task_suspend` has put it to sleep again.
`LoanHonoured` ends every loan at an unlock of the owner, so it does not ask for the
loan that another held mutex would still justify. `OneShotRunsOnce` bounds the runs from
above only and does not see a reset that is lost. `RingsOK` takes the assertion of line
886 for granted. `NeverEarly` is checked with one tick handler at a time; with nested
ones it is proved for tasks that delay themselves (`DelaysAreNotShortened`). The edge
of `uint16_t` in a queue is in the proof `NoOverflow` only.

## 4. Fairness

* `Kernel!Fairness`: the code on top of the stack takes its next step, and
  application code returns and undoes its locks. Tasks that run to completion are
  the documented premise of the kernel (doc/Tasks.md). It is *strong* fairness
  because an interrupt disables the steps of what it interrupts and re-enables them:
  interrupts leave the CPU some time, over and over, but never a promised stretch.
  Nothing is assumed about interrupts arriving or about which task is resumed.
* `Delay!Fairness`: the timer keeps ticking and kernel code inside a call or a
  tick handler goes on. Nothing is assumed of tasks, so `DelayEnds` excepts only
  a task that calls `task_delay` again and again.

## 5. Proofs

`KernelProofs` proves, for any tasks, priorities, modes, interrupts and locks,
from the assumptions on the constants named in `Kernel`: `TypeOK`,
`EachTaskOnOneList`, `NoReentry`, `PriorityNesting`, `CurrentTaskRestored`,
`DepthBalanced` and `LockPreventsPreemption`. None of them is inductive alone. The
invariant `IInv` relates them. Its list part says that the lists are
duplicate-free and disjoint and that ready tasks are on the list of their
priority. Its stack part describes the frames:

* every frame's `base` and `saved` are what the frame under it implies
  (`DepthBalanced`, `CurrentTaskRestored`), which needs what each `pc` holds locked;
* a frame under a task frame holds no lock, so a dispatch happens only
  at depth 0 (`LockPreventsPreemption`);
* because `saved` is the current task of the frame below, through any handlers,
  the task chosen above `current_task` is above *every* task on the stack
  (`PriorityNesting`), and therefore not one of them (`NoReentry`).

The proof handles a step as one of push, replace or pop of the stack and
one move between lists; `PushKeepsStack`, `ReplaceKeepsStack`, `PopKeepsStack` and
`MoveKeepsLists` are those lemmas, and `StepKeepsInvariant` cites them once per
action. An important consequence is the bound on stack depth that a single-stack
kernel lives by: at most one frame per priority and per nested interrupt.

The second part of `KernelProofs` adds what the dispatcher promises.

* `CInv`: in a cooperative kernel only frame 1, `main`'s, is ever in `librertos_sched`,
  because no unlock goes there, and a task is frame 2 (`CooperativeRunsOne`).
* `NInv` follows a request to preempt: while a ready task outranks an active one,
  `higher_priority_task_ready` is set as long as an outermost lock is held whose unlock
  would go back to that active task (`Requested`), and with nothing locked
  `librertos_sched` is on top of it (`Served`). This gives `NoMissedPreemption`.
* `SchedulerRefines`: `Kernel` implements `PriorityScheduler`, action by action. The
  active tasks of the abstract scheduler are those of the stack, and its current one, the
  largest of a finite set, is shown to be `current_task` by least counterexample.

`MutexProofs` does not use `IInv`'s nesting by priority, which is not true when
priorities change. `MInv` has the stack and who looks for a place on which event list
(`MStackInv`, `SearchOK`), the lists (`OneList`, `OneEvent`), that `count`, `task_owner`
and the history `held` agree (`Owners`), what an owner has inherited (`Lent`,
`LoanHonoured`), and, for `NoLostMutexUnlock`, that while a free mutex has waiters
somebody is on the way to it (`WokenLeft`, `SomeoneTries`). The order of event lists
through all three searches is `WaitInv`, on top of `MInv`. `OneList` and `NoReentry` are
proved for changing priorities too.

`DelayProofs` has three layers, each inductive on top of the one before.

* `ListInv`: types, one list per task, both lists sorted. A scan has passed only tasks
  that wake no later than its own. Handlers above it take tasks away and put nobody
  in (`Thinner`), so what it has passed stays passed, and it notices when its own
  position is gone. Hence `TypeOK` and `SortedByTick`.
* `TimeInv`: the ticks left of a delay are at most the ticks until its list is
  emptied, or until `delay_until`. Hence `NeverEarly`, under any nesting of ticks.
* `LateInv`: the bound from below, unless the tick wrapped between the read of
  `now` and the insertion; it needs `0 \notin Delays`, the case of line 523. Hence
  `NeverOverdueUnlessWrapped`.

`SemaphoreProofs` keeps `Delay`'s invariant through waits and unlocks and adds the event
list: waiters are asleep (`AsleepInv`), a search has passed only tasks of at least its
priority (`SearchInv`), `woken` are those an unlock has resumed (`WokenInv`). This holds
for any timeouts and gives `SemTypeOK`, `WaitersAsleep`, `WaitersSorted`. No unlock
is lost and a resume is kept if `Timeouts \subseteq {MAX_DELAY}`; for other
timeouts finding 1 refutes both. The module also proves that `QueueWait` implements both
`Semaphore` (`QueueIsSemaphore`) and the `Ring` of `Queue` (`QueueIsRing`), so that every
theorem about either is one about queues in use: `NoItemStranded`, and FIFO
order (`QueueInUseIsFifo`, sizes in 1..255).

`TimerProofs` has two invariants. `LookInv` says who is on the stack and holds wherever
resets come, in scans too (`LookInvariantHolds`): task functions are below all handlers
and resets and rise in priority, so a timer's function is on the stack once
(`StackInv`); a timer that is to rest (in `quiet`, or a one-shot timer not armed) is
looked at by no frame (`Idle`); an auto-reset timer that was not stopped is suspended only
while somebody looks at it or its function runs (`ContinuesInv`). It gives `TypeOK`,
`OneShotRunsOnce`, `StoppedNeverRuns`, `AutoContinues` and `ResumeKept` without any
assumption about resets. `TimerInv` adds the order, `ListInv`. It holds only
if no handler resets a timer in the middle of a scan, as finding 3 shows, so
`TimerListsStaySorted` and the two bounds on time assume `~ResetInScan`. The
bounds are `TimeInv` and `LateInv` again, for any caller. The first needs
that no timer delayed above a tick handler gets in that handler's way (`Over`),
which is so with one tick handler at a time: `TimersAreNotEarly` assumes `MaxIsr <= 1`,
and section 6 says what happens otherwise. `TimersAreNotOverdue` holds under any
nesting, for periods and delays that are not 0.

`QueueProofs` proves for every `que_size` and `item_size` in 1..255 and any items:
`RingOK` (inductive as it is), `NoOverflow` (no sum exceeds `uint8_t` or
`uint16_t`, so the fixed-width arithmetic is exact), and `QueueIsFifo`, the
refinement of `BoundedFifo`. The arithmetic of slots against byte offsets is in
lemmas of its own.

`ResumeAllProofs` gives the pointers a meaning. `Represents(h, ls)`: in the heap `h` each list
is the ring of the sequence `ls[l]` (`IsRing`: `next` and `prev` go around through its nodes and
the `list_t` itself), `length` is its length, and a node's `list` is the list it is on.
`RemoveRepresents` and `InsertRepresents` show that the list functions do to such a heap what
cutting and putting an element does to the sequences. What a walk of `length` steps meets is
the sequence (`SequenceIs`), which is an induction along the recursive function that
`SequenceOf` is made of, done by least counterexample. Then

* `HeapInv` says that the heap stands for its own `SequenceOf`; it gives `RingsOK` and, with
  one lemma per operation, the refinement of `SequenceLists`. The counter does not wrap,
  because there are fewer nodes than it counts (`LengthAssumption`, the assertion of line 886).
* `WalkInv` says that, as long as no handler moved the next node, that node still is on the
  list walked over, or is its end, and everybody left is at it, behind it or on a later list
  (`Going`, `Reaches`). At the end there is nothing behind, so nobody is left (`ResumesAll`).

Assumptions on the constants are those of the modules that declare them: finitely
many tasks in `Mutex`, auto-reset timers in `Timer` and nodes in `LinkedList`, priorities,
widths and bounds that are numbers.
`Task`, the delays, periods, `TickMod`, `max` and the bounds on nesting are otherwise
arbitrary; an extra assumption is part of the theorem's statement.

Only model-checked: all liveness (`ReadyTasksShareTheCPU`, `DelayEnds`;
`ENABLED` and liveness under fairness are out of the prover's reach), and that the violations
of section 6 happen. The library's induction theorems take an operator as a parameter and
cannot be cited; where an induction over numbers is needed, it is done by least
counterexample on the well-foundedness of the natural numbers.

## 6. Findings

Shown by a run:

1. **A wait with a timeout can lose its wakeup** (`semaphore_lost_wakeup`, lines
   1011, 527). The second `task_suspend`, inside `task_delay_now_until`, is not
   conditional: an unlock that resumed the task during its search is undone.
   Waits without a timeout are free of it (`semaphore_forever`).
2. **An unlock that lowers a priority can miss a preemption**
   (`mutex_missed_preemption`, lines 1292-1299). `higher_priority_task_ready` is set by
   `task_resume` only, by the priorities of that moment; nothing looks again when the
   owner loses what it had inherited.
3. **A timer reset by a handler can make a delay late** (`timer_reset_in_scan`, lines
   489-505, 770-784). A search sees that its position left the list, not that it left
   and came back. The delayed list loses its order, and a due task stays behind one
   that is not. With resets kept out of scans, `timers` finds the lists sorted.

Read off the code while modelling, excluded from the runs as said in section 3:

* `task_delay` reads the tick before it locks (553); if the counter wraps before the
  task is on a list, the list was chosen for the wrong epoch (523) and the task
  sleeps a period too long. `NeverOverdueUnlessWrapped` shows it is the only way,
  besides finding 3.
* `event_add_task_to_event` takes a task on `tasks_suspended` for one that was not
  resumed (984); a resume and a suspend by handlers during the search leave its
  event node on no list when line 990 removes it.
* A waiting owner that is delayed is not put in its place on the event list when its
  priority changes (985), although the comment at 1254 says "Keep it suspended or
  delayed": it stays last.
* An AUTO timer that is stopped while its function runs is started again (645-648),
  although the comment at 632-633 excepts it.
* A timer that is stopped in the window of a tick handler that has found it due
  (371-372) is resumed by that handler all the same and runs, although `timer_stop` is
  documented to make it "never expire and never execute" (791). A stop in the middle of
  a `timer_reset` of the timer (773-779) is undone by the delay that follows.
* A one-shot timer that is reset between lines 651 and 652 is stopped,
  and so is one whose reset expires before its function ends.
* `timer_reset` of a timer that a tick handler has found due and not yet resumed is
  undone by that handler: the timer runs at once.
* If tick handlers nest, a `timer_reset` above a tick handler that is still in its
  loop (361-373) may be early: an inner tick moves the counter on or wraps, and the timer
  lands on the list that the outer handler is emptying, with a wakeup no later than its
  stale `now`; the outer handler then resumes it. For tasks that delay themselves
  there is no such case (`DelaysAreNotShortened`).
* `task_resume_all`: if a handler moves the node read as `next_node` (822), as the tick
  does when two neighbours are due, the loop goes on along the ready list and takes
  that list's head for a node.
* The mutex that an unlock frees while others still wait lends their priority to
  nobody: the next owner inherits only from tasks that come to wait later.

## 7. Plan

Every part of the kernel that changes state is modelled, and every safety property and
refinement that a passing run checks is proved. What is left is proof beyond the runs:
in `DelayProofs`, a measure that each step of a scan and of a tick's loop decreases
unless it starts again, which is the safety half of `DelayEnds`.

## 8. Not modelled

Ports and examples (hardware and interrupt switches; what `librertos.c` asks of them
is the atomicity of the actions), tests, the getters (single reads), `PERIODIC_BLOCK`
(user code around `get_tick`), the fill patterns of `memset`, `LIBRERTOS_ASSERT` other
than as guards, and the switches that leave parts of the file out.
