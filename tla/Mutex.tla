-------------------------------- MODULE Mutex --------------------------------
(***************************************************************************)
(* Mutexes with priority inheritance (src/src/librertos.c, lines 925-1021  *)
(* and 1192-1369), on top of Kernel: recursive locks by tasks, locks by    *)
(* main and by interrupt handlers, tasks that wait on an event list in the *)
(* order of their priorities, an owner that gets the priority of a task    *)
(* that waits for it, keeps its place by that priority wherever it waits   *)
(* itself, and gets its own priority back at an unlock.                    *)
(*                                                                         *)
(* event_find_priority_position() enables interrupts between two looks at  *)
(* an event list.  It runs with the scheduler locked and no handler calls  *)
(* it, so there is one search at a time.                                   *)
(***************************************************************************)
EXTENDS Kernel

CONSTANTS Mutex,             \* the mutex_t objects
          original_priority, \* task_t.original_priority
          Timed,             \* bound: whether each task waits with a timeout
          Others,            \* bound: the tasks that task_suspend() and
                             \* task_resume() are called for
          MaxCount           \* bound: how often each task locks one mutex

\* The task_t and mutex_t objects of an application are finitely many.
ASSUME MutexAssumption ==
    /\ IsFiniteSet(Task)
    /\ Mutex # {} /\ MaxCount \in [Task -> Nat]
    /\ original_priority \in [Task -> Priority]
    /\ Timed \in [Task -> SUBSET BOOLEAN] /\ Others \subseteq Task

VARIABLES count,      \* mutex_t.count
          task_owner, \* mutex_t.task_owner
          waiting,    \* event_unlock.suspended_tasks of each mutex, in order
          search,     \* event_find_priority_position(), while it compares
          held,       \* history: the locks each caller got and has not undone
          delayed,  \* history: waiting tasks that were on a delayed list
          loan,       \* history: the priority each waiting task lent, and to whom
          woken       \* history: tasks that an unlock of the mutex resumed and
                      \* that have not tried to lock it since, if others wait

mutexVars == <<count, task_owner, waiting, search, held, delayed, loan, woken>>
allVars == <<vars, mutexVars>>

-----------------------------------------------------------------------------
(* search holds                                                              *)
(*   task   the task whose place is looked for, on the event list of event;  *)
(*   pos    the task it is compared with;                                    *)
(*   call   "wait"     event_delay_task() of mutex_suspend(of),              *)
(*          "inherit"  task_set_priority() of the owner in mutex_suspend(of),*)
(*          "unlock"   task_set_priority() of the owner in mutex_unlock(of); *)
(*   timed  mutex_suspend() has a timeout.                                   *)

Caller == Task \cup {NULL}
NoSearch == [task |-> NULL]
SearchRecord == [task : Task, event : Mutex, pos : Task,
                 call : {"wait", "inherit", "unlock"}, of : Mutex,
                 timed : BOOLEAN]
NoLoan == [to |-> NULL, prio |-> 0]

\* The search for t on event, from the first task of the lists evs.
SearchFor(t, event, evs, call, of, timed) ==
    [task |-> t, event |-> event, pos |-> Head(evs[event]), call |-> call,
     of |-> of, timed |-> timed]

Waiting(t) == \E m \in Mutex : Contains(waiting[m], t)
EventOf(t) == CHOOSE m \in Mutex : Contains(waiting[m], t)

-----------------------------------------------------------------------------
\* After librertos_start(): every task is created, ready and has not run.
MutexInit ==
    /\ scheduler_depth = 0
    /\ higher_priority_task_ready = TRUE
    /\ current_task = NULL
    /\ list = [l \in ListId |->
                 IF l \in Priority
                 THEN SetToSeq({t \in Task : original_priority[t] = l})
                 ELSE <<>>]
    /\ priority = original_priority
    /\ running = {}
    /\ stack = <<MainFrame("main", 0)>>
    /\ count = [m \in Mutex |-> 0]
    /\ task_owner = [m \in Mutex |-> NULL]
    /\ waiting = [m \in Mutex |-> <<>>]
    /\ search = NoSearch
    /\ held = [m \in Mutex |-> [c \in Caller |-> 0]]
    /\ delayed = {}
    /\ loan = [t \in Task |-> NoLoan]
    /\ woken = [m \in Mutex |-> {}]

\* Mutant: a caller without a task locks again what another one locked.
CanBeLocked_NullOwner(m) == count[m] = 0 \/ current_task = task_owner[m]

\* mutex_can_be_locked().
CanBeLocked(m) ==
    \/ count[m] = 0
    \/ current_task = task_owner[m] /\ current_task # NULL

\* mutex_lock(), successful or not, by a task, a handler or main.
MutexLock(m) ==
    /\ InUserCode
    /\ woken' = [woken EXCEPT ![m] = @ \ {current_task}]
    /\ \/ /\ CanBeLocked(m)
          /\ current_task # NULL => count[m] < MaxCount[current_task]
          /\ count' = [count EXCEPT ![m] = @ + 1]
          /\ task_owner' = [task_owner EXCEPT ![m] = current_task]
          /\ held' = [held EXCEPT ![m][current_task] = @ + 1]
       \/ /\ ~CanBeLocked(m)
          /\ UNCHANGED <<count, task_owner, held>>
    /\ UNCHANGED <<vars, waiting, search, delayed, loan>>

-----------------------------------------------------------------------------
(* The event list.                                                           *)

\* Mutant: the task stays on the ready list of its old priority.
Requeued_Stays(ls, t, p) == ls

\* task_set_priority(t, p) on the scheduler lists.
Requeued(ls, t, p) ==
    IF Contains(ls[priority[t]], t) THEN FirstOn(ls, t, p) ELSE ls

\* Mutant: the search ends when its position is gone.
EventNext_NoRestart(evs) ==
    IF search.pos \in ToSet(evs) /\ search.pos # Last(evs)
    THEN evs[1 + CHOOSE i \in DOMAIN evs : evs[i] = search.pos] ELSE NULL

\* Where event_find_priority_position() goes on in evs after a comparison.
EventNext(evs) ==
    IF search.pos \notin ToSet(evs) THEN Head(evs \o <<NULL>>)
    ELSE IF search.pos = Last(evs) THEN NULL
    ELSE evs[1 + CHOOSE i \in DOMAIN evs : evs[i] = search.pos]

\* The end of event_add_task_to_event(): the task moves before pos, unless it
\* was resumed or is delayed.
EventMove(pos) ==
    LET t == search.task
        evs == Without(waiting[search.event], t)
        at == IF pos = NULL THEN Len(evs) + 1
              ELSE CHOOSE i \in DOMAIN evs : evs[i] = pos
    IN  IF OnList(t, Suspended)
        THEN [waiting EXCEPT ![search.event] = InsertAt(evs, at, t)]
        ELSE waiting

\* event_delay_task() of mutex_suspend(m): t is suspended and goes to the end
\* of the event list, where the search for its place begins.
StartWait(t, m, timed, ls, evs) ==
    /\ list' = FirstOn(ls, t, Suspended)
    /\ waiting' = [evs EXCEPT ![m] = Append(@, t)]
    /\ search' = SearchFor(t, m, waiting', "wait", m, timed)
    /\ current_task' = t
    /\ woken' = [woken EXCEPT ![m] = @ \ {t}]

\* Mutants: the priority is lent whatever the owner has; the mutex is not
\* looked at again after a lock that failed.
Lends_Always(o, t) == o # NULL
Unavailable_NotChecked(m) == count[m] = 0 \/ task_owner[m] # current_task

\* Mutant: the owner gets more than the waiting task has.
InheritedPriority_Above(t) == priority[t] + 1

\* The priority an owner inherits from t, and the tests of mutex_suspend().
InheritedPriority(t) == priority[t]
Lends(o, t) == o # NULL /\ priority[o] < priority[t]
Unavailable(m) == ~CanBeLocked(m)

\* mutex_suspend(m) by a task that waits for nothing yet: the owner inherits
\* its priority, then it waits itself.
MutexSuspend(m, timed) ==
    LET t == Top.task
        o == task_owner[m]
        lends == Lends(o, t)
        ls == IF lends THEN Requeued(list, o, InheritedPriority(t)) ELSE list
        again == Append(Without(waiting[EventOf(o)], o), o)
    IN  /\ InUserCode /\ Top.kind = "task"
        /\ timed \in Timed[t]
        /\ Unavailable(m) /\ ~Waiting(t)
        /\ scheduler_depth' = scheduler_depth + 1
        /\ stack' = Goto(stack, "event", NULL, 1)
        /\ priority' = IF lends
                       THEN [priority EXCEPT ![o] = InheritedPriority(t)]
                       ELSE priority
        /\ loan' = IF lends
                   THEN [loan EXCEPT ![t] = [to |-> o, prio |-> priority[t]]]
                   ELSE loan
        /\ \/ /\ lends /\ Waiting(o)
              /\ list' = ls
              /\ waiting' = [waiting EXCEPT ![EventOf(o)] = again]
              /\ search' = SearchFor(o, EventOf(o), waiting', "inherit", m, timed)
              /\ current_task' = o
              /\ UNCHANGED woken
           \/ /\ ~(lends /\ Waiting(o))
              /\ StartWait(t, m, timed, ls, waiting)
        /\ UNCHANGED <<higher_priority_task_ready, running, count, task_owner,
                       held, delayed>>

-----------------------------------------------------------------------------
\* Mutant: nobody is resumed.
ReleaseTo_None(m, ls, prio, evs) ==
    /\ task_owner' = [task_owner EXCEPT ![m] = NULL]
    /\ list' = ls /\ waiting' = evs
    /\ UNCHANGED <<higher_priority_task_ready, delayed, woken, loan>>

\* The end of mutex_unlock(m): no owner, and event_resume_task().  Every loan
\* to the owner ends.
ReleaseTo(m, ls, prio, evs) ==
    LET w == Head(evs[m])
    IN  /\ task_owner' = [task_owner EXCEPT ![m] = NULL]
        /\ loan' = [t \in Task |->
                      IF loan[t].to = task_owner[m] \/ (evs[m] # <<>> /\ t = w)
                      THEN NoLoan ELSE loan[t]]
        /\ \/ /\ evs[m] # <<>>
              /\ list' = LastOn(ls, w, prio[w])
              /\ waiting' = [evs EXCEPT ![m] = Tail(@)]
              /\ delayed' = delayed \ {w}
              /\ higher_priority_task_ready' =
                    (higher_priority_task_ready
                       \/ prio[w] > (IF current_task = NULL THEN -1
                                     ELSE prio[current_task]))
              /\ woken' = [woken EXCEPT ![m] = IF waiting'[m] = <<>> THEN {}
                                               ELSE @ \cup {w}]
           \/ /\ evs[m] = <<>>
              /\ list' = ls /\ waiting' = evs
              /\ UNCHANGED <<higher_priority_task_ready, delayed, woken>>

\* Mutant: the owner is forgotten before its priority is looked at.
Restored_Forgotten(o) == FALSE

\* mutex_unlock() gives the owner its original priority back.
Restored(o) == o # NULL /\ priority[o] # original_priority[o]

\* mutex_unlock(m) by its holder; main or any handler for one that main or a
\* handler locked.
\* That only the holder unlocks is how mutexes are to be used: the code asserts
\* no more than that the mutex is locked (line 1274).
MutexUnlock(m) ==
    /\ InUserCode
    /\ count[m] > 0 /\ task_owner[m] = current_task
    /\ count' = [count EXCEPT ![m] = @ - 1]
    /\ held' = [held EXCEPT ![m][current_task] = @ - 1]
    /\ \/ /\ count[m] > 1
          /\ UNCHANGED <<vars, task_owner, waiting, search, delayed, loan,
                         woken>>
       \/ LET o == task_owner[m]
              restored == Restored(o)
              prio == IF restored
                      THEN [priority EXCEPT ![o] = original_priority[o]]
                      ELSE priority
              ls == IF restored THEN Requeued(list, o, original_priority[o])
                                ELSE list
              again == Append(Without(waiting[EventOf(o)], o), o)
          IN  /\ count[m] = 1
              /\ scheduler_depth' = scheduler_depth + 1
              /\ priority' = prio
              /\ \/ /\ restored /\ Waiting(o)
                    /\ list' = ls
                    /\ waiting' = [waiting EXCEPT ![EventOf(o)] = again]
                    /\ search' = SearchFor(o, EventOf(o), waiting', "unlock",
                                           m, FALSE)
                    /\ loan' = [t \in Task |-> IF loan[t].to = o THEN NoLoan
                                                                 ELSE loan[t]]
                    /\ stack' = Goto(stack, "event", NULL, 1)
                    /\ UNCHANGED <<task_owner, higher_priority_task_ready, delayed,
                                   woken>>
                 \/ /\ ~(restored /\ Waiting(o))
                    /\ ReleaseTo(m, ls, prio, waiting)
                    /\ stack' = Goto(stack, "unlock", NULL, 1)
                    /\ UNCHANGED search
              /\ UNCHANGED <<current_task, running>>

-----------------------------------------------------------------------------
\* What follows event_add_task_to_event(), by the call it is in.
EventPlaced(pos) ==
    LET evs == EventMove(pos)
        t == Top.task
    IN  \/ /\ search.call = "wait"
           /\ waiting' = evs
           /\ search' = NoSearch
           /\ list' = IF search.timed THEN FirstOn(list, t, Suspended) ELSE list
           /\ stack' = Goto(stack, IF search.timed THEN "delay" ELSE "unlock",
                            NULL, 0)
           /\ UNCHANGED <<current_task, higher_priority_task_ready, task_owner,
                          delayed, woken, loan>>
        \/ /\ search.call = "inherit"
           /\ StartWait(t, search.of, search.timed, list, evs)
           /\ UNCHANGED <<stack, higher_priority_task_ready, task_owner, delayed,
                          loan>>
        \/ /\ search.call = "unlock"
           /\ ReleaseTo(search.of, list, priority, evs)
           /\ search' = NoSearch
           /\ stack' = Goto(stack, "unlock", NULL, 0)
           /\ UNCHANGED current_task

\* The comparison of event_find_priority_position() and the stretch after it.
EventCompare ==
    LET evs == waiting[search.event]
        found == /\ priority[search.task] > priority[search.pos]
                 /\ search.pos \in ToSet(evs)
        next == EventNext(evs)
    IN  /\ Top.pc = "event"
        /\ \/ found /\ EventPlaced(search.pos)
           \/ ~found /\ next = NULL /\ EventPlaced(NULL)
           \/ /\ ~found /\ next # NULL
              /\ search' = [search EXCEPT !.pos = next]
              /\ UNCHANGED <<current_task, list, stack, waiting, task_owner,
                             higher_priority_task_ready, delayed, woken, loan>>
        /\ UNCHANGED <<scheduler_depth, priority, running, count, held>>

\* The rest of a wait with a timeout, task_delay_now_until(): the task is
\* delayed unless it was resumed meanwhile.  Delay has the order of the list.
DelayInsert ==
    /\ Top.pc = "delay"
    /\ \/ /\ OnList(Top.task, Suspended)
          /\ list' = LastOn(list, Top.task, Delayed0)
          /\ delayed' = IF Waiting(Top.task) THEN delayed \cup {Top.task}
                                               ELSE delayed
       \/ /\ ~OnList(Top.task, Suspended)
          /\ UNCHANGED <<list, delayed>>
    /\ stack' = Goto(stack, "unlock", NULL, 0)
    /\ UNCHANGED <<scheduler_depth, higher_priority_task_ready, current_task,
                   priority, running, count, task_owner, waiting, search, held,
                   loan, woken>>

\* task_resume() by a task, a handler, or the tick that ends a timeout takes
\* the task off its event list too.
ResumeWaiting ==
    /\ ResumeInsert
    /\ waiting' = [m \in Mutex |-> Without(waiting[m], Top.arg)]
    /\ loan' = [loan EXCEPT ![Top.arg] = NoLoan]
    /\ delayed' = delayed \ {Top.arg}
    /\ woken' = [m \in Mutex |-> IF waiting'[m] = <<>> THEN {} ELSE woken[m]]
    /\ UNCHANGED <<count, task_owner, search, held>>

\* task_suspend() of a task that is not looking for its place.
SuspendTask(t) ==
    /\ search.task # t
    /\ TaskSuspend(t)
    /\ UNCHANGED mutexVars

KernelOperation ==
    /\ \/ \E t \in Others : TaskResume(t)
       \/ \E t \in Task : OnList(t, Delayed0) /\ Top.kind = "isr" /\ TaskResume(t)
       \/ \E t \in Task : SchedDispatch(t) \/ TaskReturn(t)
       \/ OperationUnlock \/ SchedNothing \/ TaskReturnLast \/ MainLoop
       \/ InterruptEnter \/ InterruptUnlock \/ InterruptReturn
    /\ UNCHANGED mutexVars

MutexNext ==
    \/ \E m \in Mutex : MutexLock(m) \/ MutexUnlock(m)
    \/ \E m \in Mutex, timed \in BOOLEAN : MutexSuspend(m, timed)
    \/ EventCompare
    \/ DelayInsert
    \/ ResumeWaiting
    \/ \E t \in Others : SuspendTask(t)
    \/ KernelOperation

MutexSpec == MutexInit /\ [][MutexNext]_allVars

-----------------------------------------------------------------------------
(* Properties.                                                               *)

\* The types of the variables.
MutexTypeOK ==
    /\ scheduler_depth \in Nat
    /\ list \in [ListId -> Seq(Task)]
    /\ priority \in [Task -> Priority]
    /\ count \in [Mutex -> Nat]
    /\ task_owner \in [Mutex -> Caller]
    /\ waiting \in [Mutex -> Seq(Task)]
    /\ search \in SearchRecord \cup {NoSearch}
    /\ search # NoSearch <=> \E i \in DOMAIN stack : stack[i].pc = "event"

\* Whoever got a lock has it alone until it undoes it (lines 1212-1238): one
\* task as often as it locked, or one caller without a task, once.
MutualExclusion ==
    \A m \in Mutex :
        /\ held[m][NULL] <= 1
        /\ \A c, d \in Caller : held[m][c] > 0 /\ held[m][d] > 0 => c = d

\* A task that waits has lent its priority to the owner (lines 1336-1343): the
\* owner does not fall below it while the task waits, whoever else comes to
\* wait or leaves, until the owner unlocks a mutex.
LoanHonoured ==
    \A t \in Task : loan[t].to # NULL => priority[loan[t].to] >= loan[t].prio

\* A priority that was lent is given back (lines 1292-1294): a task that
\* holds no mutex has its own priority.
PriorityRestored ==
    \A t \in Task :
        (\A m \in Mutex : held[m][t] = 0) => priority[t] = original_priority[t]

\* An event list is sorted by the priorities the waiting tasks have now, also
\* those that inherited or gave back one while they waited (lines 1253-1265),
\* but for the one looking for its place and those waiting with a timeout,
\* which event_add_task_to_event() leaves at the end of the list (985).
MutexWaitersSorted ==
    \A m \in Mutex : \A i, j \in DOMAIN waiting[m] :
        LET t == waiting[m][i]
            u == waiting[m][j]
        IN  i < j /\ {t, u} \cap (delayed \cup {search.task}) = {}
               => priority[t] >= priority[u]

\* No unlock is lost (lines 1282-1299, 1330): while tasks wait for a mutex
\* that is free, one that an unlock resumed has yet to try again.
NoLostMutexUnlock ==
    \A m \in Mutex :
        /\ waiting[m] # <<>> /\ count[m] = 0
        /\ search = NoSearch \/ search.call # "unlock" \/ search.of # m
        => \E t \in woken[m] : ~Contains(waiting[m], t)
=============================================================================
