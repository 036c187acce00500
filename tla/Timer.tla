-------------------------------- MODULE Timer --------------------------------
(***************************************************************************)
(* Software timers (src/src/librertos.c, lines 615-810) on top of Delay: a *)
(* timer is a task that delays itself, or is delayed by whoever resets it, *)
(* and that runs its function each time the delay is over.                 *)
(*                                                                         *)
(* timer_start(), timer_reset() and timer_stop() come from tasks and from  *)
(* interrupt handlers, also in the middle of one another, of a task_delay  *)
(* and of the tick interrupt.  timer_reset() delays the timer in the name  *)
(* of its caller: it is a frame of its own on the stack, and several may   *)
(* be nested, even for the same timer.                                     *)
(***************************************************************************)
EXTENDS Delay

CONSTANTS AutoReset,   \* the timers of type TIMERTYPE_AUTO
          OneShot,     \* the timers of type TIMERTYPE_ONESHOT
          period,      \* timer_task_t.period
          ResetInScan, \* handlers may reset a timer during a scan, and one that
                       \* a tick handler is about to resume
          MaxResets    \* bound: calls of timer_reset() on the stack

Timers == AutoReset \cup OneShot

ASSUME TimerAssumption ==
    /\ Timers \subseteq Task /\ AutoReset \cap OneShot = {}
    /\ IsFiniteSet(AutoReset)
    /\ period \in [Timers -> Tick] /\ \A t \in AutoReset : period[t] > 0
    /\ ResetInScan \in BOOLEAN /\ MaxResets \in Nat

VARIABLES armed,   \* history: one-shot timers started or reset since their
                   \* function last began
          stopped, \* history: auto timers suspended by timer_stop(), and not
                   \* resumed or delayed since
          quiet    \* history: timers stopped when nobody was about to start
                   \* them again, and not started or reset since

timerVars == <<armed, stopped, quiet>>
allVars == <<vars, timerVars>>

\* A step that is no start, reset or stop of a timer, and no begin of its
\* function: a timer that is resumed or delayed is no longer stopped.
KeepsHistory ==
    /\ stopped' = stopped \cap suspended'
    /\ UNCHANGED <<armed, quiet>>

-----------------------------------------------------------------------------
\* timer_reset() or librertos_timer_next_state() of t between the get_tick()
\* of its task_delay(), at tick now, and task_delay_now_until().
ResetFrame(t, now) ==
    [TaskFrame(t) EXCEPT !.pc = "reset", !.timer = TRUE, !.now = now,
                         !.wakeup = (now + period[t]) % TickMod,
                         !.left = period[t]]

\* librertos_create_timer() of every timer: one-shot timers are stopped, auto
\* timers are about to be delayed by librertos_timer_next_state().
TimerInit ==
    /\ tick = 0
    /\ current = 0
    /\ suspended = OneShot
    /\ list = [l \in Delayed |-> <<>>]
    /\ delay_until = [t \in Task |-> 0]
    /\ stack = [i \in 1 .. Cardinality(AutoReset) |->
                   ResetFrame(SetToSeq(AutoReset)[i], 0)]
    /\ sleep = [t \in Task |-> NoSleep]
    /\ armed = {}
    /\ stopped = {}
    /\ quiet = OneShot

\* Frames that go on to resume or to delay t, whatever is done to it meanwhile.
LookAt(f, t) == f.task = t /\ (f.timer \/ InHandler(f))
LooksAt(t) == \E i \in DOMAIN stack : LookAt(stack[i], t)

\* A stop of t is undone: by a tick handler that found t due and resumes it
\* (lines 371-372), by a reset of t that goes on to delay it (773-779), or, of
\* an auto timer, by the end of its function (645-648).
AboutToStart(t) ==
    \/ LooksAt(t)
    \/ t \in AutoReset /\ \E i \in DOMAIN stack : stack[i].task = t

\* timer_reset(t) up to the get_tick() of its task_delay(): the timer is
\* resumed.  What an interrupt between task_resume() and get_tick() does, it
\* may as well do before.
TimerReset(t) ==
    /\ Cardinality({i \in DOMAIN stack : stack[i].timer}) < MaxResets
    /\ ResetInScan \/ \A i \in DOMAIN stack :
                         /\ stack[i].pc # "scan"
                         /\ InHandler(stack[i]) => stack[i].task # t
    /\ Resume(t)
    /\ stack' = Append(stack, ResetFrame(t, tick))
    /\ armed' = armed \cup ({t} \cap OneShot)
    /\ stopped' = stopped \ {t}
    /\ quiet' = quiet \ {t}

\* timer_start(t): of a stopped timer, a reset.  That handlers may come in
\* between adds nothing, as any timer may be reset at any moment.
TimerStart(t) ==
    /\ t \in suspended
    /\ TimerReset(t)

\* The task_delay_now_until() of the timer, up to the first comparison.
TimerDelay ==
    /\ Executes("reset")
    /\ DelayUntil(Top)
    /\ KeepsHistory

\* Mutant: only a timer whose time still runs is stopped.
Stoppable_Delayed(t) == t \in Sleeping

\* !timer_is_stopped().
Stoppable(t) == t \notin suspended

\* timer_stop(t).
TimerStop(t) ==
    /\ \/ Stoppable(t) /\ TaskSuspend(t)
       \/ ~Stoppable(t) /\ UNCHANGED vars
    /\ stopped' = (stopped \cup {t}) \cap AutoReset
    /\ quiet' = IF AboutToStart(t) THEN quiet ELSE quiet \cup {t}
    /\ UNCHANGED armed

-----------------------------------------------------------------------------
(* The timer's task.                                                         *)

\* The scheduler calls t; of a timer, the timer's function begins.
CallTask(t) ==
    /\ TaskStart(t)
    /\ armed' = armed \ {t}
    /\ UNCHANGED <<stopped, quiet>>

\* Mutant: the two types are exchanged.
Restarts_Swapped(t) == t \in OneShot

\* The type of a timer that goes on by itself.
Restarts(t) == t \in AutoReset

\* Mutant: the test of timer_is_reset() is the wrong way round.
KeepsRunning_Inverted(t) == t \notin Sleeping

\* timer_is_reset(), of a one-shot timer.
KeepsRunning(t) == t \in Sleeping

\* The timer's function returned: librertos_timer_next_state() up to the next
\* stretch with interrupts enabled.
TimerNextState ==
    LET t == Top.task
    IN  /\ Executes("run") /\ t \in Timers
        /\ \/ /\ Restarts(t)
              /\ Resume(t)
              /\ stack' = Replace(ResetFrame(t, tick))
           \/ /\ ~Restarts(t)
              /\ stack' = IF KeepsRunning(t) THEN Front(stack)
                          ELSE Replace([TaskFrame(t) EXCEPT !.pc = "stop"])
              /\ UNCHANGED <<tick, current, suspended, list, delay_until, sleep>>
        /\ KeepsHistory

\* A one-shot timer that was not reset suspends itself.
OneShotStop ==
    /\ Executes("stop")
    /\ suspended' = suspended \cup {Top.task}
    /\ list' = Unlisted(Top.task)
    /\ sleep' = Awake(Top.task)
    /\ stack' = Front(stack)
    /\ UNCHANGED <<tick, current, delay_until>>
    /\ KeepsHistory

\* What other tasks do, and the time.  That tasks suspend one another is in
\* Delay; here timer_stop() does it.
OtherTask ==
    /\ \/ \E t \in Task \ Timers : TaskResume(t)
       \/ /\ Executes("run") /\ Top.task \notin Timers
          /\ TaskReturn \/ \E d \in Delays : ReadTick(d)
       \/ TaskDelay
    /\ KeepsHistory

Time ==
    /\ ScanCompare \/ TickInterrupt \/ TickResume \/ TickLoop
    /\ KeepsHistory

TimerNext ==
    \/ \E t \in Timers : TimerReset(t) \/ TimerStart(t) \/ TimerStop(t)
    \/ TimerDelay
    \/ \E t \in Task : CallTask(t)
    \/ TimerNextState
    \/ OneShotStop
    \/ OtherTask
    \/ Time

TimerSpec == TimerInit /\ [][TimerNext]_allVars

-----------------------------------------------------------------------------
(* Properties.                                                               *)

\* The function of t begins.
Begins(t) == stack' = Append(stack, TaskFrame(t))

\* "An one-shot timer is created stopped and runs only once unless it is
\* reset or started again" (lines 695-696): between two runs of its function
\* there is a start or a reset.
OneShotRunsOnce ==
    [][\A t \in OneShot \ armed : ~Begins(t)]_allVars

\* "making the timer to never expire and never execute" (line 791): when a
\* timer is stopped, its function does not begin until the timer is started or
\* reset, however searches, ticks and resets of other timers are under way.
\* Not said of a stop that comes above a tick handler that has found the timer
\* due, in the middle of a reset of it, or, of an auto timer, while its
\* function runs: the code undoes these, and quiet does not have them.
StoppedNeverRuns ==
    [][\A t \in quiet : ~Begins(t)]_allVars

\* "An auto-reset timer continues to run, unless it was already delayed (timer
\* reset/started) or suspended (timer stopped)" (lines 632-633): however its
\* resets are nested in one another and in its own, a timer that was not
\* stopped is suspended only for the moment in which it is being delayed.
AutoContinues ==
    \A t \in AutoReset \ stopped :
        t \in suspended => \E i \in DOMAIN stack : stack[i].task = t

\* A resume is not lost (line 531): a ready task or timer, even one that is
\* being delayed, is put to sleep again only by a later call.
ResumeKept ==
    [][\A t \in Ready :
          t \notin Ready' =>
             \/ TimerStop(t)
             \/ Top.task = t /\ (TaskDelay \/ TimerDelay \/ OneShotStop)]_allVars
=============================================================================
