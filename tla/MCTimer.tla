------------------------------- MODULE MCTimer -------------------------------
(* Timer for TLC: tasks are 1, 2, ..., a higher number is a higher priority; *)
(* timer t has the period Period(t).                                         *)
EXTENDS Timer

TaskIsPriority == [t \in Task |-> t]
Periods == [t \in Timers |-> IF t \in AutoReset THEN 2 ELSE TickMod - 1]

\* delay_until is only ever read of tasks on a delayed list.
View == <<tick, current, suspended, list, stack, sleep, timerVars,
          [t \in Sleeping |-> delay_until[t]]>>
=============================================================================
