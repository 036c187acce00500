------------------------------- MODULE MCDelay -------------------------------
(* Delay for TLC: tasks are 1, 2, ..., a higher number is a higher priority. *)
EXTENDS Delay

TaskIsPriority == [t \in Task |-> t]

(* What DelayEnds is about.  A state without its histories, and without the  *)
(* delay_until of tasks on no delayed list, has the same steps, as no guard, *)
(* no fairness condition and no part of DelayEnds reads those.               *)
NoHistory(f) == [f EXCEPT !.left = 0, !.wrapped = FALSE]
LiveView == <<tick, current, suspended, list,
              [i \in DOMAIN stack |-> NoHistory(stack[i])],
              [t \in Sleeping |-> delay_until[t]]>>
=============================================================================
