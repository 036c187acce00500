------------------------- MODULE PriorityScheduler -------------------------
(***************************************************************************)
(* What the scheduler promises, without lists, locks, interrupts or a call *)
(* stack: which tasks are ready, which have been called and not returned   *)
(* (active), and when a task may be called or return.                      *)
(*                                                                         *)
(* Documented in doc/Project-Setup.md:67-72 and in the comments of         *)
(* librertos_sched() and get_higher_priority_task().                       *)
(***************************************************************************)
EXTENDS Integers

CONSTANTS Task, NUM_PRIORITIES, Preemptive

VARIABLES ready, active, priority

vars == <<ready, active, priority>>

Init ==
    /\ ready = {}
    /\ active = {}
    /\ priority = [t \in Task |-> 0]

\* A task that is neither ready nor active is given a priority.
Configure(t, p) ==
    /\ t \notin ready \cup active
    /\ priority' = [priority EXCEPT ![t] = p]
    /\ UNCHANGED <<ready, active>>

Wake(t) ==
    /\ ready' = ready \cup {t}
    /\ UNCHANGED <<active, priority>>

Block(t) ==
    /\ ready' = ready \ {t}
    /\ UNCHANGED <<active, priority>>

\* With the tasks of act active, t may be called: it is ready, it preempts
\* only tasks of lower priority (none at all in a cooperative kernel), and no
\* ready task that waits to be called has a higher priority.
MayStart(t, act) ==
    /\ t \in ready \ act
    /\ \A u \in act : Preemptive /\ priority[u] < priority[t]
    /\ \A u \in ready \ act : priority[u] <= priority[t]

\* Tasks return in the reverse order of their calls.
MayReturn(t) ==
    /\ t \in active
    /\ \A u \in active \ {t} : priority[u] < priority[t]

Start(t) ==
    /\ MayStart(t, active)
    /\ active' = active \cup {t}
    /\ UNCHANGED <<ready, priority>>

\* A task returns and nothing is left to call above the task it preempted.
Return(t) ==
    /\ MayReturn(t)
    /\ active' = active \ {t}
    /\ \A u \in ready \ active' :
          \E v \in active' : priority[u] <= priority[v]
    /\ UNCHANGED <<ready, priority>>

\* A task returns and the scheduler calls another one.
ReturnAndStart(t, u) ==
    /\ MayReturn(t)
    /\ MayStart(u, active \ {t})
    /\ active' = (active \ {t}) \cup {u}
    /\ UNCHANGED <<ready, priority>>

Next ==
    \/ \E t \in Task, p \in 0 .. NUM_PRIORITIES - 1 : Configure(t, p)
    \/ \E t \in Task : Wake(t) \/ Block(t) \/ Start(t) \/ Return(t)
    \/ \E t, u \in Task : ReturnAndStart(t, u)

Spec == Init /\ [][Next]_vars
=============================================================================
