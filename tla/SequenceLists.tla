---------------------------- MODULE SequenceLists ----------------------------
(* What the scheduler's lists promise: each is a sequence of tasks.  A task  *)
(* is created at the end of the ready list, and goes from the list it is on  *)
(* to the end of the ready list, to the front of the suspended list, or to   *)
(* any place of a list of delayed tasks.                                     *)
EXTENDS TaskLists

VARIABLE lists

Listed(t) == \E l \in DOMAIN lists : Contains(lists[l], t)
Removed(t) == [l \in DOMAIN lists |-> Without(lists[l], t)]

Create(t) == ~Listed(t) /\ lists' = [lists EXCEPT !["ready"] = Append(@, t)]
Resume(t) == Listed(t) /\ lists' = [Removed(t) EXCEPT !["ready"] = Append(@, t)]
Suspend(t) == Listed(t) /\ lists' = [Removed(t) EXCEPT !["suspended"] = <<t>> \o @]
Delay(t) ==
    /\ Listed(t)
    /\ \E l \in {"delayed0", "delayed1"} : \E i \in 1 .. Len(Removed(t)[l]) + 1 :
          lists' = [Removed(t) EXCEPT ![l] = InsertAt(@, i, t)]

Init == lists = [l \in {"ready", "suspended", "delayed0", "delayed1"} |-> <<>>]
Next == \E t \in Task : Create(t) \/ Resume(t) \/ Suspend(t) \/ Delay(t)
Spec == Init /\ [][Next]_lists
=============================================================================
