--------------------------- MODULE SemaphoreProofs ---------------------------
(***************************************************************************)
(* Proofs about Semaphore, and about QueueWait, whose event list is used   *)
(* as a semaphore's: waits with and without a timeout.                     *)
(*                                                                         *)
(* The lists of Delay keep their invariant, ListInv, whatever waits and    *)
(* unlocks do.  WaitInv adds the event list: its tasks are asleep, and a   *)
(* search of event_find_priority_position() has only passed tasks of at    *)
(* least its own priority, however many leave meanwhile (SearchInv).       *)
(***************************************************************************)
EXTENDS QueueWait, DelayProofs, FiniteSetTheorems

-----------------------------------------------------------------------------
(* The invariant.                                                            *)

SemTypes ==
    /\ count \in 0 .. max
    /\ waiting \in Seq(Task) /\ Injective(waiting)
    /\ woken \subseteq Task /\ IsFiniteSet(woken)

\* The tasks that do not run.
Asleep(t) == t \in suspended \/ Listed(list, t)

AsleepInv == \A t \in Task : Contains(waiting, t) => Asleep(t)

\* The task of a search is on no delayed list, and the tasks it has passed
\* are of at least its priority.
Searched(f, ls, w) ==
    f.pc = "event" =>
        /\ ~Listed(ls, f.task)
        /\ \A u \in Task : u # f.task /\ Before(w, u, f.pos)
                             => Priority[u] >= Priority[f.task]

\* Nobody is looking for a place for t.
Seated(s, t) == \A i \in 1 .. Len(s) : s[i].pc = "event" => s[i].task # t

SearchInv ==
    /\ \A i \in 1 .. Len(stack) : Searched(stack[i], list, waiting)
    /\ \A t, u \in Task :
          Before(waiting, t, u) /\ Seated(stack, t) /\ Seated(stack, u)
             => Priority[t] >= Priority[u]

\* As many tasks as the semaphore can be locked times have been woken, and do
\* not wait again.
WokenInv == waiting # <<>> => count <= Cardinality(woken \ ToSet(waiting))

WaitInv == DelayInv /\ SemTypes /\ AsleepInv /\ SearchInv /\ WokenInv

-----------------------------------------------------------------------------
(* The lists of Delay.                                                       *)

LEMMA TypesAre ==
    ASSUME SemTypes
    PROVE  /\ count \in Nat /\ waiting \in Seq(Task) /\ Injective(waiting)
           /\ \A t \in Task : Contains(waiting, t) <=> t \in ToSet(waiting)
BY CountAssumption DEF SemTypes, Contains, ToSet

\* The frame of a task that begins to wait, last on the event list.
LEMMA WaitBegins ==
    ASSUME DelayInv, SemTypes, NEW ticks \in Timeouts, SemaphoreSuspend(ticks)
    PROVE  LET f == [Top EXCEPT !.pc = "event", !.ticks = ticks, !.pos = Head(waiting')]
           IN  /\ stack # <<>> /\ ~InHandler(Top) /\ Top.pc = "run" /\ Top.task \in Task
               /\ f \in Frame /\ FrameOK(f) /\ f.pc = "event" /\ f.task = Top.task
               /\ f.ticks = ticks /\ f.pos = Head(waiting') /\ stack' = Append(Front(stack), f)
               /\ ~Contains(waiting, Top.task) /\ waiting' = Append(waiting, Top.task)
               /\ waiting' \in Seq(Task) /\ Injective(waiting') /\ waiting' # <<>>
<1> DEFINE p == Head(waiting')
           f == [Top EXCEPT !.pc = "event", !.ticks = ticks, !.pos = p]
<1>1. /\ stack # <<>> /\ Top.pc = "run" /\ stack' = Append(Front(stack), f)
      /\ ~Contains(waiting, Top.task) /\ waiting' = Append(waiting, Top.task)
  BY DEF SemaphoreSuspend, Executes, Replace
<1>2. Top \in Frame /\ FrameOK(Top)
  BY <1>1, StackIs DEF DelayInv
<1>3. ~InHandler(Top) /\ Top.task \in Task
  BY <1>1, <1>2 DEF FrameOK, InHandler
<1>4. waiting \in Seq(Task) /\ Injective(waiting)
  BY TypesAre
<1>5. ~\E i \in 1 .. Len(waiting) : waiting[i] = Top.task
  BY <1>1, <1>4 DEF Contains
<1>6. waiting' \in Seq(Task) /\ Injective(waiting')
  BY <1>1, <1>3, <1>4, <1>5, AppendAdds
<1>7. waiting' # <<>> /\ p \in Task
  BY <1>1, <1>3, <1>4, <1>6
<1>8. ticks \in Tick
  BY TimeoutAssumption
<1> HIDE DEF p
<1>9. /\ f \in Frame /\ f.pc = "event" /\ f.task = Top.task
      /\ f.ticks = ticks /\ f.pos = p /\ f.timer = Top.timer
  BY <1>2, <1>7, <1>8 DEF Frame, PC
<1> HIDE DEF f
<1>10. FrameOK(f)
  BY <1>3, <1>7, <1>9 DEF FrameOK, InHandler
<1> QED BY <1>1, <1>3, <1>6, <1>7, <1>9, <1>10 DEF f, p

LEMMA WaitListInv ==
    ASSUME DelayInv, SemTypes, NEW ticks \in Timeouts, SemaphoreSuspend(ticks)
    PROVE  DelayInv'
<1> DEFINE t == Top.task
           f == [Top EXCEPT !.pc = "event", !.ticks = ticks, !.pos = Head(waiting')]
<1>1. /\ stack # <<>> /\ ~InHandler(Top) /\ t \in Task
      /\ f \in Frame /\ FrameOK(f) /\ f.pc = "event"
      /\ stack' = Append(Front(stack), f)
  BY WaitBegins
<1> HIDE DEF f
<1>2. /\ stack \in Seq(Frame) /\ Nested(stack, Locks) /\ ~InHandler(Last(stack))
  BY <1>1, StackIs DEF DelayInv
<1>3. stack' \in Seq(Frame) /\ Nested(stack', Locks) /\ FromFrames(stack', stack, f)
  BY <1>1, <1>2, ReplaceIs
<1>4. /\ suspended' = suspended \cup {t} /\ list' = Unlisted(t) /\ sleep' = Awake(t)
      /\ UNCHANGED <<tick, current, delay_until>>
  BY DEF SemaphoreSuspend
<1> QED BY <1>1, <1>3, <1>4, TaskLeaves DEF DelayInv

\* event_resume_task() is a task_resume(), or nothing.
LEMMA UnlockIs ==
    ASSUME SemTypes, SemaphoreUnlock
    PROVE  /\ count < max /\ count' = count + 1 /\ UNCHANGED stack
           /\ \/ /\ waiting # <<>> /\ Head(waiting) \in Task /\ TaskResume(Head(waiting))
                 /\ waiting' = Tail(waiting) /\ woken' = woken \cup {Head(waiting)}
              \/ waiting = <<>> /\ UNCHANGED <<vars, waiting, woken>>
<1>1. waiting # <<>> => Head(waiting) \in Task
  BY TypesAre
<1> QED BY <1>1 DEF SemaphoreUnlock, EventResume, TaskResume, vars

LEMMA UnlockListInv ==
    ASSUME DelayInv, SemTypes, SemaphoreUnlock
    PROVE  DelayInv'
<1>1. CASE waiting # <<>>
  BY <1>1, UnlockIs, ResumeKeeps DEF DelayInv
<1>2. CASE UNCHANGED vars
  BY <1>2 DEF vars, DelayInv, ListInv, DTypes
<1> QED BY <1>1, <1>2, UnlockIs

-----------------------------------------------------------------------------
(* task_delay_now_until(), for who is asleep and for the searches.           *)

\* No search of event_find_priority_position() goes on.
NoSearch(s) == \A i \in 1 .. Len(s) : s[i].pc # "event"

\* Above it only handlers are, so a search that executes is the only one.
LEMMA LastSearch ==
    ASSUME NEW s, NEW n \in Nat, \A i \in 1 .. n - 1 : s[i].pc # "event"
    PROVE  \A i \in 1 .. n : s[i].pc = "event" => i = n
<1>1. \A i \in 1 .. n : i = n \/ i \in 1 .. n - 1
  OBVIOUS
<1> QED BY <1>1

LEMMA InsertAsleep ==
    ASSUME NEW f, f.task \in Task, f.list \in Delayed, NEW lists \in Lists, OneOn(lists),
           NEW asleep, NEW pos, ~Listed(lists, f.task),
           pos = NULL \/ Contains(lists[f.list], pos),
           Insert(f, lists, asleep, pos), NEW u \in Task,
           u \in asleep \/ Listed(lists, u)
    PROVE  Asleep(u)'
<1> DEFINE l == f.list
           r == InsertBefore(lists[l], pos, f.task)
<1>1. /\ suspended' = asleep \ {f.task}
      /\ \/ f.task \in asleep /\ list' = [lists EXCEPT ![l] = r]
         \/ f.task \notin asleep /\ list' = lists
  BY DEF Insert
<1>2. /\ lists[l] \in Seq(Task) /\ Injective(lists[l]) /\ ~Contains(lists[l], f.task)
  BY DEF Lists, OneOn, Listed
<1>3. \A v \in Task : Contains(r, v) <=> v = f.task \/ Contains(lists[l], v)
  BY <1>2, InsertBeforeIs
<1> HIDE DEF r
<1>4. CASE u # f.task /\ u \in asleep
  BY <1>1, <1>4 DEF Asleep
<1>5. CASE Listed(lists, u)
  <2>1. PICK k \in Delayed : Contains(lists[k], u)
    BY <1>5 DEF Listed
  <2>2. Contains(list'[k], u)
    BY <1>1, <1>3, <2>1 DEF Lists
  <2> QED BY <2>2 DEF Asleep, Listed
<1>6. CASE u = f.task /\ u \in asleep
  <2>1. Contains(list'[l], u)
    BY <1>1, <1>3, <1>6 DEF Lists
  <2> QED BY <2>1 DEF Asleep, Listed
<1> QED BY <1>4, <1>5, <1>6

LEMMA ScanAtAsleep ==
    ASSUME NEW f, f.task \in Task, f.list \in Delayed, NEW lists \in Lists, OneOn(lists),
           NEW asleep, NEW pos, ~Listed(lists, f.task),
           ScanAt(f, lists, asleep, pos), NEW u \in Task,
           u \in asleep \/ Listed(lists, u)
    PROVE  Asleep(u)'
<1>1. CASE suspended' = asleep /\ list' = lists
  BY <1>1 DEF Asleep
<1>2. CASE Insert(f, lists, asleep, NULL)
  BY <1>2, InsertAsleep
<1> QED BY <1>1, <1>2 DEF ScanAt

\* The frame that executes is no search any more, and there is no other.
LEMMA NoSearchBelow ==
    ASSUME DelayInv, stack # <<>>, ~InHandler(Top)
    PROVE  NoSearch(Front(stack))
<1>1. /\ stack \in Seq(Frame) /\ Nested(stack, Locks)
      /\ \A i \in 1 .. Len(stack) - 1 : stack[i].pc \notin Locks
  BY StackIs, NothingBelow DEF DelayInv
<1>2. /\ Len(Front(stack)) = Len(stack) - 1
      /\ \A i \in 1 .. Len(stack) - 1 : Front(stack)[i] = stack[i]
  BY <1>1, PopIs
<1> QED BY <1>1, <1>2 DEF Locks, Searches, NoSearch

LEMMA SearchReplaced ==
    ASSUME DelayInv, stack # <<>>, ~InHandler(Top), NEW g \in Frame, g.pc # "event",
           stack' = Append(Front(stack), g)
    PROVE  NoSearch(stack')
<1>1. Front(stack) \in Seq(Frame) /\ Nested(Front(stack), {})
  BY StackIs, PopIs DEF DelayInv, Nested
<1>2. /\ Len(stack') = Len(Front(stack)) + 1 /\ stack'[Len(Front(stack)) + 1] = g
      /\ \A i \in 1 .. Len(Front(stack)) : stack'[i] = Front(stack)[i]
  BY <1>1, PushIs
<1>3. Len(Front(stack)) \in Nat
  BY <1>1
<1> QED BY <1>2, <1>3, NoSearchBelow DEF NoSearch

LEMMA ReturnNoSearch ==
    ASSUME DelayInv, stack # <<>>, ~InHandler(Top), NEW f, f.task \in Task,
           stack' = DelayReturn(f)
    PROVE  NoSearch(stack')
<1>1. TaskFrame(f.task) \in Frame /\ TaskFrame(f.task).pc # "event"
  BY FrameTypes
<1>2. stack' = Front(stack) \/ stack' = Append(Front(stack), TaskFrame(f.task))
  BY DEF DelayReturn, Replace
<1> HIDE DEF TaskFrame
<1> QED BY <1>1, <1>2, NoSearchBelow, SearchReplaced

LEMMA ScanAtNoSearch ==
    ASSUME DelayInv, stack # <<>>, ~InHandler(Top),
           NEW f \in Frame, f.task \in Task, NEW lists, NEW asleep,
           NEW pos \in Task \cup {NULL}, ScanAt(f, lists, asleep, pos)
    PROVE  NoSearch(stack')
<1>1. CASE stack' = DelayReturn(f)
  BY <1>1, ReturnNoSearch
<1>2. CASE pos # NULL
  <2> DEFINE g == [f EXCEPT !.pc = "scan", !.pos = pos, !.pos_tick = delay_until[pos]]
  <2>1. delay_until[pos] \in Tick
    BY <1>2 DEF DelayInv, ListInv, DTypes
  <2>2. g \in Frame /\ g.pc = "scan"
    BY <2>1 DEF Frame, PC
  <2>3. stack' = Append(Front(stack), g)
    BY <1>2 DEF ScanAt, Replace
  <2> HIDE DEF g
  <2> QED BY <2>2, <2>3, SearchReplaced
<1> QED BY <1>1, <1>2 DEF ScanAt, Insert

\* Nobody awakes who does not, and the task is asleep then.
LEMMA DelayUntilWaits ==
    ASSUME DelayInv, stack # <<>>, ~InHandler(Top), NEW f \in Frame, f.task \in Task,
           DelayUntil(f)
    PROVE  /\ NoSearch(stack')
           /\ \A u \in Task : Asleep(u) => Asleep(u)'
<1> DEFINE l == DelayList(f.now, f.wakeup)
           lists == Unlisted(f.task)
           pos == First(lists[l])
           g == [f EXCEPT !.list = l]
           asleep == suspended \cup {f.task}
<1>1. ScanAt(g, lists, asleep, pos)
  BY DEF DelayUntil
<1>2. l \in Delayed /\ list \in Lists /\ OneOn(list)
  BY DEF DelayInv, ListInv, DTypes, DelayList, overflow, Delayed
<1>3. /\ lists \in Lists /\ OneOn(lists) /\ ~Listed(lists, f.task)
      /\ \A u \in Task : u # f.task => (Listed(lists, u) <=> Listed(list, u))
  BY <1>2, UnlistedIs
<1>4. lists[l] \in Seq(Task) /\ Injective(lists[l])
  BY <1>2, <1>3 DEF Lists, OneOn
<1>5. pos \in Task \cup {NULL}
  BY <1>4, FirstIs
<1>6. g \in Frame /\ g.task = f.task /\ g.list = l
  BY <1>2 DEF Frame
<1> HIDE DEF l, lists, pos, g
<1>7. NoSearch(stack')
  BY <1>1, <1>5, <1>6, ScanAtNoSearch
<1>8. ASSUME NEW u \in Task, Asleep(u) PROVE Asleep(u)'
  <2>1. u \in asleep \/ Listed(lists, u)
    BY <1>3, <1>8 DEF Asleep
  <2>2. g.task \in Task /\ g.list \in Delayed /\ ~Listed(lists, g.task)
    BY <1>2, <1>3, <1>6
  <2> HIDE DEF asleep
  <2> QED BY <1>1, <1>3, <2>1, <2>2, ScanAtAsleep
<1> QED BY <1>7, <1>8

\* A scan goes on, and nobody searches meanwhile.
LEMMA ScanCompareWaits ==
    ASSUME DelayInv, ScanCompare
    PROVE  /\ NoSearch(stack) /\ NoSearch(stack')
           /\ \A u \in Task : Asleep(u) => Asleep(u)'
<1>1. stack # <<>> /\ Top.pc = "scan"
  BY DEF ScanCompare, Executes
<1>2. /\ stack \in Seq(Frame) /\ Top \in Frame /\ FrameOK(Top) /\ Scanned(Top, list, delay_until)
      /\ Top = stack[Len(stack)] /\ Len(stack) \in Nat
  BY <1>1, StackIs DEF DelayInv
<1>3. ~InHandler(Top) /\ Top.task \in Task /\ Top.pos \in Task /\ ~Listed(list, Top.task)
      /\ Top.list \in Delayed
  BY <1>1, <1>2 DEF FrameOK, InHandler, Scanned, Frame
<1>4. NoSearch(stack)
  <2>1. \A i \in 1 .. Len(stack) - 1 : stack[i].pc \notin Locks
    BY <1>1, <1>3, StackIs, NothingBelow DEF DelayInv
  <2> QED BY <1>1, <1>2, <2>1 DEF NoSearch, Locks, Searches
<1>5. /\ list \in Lists /\ OneOn(list)
      /\ \A l \in Delayed : \A t : OnList(t, l) <=> Contains(list[l], t)
  BY OnListIs DEF DelayInv, ListInv, DTypes
<1>6. list[Top.list] \in Seq(Task) /\ Injective(list[Top.list])
  BY <1>3, <1>5 DEF Lists, OneOn
<1>7. CASE /\ Contains(list[Top.list], Top.pos)
           /\ Insert(Top, list, suspended, Top.pos)
  <2>1. NoSearch(stack')
    BY <1>1, <1>3, <1>7, ReturnNoSearch DEF Insert
  <2>2. ASSUME NEW u \in Task, Asleep(u) PROVE Asleep(u)'
    BY <1>3, <1>5, <1>7, <2>2, InsertAsleep DEF Asleep
  <2> QED BY <1>4, <2>1, <2>2
<1>8. CASE ScanAt(Top, list, suspended, ScanNext(Top))
  <2>1. ScanNext(Top) \in Task \cup {NULL}
    BY <1>3, <1>5, <1>6, FirstIs, SuccessorIs DEF ScanNext
  <2>2. NoSearch(stack')
    BY <1>1, <1>2, <1>3, <1>8, <2>1, ScanAtNoSearch
  <2>3. ASSUME NEW u \in Task, Asleep(u) PROVE Asleep(u)'
    BY <1>3, <1>5, <1>8, <2>3, ScanAtAsleep DEF Asleep
  <2> QED BY <1>4, <2>2, <2>3
<1> QED BY <1>3, <1>5, <1>7, <1>8 DEF ScanCompare

-----------------------------------------------------------------------------
(* event_find_priority_position().                                           *)

\* Where the search goes on, and what it has passed then.
LEMMA EventNextIs ==
    ASSUME SemTypes, NEW pos
    PROVE  LET passed(t) == Contains(waiting, pos) /\ (t = pos \/ Before(waiting, t, pos))
               next == EventNext(pos)
           IN  \/ next = NULL /\ \A t : Contains(waiting, t) => passed(t)
               \/ /\ next \in Task /\ Contains(waiting, next)
                  /\ \A t : Before(waiting, t, next) => passed(t)
<1>1. waiting \in Seq(Task) /\ Injective(waiting)
  BY TypesAre
<1>2. CASE Contains(waiting, pos)
  <2>1. EventNext(pos) = Successor(waiting, pos)
    BY <1>2 DEF EventNext
  <2> QED BY <1>1, <1>2, <2>1, SuccessorIs
<1>3. CASE ~Contains(waiting, pos)
  <2>1. EventNext(pos) = First(waiting)
    BY <1>3 DEF EventNext
  <2>2. waiting = <<>> => \A t : ~Contains(waiting, t)
    BY <1>1 DEF Contains
  <2> QED BY <1>1, <2>1, <2>2, FirstIs
<1> QED BY <1>2, <1>3

\* A step of the search begins like this.
LEMMA CompareBegins ==
    ASSUME DelayInv, Executes("event")
    PROVE  /\ stack # <<>> /\ Top.pc = "event" /\ ~InHandler(Top)
           /\ Top \in Frame /\ FrameOK(Top) /\ Top.task \in Task /\ Top.pos \in Task
           /\ stack \in Seq(Frame) /\ Len(stack) \in Nat /\ Top = stack[Len(stack)]
           /\ \A i \in 1 .. Len(stack) - 1 : stack[i].pc # "event"
<1>1. stack # <<>> /\ Top.pc = "event"
  BY DEF Executes
<1>2. /\ stack \in Seq(Frame) /\ Nested(stack, Locks) /\ Len(stack) \in Nat
      /\ Top = Last(stack) /\ Top = stack[Len(stack)] /\ Top \in Frame /\ FrameOK(Top)
  BY <1>1, StackIs DEF DelayInv
<1>3. ~InHandler(Top) /\ Top.task \in Task /\ Top.pos \in Task
  BY <1>1, <1>2 DEF FrameOK, InHandler
<1>4. \A i \in 1 .. Len(stack) - 1 : stack[i].pc \notin Locks
  BY <1>1, <1>2, <1>3, NothingBelow
<1> QED BY <1>1, <1>2, <1>3, <1>4 DEF Locks, Searches

LEMMA EventPlacedIs ==
    ASSUME DelayInv, Executes("event"), NEW pos, EventPlaced(pos)
    PROVE  /\ DelayInv' /\ NoSearch(stack') /\ EventMove(Top.task, pos)
           /\ \A u \in Task : Asleep(u) => Asleep(u)'
<1>1. /\ stack # <<>> /\ Top.pc = "event" /\ ~InHandler(Top)
      /\ Top \in Frame /\ Top.task \in Task
  BY CompareBegins
<1>2. CASE /\ stack' = Replace(TaskFrame(Top.task))
           /\ UNCHANGED <<tick, current, suspended, list, delay_until, sleep>>
  <2> DEFINE f == TaskFrame(Top.task)
  <2>1. f \in Frame /\ FrameOK(f) /\ f.pc = "run"
    BY <1>1, FrameTypes
  <2>2. stack' = Append(Front(stack), f)
    BY <1>2 DEF Replace
  <2> HIDE DEF f
  <2>3. stack \in Seq(Frame) /\ Nested(stack, Locks) /\ ~InHandler(Last(stack))
    BY <1>1, StackIs DEF DelayInv
  <2>4. stack' \in Seq(Frame) /\ Nested(stack', Locks) /\ FromFrames(stack', stack, f)
    BY <1>1, <2>1, <2>2, <2>3, ReplaceIs
  <2>5. DelayInv'
    BY <1>2, <2>1, <2>4, OnlyFrames DEF DelayInv
  <2>6. NoSearch(stack')
    BY <1>1, <2>1, <2>2, SearchReplaced
  <2>7. \A u \in Task : Asleep(u) => Asleep(u)'
    BY <1>2 DEF Asleep
  <2> QED BY <2>5, <2>6, <2>7 DEF EventPlaced
<1>3. CASE DelayUntil([Top EXCEPT !.now = tick, !.wakeup = (tick + Top.ticks) % TickMod,
                                  !.left = Top.ticks, !.wrapped = FALSE])
  <2> DEFINE w == (tick + Top.ticks) % TickMod
             f == [Top EXCEPT !.now = tick, !.wakeup = w, !.left = Top.ticks, !.wrapped = FALSE]
  <2>1. DelayUntil(f)
    BY <1>3
  <2>2. tick \in Tick /\ Top.ticks \in Tick
    BY <1>1 DEF DelayInv, ListInv, DTypes, Frame
  <2>3. w \in Tick
    BY <2>2, TickAssumption DEF Tick
  <2> HIDE DEF w
  <2>4. f \in Frame /\ f.task = Top.task
    BY <1>1, <2>2, <2>3 DEF Frame
  <2> HIDE DEF f
  <2>5. "scan" \in Locks
    BY DEF Locks, Searches
  <2>6. DelayInv'
    BY <1>1, <2>1, <2>4, <2>5, DelayUntilKeeps DEF DelayInv
  <2>7. NoSearch(stack') /\ \A u \in Task : Asleep(u) => Asleep(u)'
    BY <1>1, <2>1, <2>4, DelayUntilWaits
  <2> QED BY <2>6, <2>7 DEF EventPlaced
<1> QED BY <1>2, <1>3 DEF EventPlaced

\* What the move does to the order, and that nobody leaves or comes.
LEMMA MoveIs ==
    ASSUME SemTypes, NEW t \in Task, NEW pos,
           pos = NULL \/ (Contains(waiting, pos) /\ pos # t),
           Contains(waiting, t) => t \in suspended,
           EventMove(t, pos)
    PROVE  /\ waiting' \in Seq(Task) /\ Injective(waiting')
           /\ \A u \in Task : Contains(waiting', u) <=> Contains(waiting, u)
           /\ \A a, b \in Task :
                 Before(waiting', a, b) =>
                    \/ a # t /\ b # t /\ Before(waiting, a, b)
                    \/ a # t /\ b = t /\ pos = NULL /\ Contains(waiting, a)
                    \/ a # t /\ b = t /\ pos # NULL /\ Before(waiting, a, pos)
                    \/ a = t /\ pos # NULL /\ (b = pos \/ Before(waiting, pos, b))
<1>1. waiting \in Seq(Task) /\ Injective(waiting)
  BY TypesAre
<1>2. CASE ~Contains(waiting, t)
  <2>1. waiting' = waiting
    BY <1>2 DEF EventMove
  <2>2. \A a, b : Before(waiting, a, b) => a # t /\ b # t
    BY <1>1, <1>2, BeforeIn
  <2> QED BY <1>1, <2>1, <2>2
<1>3. CASE Contains(waiting, t)
  <2> DEFINE w == Without(waiting, t)
             r == InsertBefore(w, pos, t)
  <2>1. waiting' = r
    BY <1>3 DEF EventMove
  <2>2. /\ w \in Seq(Task) /\ Injective(w)
        /\ \A u \in Task : Contains(w, u) <=> u # t /\ Contains(waiting, u)
    BY <1>1, WithoutIsRemoval DEF Contains
  <2>3. \A a, b : Before(w, a, b) => Before(waiting, a, b)
    BY <1>1, OrderWithout
  <2>4. ~Contains(w, t) /\ (pos = NULL \/ Contains(w, pos))
    <3>1. Contains(waiting, pos) => pos \in Task
      BY <1>1 DEF Contains
    <3> QED BY <2>2, <3>1
  <2> HIDE DEF w
  <2>5. /\ r \in Seq(Task) /\ Injective(r)
        /\ \A u \in Task : Contains(r, u) <=> u = t \/ Contains(w, u)
        /\ Behind(r, w, pos, t)
    BY <2>2, <2>4, InsertBeforeIs
  <2> HIDE DEF r
  <2>6. \A u \in Task : Contains(waiting', u) <=> Contains(waiting, u)
    BY <1>3, <2>1, <2>2, <2>5
  <2>7. ASSUME NEW a \in Task, NEW b \in Task, Before(waiting', a, b)
        PROVE  \/ a # t /\ b # t /\ Before(waiting, a, b)
               \/ a # t /\ b = t /\ pos = NULL /\ Contains(waiting, a)
               \/ a # t /\ b = t /\ pos # NULL /\ Before(waiting, a, pos)
               \/ a = t /\ pos # NULL /\ (b = pos \/ Before(waiting, pos, b))
    <3>1. \A x, y : Before(w, x, y) => /\ x \in Task /\ y \in Task
                                       /\ Contains(w, x) /\ Contains(w, y)
      BY <2>2, BeforeIn
    <3>2. \A x, y : Before(w, x, y) => x # t /\ y # t /\ Before(waiting, x, y)
      BY <2>3, <2>4, <3>1
    <3>3. \/ Before(w, a, b)
          \/ b = t /\ pos = NULL /\ Contains(w, a)
          \/ b = t /\ pos # NULL /\ Before(w, a, pos)
          \/ a = t /\ pos # NULL /\ (b = pos \/ Before(w, pos, b))
      BY <2>1, <2>5, <2>7 DEF Behind
    <3> QED BY <2>2, <3>2, <3>3
  <2> QED BY <2>1, <2>5, <2>6, <2>7
<1> QED BY <1>2, <1>3

\* Where the search may end.
Fitting(t, pos) ==
    \/ pos = NULL /\ \A u \in Task : Contains(waiting, u) /\ u # t
                                        => Priority[u] >= Priority[t]
    \/ /\ pos \in Task /\ Contains(waiting, pos) /\ Priority[t] > Priority[pos]
       /\ \A u \in Task : u # t /\ Before(waiting, u, pos) => Priority[u] >= Priority[t]

LEMMA PrioritiesAre ==
    \A t \in Task : Priority[t] \in Nat
BY PriorityAssumption

LEMMA MoveSorts ==
    ASSUME DelayInv, SemTypes, AsleepInv, SearchInv, Executes("event"),
           NEW pos, Fitting(Top.task, pos), EventMove(Top.task, pos)
    PROVE  /\ waiting' \in Seq(Task) /\ Injective(waiting')
           /\ \A u \in Task : Contains(waiting', u) <=> Contains(waiting, u)
           /\ \A a, b \in Task : Before(waiting', a, b) => Priority[a] >= Priority[b]
<1> DEFINE t == Top.task
<1>1. /\ t \in Task /\ Top.pc = "event"
      /\ stack \in Seq(Frame) /\ Len(stack) \in Nat /\ Top = stack[Len(stack)]
      /\ \A i \in 1 .. Len(stack) - 1 : stack[i].pc # "event"
      /\ Len(stack) \in 1 .. Len(stack)
  BY CompareBegins, StackIs DEF DelayInv
<1>2. Searched(Top, list, waiting)
  BY <1>1 DEF SearchInv
<1>3. Contains(waiting, t) => t \in suspended
  BY <1>1, <1>2 DEF AsleepInv, Asleep, Searched
<1>4. \A u \in Task : u # t => Seated(stack, u)
  BY <1>1 DEF Seated
<1>5. \A a, b \in Task : a # t /\ b # t /\ Before(waiting, a, b) => Priority[a] >= Priority[b]
  BY <1>4 DEF SearchInv
<1> HIDE DEF t
<1>6. Fitting(t, pos) /\ EventMove(t, pos)
  BY DEF t
<1>7. pos = NULL \/ (Contains(waiting, pos) /\ pos # t)
  BY <1>1, <1>6, PrioritiesAre DEF Fitting
<1>8. /\ waiting' \in Seq(Task) /\ Injective(waiting')
      /\ \A u \in Task : Contains(waiting', u) <=> Contains(waiting, u)
      /\ \A a, b \in Task :
            Before(waiting', a, b) =>
               \/ a # t /\ b # t /\ Before(waiting, a, b)
               \/ a # t /\ b = t /\ pos = NULL /\ Contains(waiting, a)
               \/ a # t /\ b = t /\ pos # NULL /\ Before(waiting, a, pos)
               \/ a = t /\ pos # NULL /\ (b = pos \/ Before(waiting, pos, b))
  BY <1>1, <1>3, <1>6, <1>7, MoveIs
<1>9. ASSUME NEW a \in Task, NEW b \in Task, Before(waiting', a, b)
      PROVE  Priority[a] >= Priority[b]
  <2>1. CASE a # t /\ b # t /\ Before(waiting, a, b)
    BY <1>5, <2>1
  <2>2. CASE a # t /\ b = t /\ (\/ pos = NULL /\ Contains(waiting, a)
                                \/ pos # NULL /\ Before(waiting, a, pos))
    BY <1>6, <2>2, NullAssumption DEF Fitting
  <2>3. CASE a = t /\ pos # NULL /\ (b = pos \/ Before(waiting, pos, b))
    <3>1. pos \in Task /\ pos # t /\ Priority[t] > Priority[pos]
      BY <1>6, <1>7, <2>3 DEF Fitting
    <3>2. b # t => Priority[pos] >= Priority[b]
      BY <1>5, <2>3, <3>1, PrioritiesAre
    <3> QED BY <1>1, <2>3, <3>1, <3>2, PrioritiesAre
  <2> QED BY <1>8, <1>9, <2>1, <2>2, <2>3
<1> QED BY <1>8, <1>9

-----------------------------------------------------------------------------
(* Steps that leave the searches where they are.                             *)

SameSearch(f, g) ==
    f.pc = "event" /\ g.pc = "event" /\ f.task = g.task /\ f.pos = g.pos

SameSearches ==
    /\ \A i \in 1 .. Len(stack') : stack'[i].pc = "event" =>
          \E j \in 1 .. Len(stack) : SameSearch(stack'[i], stack[j])
    /\ \A j \in 1 .. Len(stack) : stack[j].pc = "event" =>
          \E i \in 1 .. Len(stack') : SameSearch(stack'[i], stack[j])

\* Tasks leave the event list, and the order stays.
Leave == \A a, b : Before(waiting', a, b) => Before(waiting, a, b)

LEMMA SearchThin ==
    ASSUME SearchInv, Thinner(list', list), Leave, SameSearches,
           \A i \in 1 .. Len(stack') : FrameOK(stack'[i])
    PROVE  SearchInv'
<1>1. ASSUME NEW i \in 1 .. Len(stack') PROVE Searched(stack'[i], list', waiting')
  <2> DEFINE f == stack'[i]
  <2>1. SUFFICES ASSUME f.pc = "event"
                 PROVE  /\ ~Listed(list', f.task)
                        /\ \A u \in Task : u # f.task /\ Before(waiting', u, f.pos)
                                             => Priority[u] >= Priority[f.task]
    BY DEF Searched
  <2>2. PICK j \in 1 .. Len(stack) : SameSearch(f, stack[j])
    BY <2>1 DEF SameSearches
  <2>3. Searched(stack[j], list, waiting) /\ stack[j].pc = "event"
        /\ f.task = stack[j].task /\ f.pos = stack[j].pos
    BY <2>2 DEF SearchInv, SameSearch
  <2>4. f.task \in Task
    BY <2>1 DEF FrameOK, InHandler
  <2> HIDE DEF f
  <2>5. ~Listed(list', f.task)
    BY <2>3, <2>4 DEF Searched, Listed, Thinner
  <2> QED BY <2>3, <2>5 DEF Searched, Leave
<1>2. ASSUME NEW t \in Task, Seated(stack', t) PROVE Seated(stack, t)
  BY <1>2 DEF Seated, SameSearches, SameSearch
<1> QED BY <1>1, <1>2 DEF SearchInv, Leave

LEMMA SearchNone ==
    ASSUME SearchInv, NoSearch(stack), NoSearch(stack'), Leave
    PROVE  SearchInv'
<1>1. \A t \in Task : Seated(stack, t)
  BY DEF NoSearch, Seated
<1>2. \A i \in 1 .. Len(stack') : Searched(stack'[i], list', waiting')
  BY DEF NoSearch, Searched
<1> QED BY <1>1, <1>2 DEF SearchInv, Leave

LEMMA LeaveReflexive ==
    ASSUME UNCHANGED waiting
    PROVE  Leave
BY DEF Leave

LEMMA StackSearches ==
    ASSUME UNCHANGED stack
    PROVE  SameSearches
BY DEF SameSearches, SameSearch

LEMMA PushSearches ==
    ASSUME DelayInv, NEW g \in Frame, g.pc # "event", stack' = Append(stack, g)
    PROVE  SameSearches
<1>1. stack \in Seq(Frame) /\ Nested(stack, {}) /\ Len(stack) \in Nat
  BY DEF DelayInv, ListInv, DTypes, Nested
<1>2. /\ Len(stack') = Len(stack) + 1 /\ stack'[Len(stack) + 1] = g
      /\ \A i \in 1 .. Len(stack) : stack'[i] = stack[i]
  BY <1>1, PushIs
<1> QED BY <1>1, <1>2 DEF SameSearches, SameSearch

LEMMA PopSearches ==
    ASSUME DelayInv, stack # <<>>, Top.pc # "event", stack' = Front(stack)
    PROVE  SameSearches
<1>1. stack \in Seq(Frame) /\ Nested(stack, Locks) /\ Len(stack) \in Nat
      /\ Top = stack[Len(stack)]
  BY StackIs DEF DelayInv
<1>2. /\ Len(stack') = Len(stack) - 1
      /\ \A i \in 1 .. Len(stack) - 1 : stack'[i] = stack[i]
  BY <1>1, PopIs
<1> QED BY <1>1, <1>2 DEF SameSearches, SameSearch

LEMMA ReplaceSearches ==
    ASSUME DelayInv, stack # <<>>, Top.pc # "event", NEW g \in Frame, g.pc # "event",
           stack' = Append(Front(stack), g)
    PROVE  SameSearches
<1>1. /\ stack \in Seq(Frame) /\ Nested(stack, Locks) /\ Len(stack) \in Nat
      /\ Len(stack) \in 1 .. Len(stack) /\ Top = stack[Len(stack)]
  BY StackIs DEF DelayInv
<1>2. /\ Front(stack) \in Seq(Frame) /\ Nested(Front(stack), {})
      /\ Len(Front(stack)) = Len(stack) - 1
      /\ \A i \in 1 .. Len(stack) - 1 : Front(stack)[i] = stack[i]
  BY <1>1, PopIs DEF Nested
<1>3. /\ Len(stack') = Len(Front(stack)) + 1 /\ stack'[Len(Front(stack)) + 1] = g
      /\ \A i \in 1 .. Len(Front(stack)) : stack'[i] = Front(stack)[i]
  BY <1>2, PushIs
<1>4. /\ Len(stack') = Len(stack) /\ stack'[Len(stack)] = g
      /\ \A i \in 1 .. Len(stack) - 1 : stack'[i] = stack[i]
  BY <1>1, <1>2, <1>3
<1>5. /\ \A i \in 1 .. Len(stack') : stack'[i].pc = "event" => i # Len(stack)
      /\ \A i \in 1 .. Len(stack) : stack[i].pc = "event" => i # Len(stack)
  BY <1>1, <1>4
<1>6. \A i \in 1 .. Len(stack) : i # Len(stack) => i \in 1 .. Len(stack) - 1
  BY <1>1
<1>7. \A i \in 1 .. Len(stack) : i # Len(stack) => stack'[i] = stack[i]
  BY <1>4, <1>6
<1> QED BY <1>4, <1>5, <1>7 DEF SameSearches, SameSearch

LEMMA TickSearches ==
    ASSUME DelayInv, TickInterrupt
    PROVE  SameSearches
<1>1. /\ \A i \in 1 .. Len(stack) :
            i \in 1 .. Len(stack') /\ stack'[i] = TickedFrame(stack[i], tick')
      /\ \/ Len(stack') = Len(stack)
         \/ /\ Len(stack') = Len(stack) + 1
            /\ Found(stack'[Len(stack) + 1], TickHandler(tick'), current')
  BY TickedStackIs DEF DelayInv
<1>2. Len(stack) \in Nat /\ \A i \in 1 .. Len(stack) : stack[i] \in Frame
  BY DEF DelayInv, ListInv, DTypes
<1>3. ASSUME NEW i \in 1 .. Len(stack)
      PROVE  /\ stack'[i].pc = stack[i].pc /\ stack'[i].task = stack[i].task
             /\ stack'[i].pos = stack[i].pos
  BY <1>1, <1>2, TickedFrameIs
<1>4. \A f : Found(f, TickHandler(tick'), current') => f.pc # "event"
  BY DEF Found, InHandler
<1>5. ASSUME NEW i \in 1 .. Len(stack'), stack'[i].pc = "event" PROVE i \in 1 .. Len(stack)
  BY <1>1, <1>2, <1>4, <1>5
<1>6. \A i \in 1 .. Len(stack) : stack[i].pc = "event" => SameSearch(stack'[i], stack[i])
  BY <1>3 DEF SameSearch
<1> QED BY <1>1, <1>3, <1>5, <1>6 DEF SameSearches

-----------------------------------------------------------------------------
(* Who is woken.                                                             *)

LEMMA FewerAre ==
    ASSUME NEW S, NEW T, IsFiniteSet(T), S \subseteq T
    PROVE  /\ IsFiniteSet(S) /\ Cardinality(S) \in Nat /\ Cardinality(T) \in Nat
           /\ Cardinality(S) <= Cardinality(T)
<1>1. IsFiniteSet(S) /\ Cardinality(S) <= Cardinality(T)
  BY FS_Subset
<1> QED BY <1>1, FS_CardinalityType

\* One more is woken.
LEMMA OneMore ==
    ASSUME NEW S, NEW T, IsFiniteSet(T), NEW t \in T, t \notin S, S \subseteq T
    PROVE  Cardinality(S) + 1 <= Cardinality(T)
<1>1. IsFiniteSet(S) /\ IsFiniteSet(S \cup {t})
      /\ Cardinality(S \cup {t}) = Cardinality(S) + 1
  BY FewerAre, FS_AddElement
<1>2. Cardinality(S \cup {t}) <= Cardinality(T)
  BY FewerAre
<1> QED BY <1>1, <1>2

\* One less is woken.
LEMMA OneLess ==
    ASSUME NEW S, NEW T, IsFiniteSet(T), NEW t, T \ {t} \subseteq S, S \subseteq T
    PROVE  Cardinality(T) <= Cardinality(S) + 1
<1>1. IsFiniteSet(S) /\ Cardinality(S) \in Nat /\ Cardinality(T \ {t}) <= Cardinality(S)
  BY FewerAre
<1>2. Cardinality(T \ {t}) = IF t \in T THEN Cardinality(T) - 1 ELSE Cardinality(T)
  BY FS_RemoveElement
<1>3. Cardinality(T) \in Nat
  BY FS_CardinalityType
<1> QED BY <1>1, <1>2, <1>3

LEMMA WaitersAre ==
    ASSUME NEW s \in Seq(Task)
    PROVE  /\ ToSet(s) \subseteq Task
           /\ \A t \in Task : t \in ToSet(s) <=> Contains(s, t)
           /\ s = <<>> <=> ToSet(s) = {}
<1>1. /\ \A i \in 1 .. Len(s) : s[i] \in Task
      /\ DOMAIN s = 1 .. Len(s) /\ (s = <<>> <=> 1 \notin 1 .. Len(s))
  OBVIOUS
<1>2. \A t : t \in ToSet(s) <=> Contains(s, t)
  BY <1>1 DEF ToSet, Contains
<1>3. s = <<>> => \A t : ~Contains(s, t)
  BY DEF Contains
<1>4. s # <<>> => Contains(s, s[1])
  BY <1>1 DEF Contains
<1> QED BY <1>1, <1>2, <1>3, <1>4 DEF Contains

LEMMA WokenThin ==
    ASSUME SemTypes, SemTypes', WokenInv, UNCHANGED <<count, woken>>,
           \A t \in Task : Contains(waiting', t) => Contains(waiting, t)
    PROVE  WokenInv'
<1>1. ToSet(waiting') \subseteq ToSet(waiting)
      /\ (waiting' # <<>> => waiting # <<>>)
  BY WaitersAre DEF SemTypes
<1>2. Cardinality(woken \ ToSet(waiting)) <= Cardinality(woken \ ToSet(waiting'))
  <2>1. IsFiniteSet(woken \ ToSet(waiting'))
    BY FewerAre DEF SemTypes
  <2>2. woken \ ToSet(waiting) \subseteq woken \ ToSet(waiting')
    BY <1>1
  <2> QED BY <2>1, <2>2, FewerAre
<1>3. /\ Cardinality(woken \ ToSet(waiting)) \in Nat
      /\ Cardinality(woken \ ToSet(waiting')) \in Nat
  BY FewerAre DEF SemTypes
<1>4. count \in Nat
  BY TypesAre
<1> QED BY <1>1, <1>2, <1>3, <1>4 DEF WokenInv

\* semaphore_lock(): a woken task, or another, takes one of the count.
LEMMA LockKeeps ==
    ASSUME WaitInv, NEW t, SemaphoreLock(t)
    PROVE  WaitInv'
<1>1. /\ UNCHANGED <<vars, waiting>> /\ woken' = woken \ {t}
      /\ count' = IF count > 0 THEN count - 1 ELSE count
      /\ SemTypes /\ count \in Nat /\ waiting \in Seq(Task)
  BY TypesAre DEF WaitInv, SemaphoreLock
<1>2. DelayInv'
  BY <1>1 DEF WaitInv, DelayInv, ListInv, DTypes, vars
<1>3. SemTypes'
  <2>1. IsFiniteSet(woken')
    BY <1>1, FS_RemoveElement DEF SemTypes
  <2>2. count' \in 0 .. max
    BY <1>1, CountAssumption DEF SemTypes
  <2> QED BY <1>1, <2>1, <2>2 DEF SemTypes
<1>4. AsleepInv' /\ SearchInv'
  BY <1>1 DEF WaitInv, AsleepInv, Asleep, SearchInv, vars
<1>5. WokenInv'
  <2> DEFINE T == woken \ ToSet(waiting)
             S == woken' \ ToSet(waiting)
  <2>1. IsFiniteSet(T) /\ Cardinality(T) \in Nat
    BY <1>1, FewerAre DEF SemTypes
  <2>2. T \ {t} \subseteq S /\ S \subseteq T
    BY <1>1
  <2> HIDE DEF T, S
  <2>3. Cardinality(T) <= Cardinality(S) + 1 /\ Cardinality(S) \in Nat
    BY <2>1, <2>2, OneLess, FewerAre
  <2>4. waiting # <<>> => count <= Cardinality(T)
    BY DEF WaitInv, WokenInv, T
  <2>5. waiting # <<>> => count' <= Cardinality(S)
    BY <1>1, <2>1, <2>3, <2>4
  <2> QED BY <1>1, <2>5 DEF WokenInv, S
<1> QED BY <1>2, <1>3, <1>4, <1>5 DEF WaitInv

-----------------------------------------------------------------------------
(* Steps that suspend or resume a task.                                      *)

LEMMA LeavesAsleep ==
    ASSUME DelayInv, NEW t \in Task, list' = Unlisted(t),
           suspended' = suspended \cup {t} \/ suspended' = suspended \ {t}
    PROVE  /\ Thinner(list', list) /\ ~Listed(list', t)
           /\ \A u \in Task : u # t /\ Asleep(u) => Asleep(u)'
<1>1. list \in Lists /\ OneOn(list)
  BY DEF DelayInv, ListInv, DTypes
<1>2. /\ Thinner(list', list) /\ ~Listed(list', t)
      /\ \A u \in Task : u # t => (Listed(list', u) <=> Listed(list, u))
  BY <1>1, UnlistedIs
<1> QED BY <1>2 DEF Asleep

\* task_resume() of t, which also leaves the event list.
LEMMA ResumedWaits ==
    ASSUME WaitInv, DelayInv', NEW t \in Task, Resume(t), SameSearches,
           waiting' \in Seq(Task), Injective(waiting'), Leave,
           \A u \in Task : Contains(waiting', u) => u # t /\ Contains(waiting, u)
    PROVE  AsleepInv' /\ SearchInv'
<1>1. suspended' = suspended \ {t} /\ list' = Unlisted(t) /\ DelayInv
  BY DEF Resume, WaitInv
<1>2. /\ Thinner(list', list)
      /\ \A u \in Task : u # t /\ Asleep(u) => Asleep(u)'
  BY <1>1, LeavesAsleep
<1>3. AsleepInv'
  BY <1>2 DEF WaitInv, AsleepInv
<1>4. \A i \in 1 .. Len(stack') : FrameOK(stack'[i])
  BY DEF DelayInv, ListInv
<1> QED BY <1>2, <1>3, <1>4, SearchThin DEF WaitInv

LEMMA UnlockKeeps ==
    ASSUME WaitInv, SemaphoreUnlock
    PROVE  WaitInv'
<1>1. DelayInv /\ SemTypes /\ WokenInv
  BY DEF WaitInv
<1>2. DelayInv'
  BY <1>1, UnlockListInv
<1>3. /\ count < max /\ count' = count + 1 /\ UNCHANGED stack /\ count \in Nat
      /\ waiting \in Seq(Task) /\ Injective(waiting)
  BY <1>1, UnlockIs, TypesAre
<1>4. count' \in 0 .. max
  BY <1>1, <1>3, CountAssumption DEF SemTypes
<1>5. CASE waiting = <<>> /\ UNCHANGED <<vars, waiting, woken>>
  <2>1. SemTypes'
    BY <1>1, <1>4, <1>5 DEF SemTypes
  <2>2. AsleepInv' /\ SearchInv'
    BY <1>5 DEF WaitInv, AsleepInv, Asleep, SearchInv, vars
  <2>3. WokenInv'
    BY <1>5 DEF WokenInv
  <2> QED BY <1>2, <2>1, <2>2, <2>3 DEF WaitInv
<1>6. CASE /\ waiting # <<>> /\ Head(waiting) \in Task /\ TaskResume(Head(waiting))
           /\ waiting' = Tail(waiting) /\ woken' = woken \cup {Head(waiting)}
  <2> DEFINE t == Head(waiting)
  <2>1. /\ waiting' \in Seq(Task) /\ Injective(waiting') /\ Contains(waiting, t)
        /\ \A u \in Task : Contains(waiting', u) <=> u # t /\ Contains(waiting, u)
    BY <1>3, <1>6, TailDrops DEF Contains
  <2>2. Leave
    BY <1>3, <1>6, OrderTail DEF Leave
  <2>3. SameSearches
    BY <1>3, StackSearches
  <2>4. t \in Task /\ Resume(t) /\ woken' = woken \cup {t}
    BY <1>6 DEF TaskResume
  <2> HIDE DEF t
  <2>5. AsleepInv' /\ SearchInv'
    BY <1>2, <2>1, <2>2, <2>3, <2>4, ResumedWaits
  <2>6. SemTypes'
    <3>1. IsFiniteSet(woken')
      BY <1>1, <2>4, FS_AddElement DEF SemTypes
    <3> QED BY <1>1, <1>4, <2>1, <2>4, <3>1 DEF SemTypes
  <2>7. WokenInv'
    <3> DEFINE S == woken \ ToSet(waiting)
               T == woken' \ ToSet(waiting')
    <3>1. t \in T /\ t \notin S /\ S \subseteq T
      <4>1. t \in ToSet(waiting) /\ t \notin ToSet(waiting')
            /\ ToSet(waiting') \subseteq ToSet(waiting)
        BY <1>3, <2>1, <2>4, WaitersAre
      <4> QED BY <2>4, <4>1
    <3>2. IsFiniteSet(T)
      BY <2>6, FewerAre DEF SemTypes
    <3>3. IsFiniteSet(S)
      BY <1>1, FewerAre DEF SemTypes
    <3> HIDE DEF S, T
    <3>4. Cardinality(S) + 1 <= Cardinality(T)
      BY <3>1, <3>2, OneMore
    <3>5. count <= Cardinality(S)
      BY <1>1, <1>6 DEF WokenInv, S
    <3>6. Cardinality(S) \in Nat /\ Cardinality(T) \in Nat
      BY <3>2, <3>3, FS_CardinalityType
    <3>7. count' <= Cardinality(T)
      BY <1>3, <3>4, <3>5, <3>6
    <3> QED BY <3>7 DEF WokenInv, T
  <2> QED BY <1>2, <2>5, <2>6, <2>7 DEF WaitInv
<1> QED BY <1>1, <1>5, <1>6, UnlockIs

\* A wait begins: the task goes to the end of the event list.
LEMMA SuspendWaits ==
    ASSUME WaitInv, NEW ticks \in Timeouts, SemaphoreSuspend(ticks)
    PROVE  WaitInv'
<1> DEFINE t == Top.task
           f == [Top EXCEPT !.pc = "event", !.ticks = ticks, !.pos = Head(waiting')]
<1>1. DelayInv /\ SemTypes /\ waiting \in Seq(Task) /\ Injective(waiting)
  BY TypesAre DEF WaitInv
<1>2. DelayInv'
  BY <1>1, WaitListInv
<1>3. /\ stack # <<>> /\ ~InHandler(Top) /\ Top.pc = "run" /\ t \in Task
      /\ f \in Frame /\ f.pc = "event" /\ f.task = t /\ f.pos = Head(waiting')
      /\ stack' = Append(Front(stack), f)
      /\ ~Contains(waiting, t) /\ waiting' = Append(waiting, t)
      /\ waiting' \in Seq(Task) /\ Injective(waiting') /\ waiting' # <<>>
  BY <1>1, WaitBegins
<1>4. /\ suspended' = suspended \cup {t} /\ list' = Unlisted(t)
      /\ woken' = woken \ {t} /\ UNCHANGED count /\ count = 0
  BY DEF SemaphoreSuspend, Unavailable
<1> HIDE DEF f, t
<1>5. SemTypes'
  <2>1. IsFiniteSet(woken')
    BY <1>1, <1>4, FS_RemoveElement DEF SemTypes
  <2> QED BY <1>1, <1>3, <1>4, <2>1 DEF SemTypes
<1>6. ~Listed(list', t) /\ \A u \in Task : u # t /\ Asleep(u) => Asleep(u)'
  BY <1>1, <1>3, <1>4, LeavesAsleep
<1>7. \A a, b : Before(waiting', a, b) => Before(waiting, a, b) \/ (b = t /\ Contains(waiting, a))
  BY <1>1, <1>3, OrderAppend
<1>8. AsleepInv'
  <2>1. ASSUME NEW u \in Task, Contains(waiting', u) PROVE Asleep(u)'
    <3>1. CASE u = t
      BY <1>4, <3>1 DEF Asleep
    <3>2. CASE u # t
      <4>1. Contains(waiting, u)
        BY <1>1, <1>3, <2>1, <3>2, AppendAdds DEF Contains
      <4> QED BY <1>6, <3>2, <4>1 DEF WaitInv, AsleepInv
    <3> QED BY <3>1, <3>2
  <2> QED BY <2>1 DEF AsleepInv
<1>9. SearchInv'
  <2>1. stack \in Seq(Frame) /\ Nested(stack, Locks) /\ Len(stack) \in Nat
        /\ Len(stack) \in 1 .. Len(stack) /\ ~InHandler(Last(stack))
        /\ Top = stack[Len(stack)] /\ Top = Last(stack)
    BY <1>1, <1>3, StackIs DEF DelayInv
  <2>2. \A i \in 1 .. Len(stack) - 1 : stack[i].pc # "event"
    BY <1>3, <2>1, NothingBelow DEF Locks, Searches
  <2>3. \A u \in Task : Seated(stack, u)
    <3>1. stack[Len(stack)].pc # "event"
      BY <1>3, <2>1
    <3>2. \A i \in 1 .. Len(stack) : stack[i].pc # "event"
      BY <2>1, <2>2, <3>1, LastSearch
    <3> QED BY <3>2 DEF Seated
  <2>4. Len(stack') = Len(stack) /\ stack'[Len(stack)] = f /\ Keeps(stack', stack)
    BY <1>3, <2>1, ReplaceIs DEF InHandler
  <2>5. /\ \A i \in 1 .. Len(stack') : stack'[i].pc = "event" => stack'[i] = f
        /\ \A u \in Task : Seated(stack', u) => u # t
    <3>1. \A i \in 1 .. Len(stack) - 1 : stack'[i].pc # "event"
      BY <2>2, <2>4 DEF Keeps
    <3>2. \A i \in 1 .. Len(stack) : stack'[i].pc = "event" => i = Len(stack)
      BY <2>1, <3>1, LastSearch
    <3>3. \A u \in Task : Seated(stack', u) => u # t
      BY <1>3, <2>1, <2>4 DEF Seated
    <3> QED BY <2>4, <3>2, <3>3
  <2>6. \A a : ~Before(waiting', a, f.pos)
    BY <1>3, BeforeHead
  <2>7. Searched(f, list', waiting')
    BY <1>3, <1>6, <2>6 DEF Searched
  <2>8. \A i \in 1 .. Len(stack') : Searched(stack'[i], list', waiting')
    BY <2>5, <2>7 DEF Searched
  <2>9. ASSUME NEW a \in Task, NEW b \in Task, Before(waiting', a, b),
               Seated(stack', a), Seated(stack', b)
        PROVE  Priority[a] >= Priority[b]
    <3>1. Before(waiting, a, b)
      BY <1>7, <2>5, <2>9
    <3> QED BY <2>3, <3>1 DEF WaitInv, SearchInv
  <2> QED BY <2>8, <2>9 DEF SearchInv
<1>10. WokenInv'
  <2>1. Cardinality(woken' \ ToSet(waiting')) \in Nat
    BY <1>5, FewerAre DEF SemTypes
  <2> QED BY <1>4, <2>1 DEF WokenInv
<1> QED BY <1>2, <1>5, <1>8, <1>9, <1>10 DEF WaitInv

\* The search ends, the task takes its place, and may delay itself.
LEMMA SearchEnds ==
    ASSUME WaitInv, Executes("event"), NEW pos, Fitting(Top.task, pos),
           EventPlaced(pos), UNCHANGED <<count, woken>>
    PROVE  WaitInv'
<1>1. DelayInv /\ SemTypes /\ AsleepInv /\ SearchInv /\ WokenInv
  BY DEF WaitInv
<1>2. /\ DelayInv' /\ NoSearch(stack') /\ EventMove(Top.task, pos)
      /\ \A u \in Task : Asleep(u) => Asleep(u)'
  BY <1>1, EventPlacedIs
<1>3. /\ waiting' \in Seq(Task) /\ Injective(waiting')
      /\ \A u \in Task : Contains(waiting', u) <=> Contains(waiting, u)
      /\ \A a, b \in Task : Before(waiting', a, b) => Priority[a] >= Priority[b]
  BY <1>1, <1>2, MoveSorts
<1>4. SemTypes'
  BY <1>1, <1>3 DEF SemTypes
<1>5. AsleepInv'
  BY <1>1, <1>2, <1>3 DEF AsleepInv
<1>6. SearchInv'
  <2>1. \A i \in 1 .. Len(stack') : Searched(stack'[i], list', waiting')
    BY <1>2 DEF NoSearch, Searched
  <2> QED BY <1>3, <2>1 DEF SearchInv
<1>7. WokenInv'
  BY <1>1, <1>3, <1>4, WokenThin
<1> QED BY <1>2, <1>4, <1>5, <1>6, <1>7 DEF WaitInv

\* The search passes a task of at least its priority, or its position is gone.
LEMMA SearchGoesOn ==
    ASSUME WaitInv, Executes("event"), NEW next \in Task,
           \A u \in Task : u # Top.task /\ Before(waiting, u, next)
                              => Priority[u] >= Priority[Top.task],
           stack' = Replace([Top EXCEPT !.pos = next]),
           UNCHANGED <<tick, current, suspended, list, delay_until, sleep, semaphore>>
    PROVE  WaitInv'
<1> DEFINE f == [Top EXCEPT !.pos = next]
<1>1. DelayInv /\ SemTypes /\ AsleepInv /\ SearchInv /\ WokenInv
  BY DEF WaitInv
<1>2. /\ stack # <<>> /\ Top.pc = "event" /\ ~InHandler(Top)
      /\ Top \in Frame /\ FrameOK(Top) /\ Top.task \in Task
      /\ stack \in Seq(Frame) /\ Len(stack) \in Nat /\ Top = stack[Len(stack)]
      /\ \A i \in 1 .. Len(stack) - 1 : stack[i].pc # "event"
      /\ Nested(stack, Locks) /\ Top = Last(stack) /\ Len(stack) \in 1 .. Len(stack)
  BY <1>1, CompareBegins, StackIs DEF DelayInv
<1>3. /\ f \in Frame /\ f.pc = "event" /\ f.task = Top.task /\ f.pos = next
      /\ f.timer = Top.timer /\ stack' = Append(Front(stack), f)
  BY <1>2 DEF Frame, Replace
<1> HIDE DEF f
<1>4. FrameOK(f)
  BY <1>2, <1>3 DEF FrameOK, InHandler
<1>5. /\ stack' \in Seq(Frame) /\ Nested(stack', Locks) /\ FromFrames(stack', stack, f)
      /\ Len(stack') = Len(stack) /\ stack'[Len(stack)] = f /\ Keeps(stack', stack)
  <2>1. /\ stack \in Seq(Frame) /\ stack # <<>> /\ Nested(stack, Locks) /\ f \in Frame
        /\ InHandler(Last(stack)) => InHandler(f)
    BY <1>2, <1>3
  <2>2. /\ Append(Front(stack), f) \in Seq(Frame) /\ Nested(Append(Front(stack), f), Locks)
        /\ Len(Append(Front(stack), f)) = Len(stack)
        /\ Append(Front(stack), f)[Len(stack)] = f
        /\ FromFrames(Append(Front(stack), f), stack, f)
        /\ Keeps(Append(Front(stack), f), stack)
    BY <2>1, ReplaceIs
  <2> QED BY <1>3, <2>2
<1>6. DelayInv'
  <2>1. ListInv(Locks) /\ FrameOK(f) /\ f.pc # "scan"
    BY <1>1, <1>3, <1>4 DEF DelayInv
  <2>2. ListInv(Locks)'
    BY <1>5, <2>1, OnlyFrames
  <2> QED BY <2>2 DEF DelayInv
<1>7. SemTypes' /\ AsleepInv' /\ WokenInv'
  <2>1. SemTypes'
    BY <1>1 DEF SemTypes, semaphore
  <2>2. AsleepInv'
    BY <1>1 DEF AsleepInv, Asleep, semaphore
  <2>3. WokenInv'
    BY <1>1 DEF WokenInv, semaphore
  <2> QED BY <2>1, <2>2, <2>3
<1>8. SearchInv'
  <2>1. \A i \in 1 .. Len(stack') : stack'[i].pc = "event" => stack'[i] = f
    <3>1. \A i \in 1 .. Len(stack) - 1 : stack'[i].pc # "event"
      BY <1>2, <1>5 DEF Keeps
    <3>2. \A i \in 1 .. Len(stack) : stack'[i].pc = "event" => i = Len(stack)
      BY <1>2, <3>1, LastSearch
    <3> QED BY <1>5, <3>2
  <2>2. Searched(Top, list, waiting)
    BY <1>1, <1>2 DEF SearchInv
  <2>3. Searched(f, list', waiting')
    BY <1>2, <1>3, <2>2 DEF Searched, semaphore
  <2>4. ASSUME NEW u \in Task, Seated(stack', u) PROVE Seated(stack, u)
    <3>1. u # Top.task
      BY <1>2, <1>3, <1>5, <2>4 DEF Seated
    <3>2. \A i \in 1 .. Len(stack) : stack[i].pc = "event" => i = Len(stack)
      BY <1>2, LastSearch
    <3> QED BY <1>2, <3>1, <3>2 DEF Seated
  <2>5. \A i \in 1 .. Len(stack') : Searched(stack'[i], list', waiting')
    BY <2>1, <2>3 DEF Searched
  <2> QED BY <1>1, <2>4, <2>5 DEF SearchInv, semaphore
<1> QED BY <1>6, <1>7, <1>8 DEF WaitInv

LEMMA CompareWaits ==
    ASSUME WaitInv, EventCompare
    PROVE  WaitInv'
<1> DEFINE t == Top.task
           pos == Top.pos
           next == EventNext(pos)
           found == Priority[t] > Priority[pos] /\ Contains(waiting, pos)
<1>1. DelayInv /\ SemTypes /\ SearchInv /\ waiting \in Seq(Task)
  BY TypesAre DEF WaitInv
<1>2. Executes("event") /\ UNCHANGED <<count, woken>>
  BY DEF EventCompare
<1>3. t \in Task /\ pos \in Task /\ Top.pc = "event" /\ Searched(Top, list, waiting)
  <2>1. /\ t \in Task /\ pos \in Task /\ Top.pc = "event" /\ stack # <<>>
        /\ Top = stack[Len(stack)]
    BY <1>1, <1>2, CompareBegins
  <2>2. Len(stack) \in 1 .. Len(stack)
    BY <1>1, <2>1, StackIs DEF DelayInv
  <2> QED BY <1>1, <2>1, <2>2 DEF SearchInv
<1>4. \A u \in Task : u # t /\ Before(waiting, u, pos) => Priority[u] >= Priority[t]
  BY <1>3 DEF Searched
<1>5. CASE found /\ EventPlaced(pos)
  <2>1. Fitting(t, pos)
    BY <1>3, <1>4, <1>5 DEF Fitting
  <2> QED BY <1>2, <1>5, <2>1, SearchEnds
<1>6. ASSUME ~found, NEW u \in Task, u # t, Contains(waiting, pos),
             u = pos \/ Before(waiting, u, pos)
      PROVE  Priority[u] >= Priority[t]
  BY <1>3, <1>4, <1>6, PrioritiesAre
<1>7. CASE ~found /\ next = NULL /\ EventPlaced(NULL)
  <2>1. \A u : Contains(waiting, u) => /\ Contains(waiting, pos)
                                       /\ u = pos \/ Before(waiting, u, pos)
    BY <1>1, <1>3, <1>7, EventNextIs, NullAssumption
  <2>2. Fitting(t, NULL)
    BY <1>6, <1>7, <2>1 DEF Fitting
  <2> QED BY <1>2, <1>7, <2>2, SearchEnds
<1>8. CASE /\ ~found /\ next # NULL
           /\ stack' = Replace([Top EXCEPT !.pos = next])
           /\ UNCHANGED <<tick, current, suspended, list, delay_until, sleep, waiting>>
  <2>1. /\ next \in Task
        /\ \A u : Before(waiting, u, next) => /\ Contains(waiting, pos)
                                              /\ u = pos \/ Before(waiting, u, pos)
    BY <1>1, <1>3, <1>8, EventNextIs
  <2>2. \A u \in Task : u # t /\ Before(waiting, u, next) => Priority[u] >= Priority[t]
    BY <1>6, <1>8, <2>1
  <2> HIDE DEF next
  <2> QED BY <1>2, <1>8, <2>1, <2>2, SearchGoesOn DEF semaphore
<1> QED BY <1>5, <1>7, <1>8 DEF EventCompare

-----------------------------------------------------------------------------
(* What Delay does.                                                          *)

LEMMA ResumeStepKeeps ==
    ASSUME WaitInv, NEW t \in Task, OtherResume(t)
    PROVE  WaitInv'
<1>1. DelayInv /\ SemTypes /\ WokenInv /\ waiting \in Seq(Task) /\ Injective(waiting)
  BY TypesAre DEF WaitInv
<1>2. /\ TaskResume(t) \/ (TickResume /\ Top.task = t)
      /\ waiting' = Without(waiting, t) /\ UNCHANGED <<count, woken>>
  BY DEF OtherResume, EventRemove
<1>3. DelayInv' /\ Resume(t) /\ SameSearches
  <2>1. CASE TaskResume(t)
    <3>1. DelayInv'
      BY <1>1, <2>1, ResumeKeeps DEF DelayInv
    <3> QED BY <2>1, <3>1, StackSearches DEF TaskResume
  <2>2. CASE TickResume /\ Top.task = t
    <3> DEFINE f == [Top EXCEPT !.task = NULL]
    <3>1. /\ stack # <<>> /\ InHandler(Top) /\ Top.task \in Task
          /\ f \in Frame /\ InHandler(f) /\ stack' = Append(Front(stack), f)
          /\ Resume(Top.task)
      BY <1>1, <2>2, TickResumeIs DEF DelayInv
    <3> HIDE DEF f
    <3>2. Top.pc # "event" /\ f.pc # "event"
      BY <3>1 DEF InHandler
    <3>3. SameSearches
      BY <1>1, <3>1, <3>2, ReplaceSearches
    <3>4. DelayInv'
      BY <1>1, <2>2, TickResumeKeeps DEF DelayInv
    <3> QED BY <2>2, <3>1, <3>3, <3>4
  <2> QED BY <1>2, <2>1, <2>2
<1>4. /\ waiting' \in Seq(Task) /\ Injective(waiting')
      /\ \A u \in Task : Contains(waiting', u) <=> u # t /\ Contains(waiting, u)
  <2>1. /\ Without(waiting, t) \in Seq(Task) /\ Injective(Without(waiting, t))
        /\ \A u \in Task : Contains(Without(waiting, t), u) <=> u # t /\ Contains(waiting, u)
    BY <1>1, WithoutIsRemoval DEF Contains
  <2> QED BY <1>2, <2>1
<1>5. Leave
  BY <1>1, <1>2, OrderWithout DEF Leave
<1>6. AsleepInv' /\ SearchInv'
  BY <1>3, <1>4, <1>5, ResumedWaits
<1>7. SemTypes'
  BY <1>1, <1>2, <1>4 DEF SemTypes
<1>8. WokenInv'
  BY <1>1, <1>2, <1>4, <1>7, WokenThin
<1> QED BY <1>3, <1>6, <1>7, <1>8 DEF WaitInv

\* Any other step of Delay: nobody awakes, and the searches are the same or
\* there is none.
LEMMA OtherKeeps ==
    ASSUME WaitInv, DelayInv', UNCHANGED semaphore,
           \A u \in Task : Asleep(u) => Asleep(u)',
           \/ Thinner(list', list) /\ SameSearches
           \/ NoSearch(stack) /\ NoSearch(stack')
    PROVE  WaitInv'
<1>1. SemTypes' /\ AsleepInv' /\ WokenInv'
  BY DEF WaitInv, SemTypes, AsleepInv, WokenInv, semaphore
<1>2. Leave
  BY LeaveReflexive DEF semaphore
<1>3. \A i \in 1 .. Len(stack') : FrameOK(stack'[i])
  BY DEF DelayInv, ListInv
<1>4. SearchInv'
  BY <1>2, <1>3, SearchThin, SearchNone DEF WaitInv
<1> QED BY <1>1, <1>4 DEF WaitInv

LEMMA SuspendStepKeeps ==
    ASSUME WaitInv, NEW t \in Task, OtherSuspend(t)
    PROVE  WaitInv'
<1>1. DelayInv /\ TaskSuspend(t) /\ UNCHANGED semaphore
  BY DEF WaitInv, OtherSuspend
<1>2. DelayInv'
  BY <1>1, SuspendKeeps DEF DelayInv
<1>3. suspended' = suspended \cup {t} /\ list' = Unlisted(t) /\ UNCHANGED stack
  BY <1>1 DEF TaskSuspend
<1>4. Thinner(list', list) /\ \A u \in Task : u # t /\ Asleep(u) => Asleep(u)'
  BY <1>1, <1>3, LeavesAsleep
<1>5. \A u \in Task : Asleep(u) => Asleep(u)'
  BY <1>3, <1>4 DEF Asleep
<1>6. SameSearches
  BY <1>3, StackSearches
<1> QED BY <1>1, <1>2, <1>4, <1>5, <1>6, OtherKeeps

\* A step that changes the stack only.
LEMMA FramesWait ==
    ASSUME WaitInv, DelayInv', UNCHANGED <<semaphore, suspended, list>>, SameSearches
    PROVE  WaitInv'
<1>1. \A u \in Task : Asleep(u) => Asleep(u)'
  BY DEF Asleep
<1>2. Thinner(list', list)
  BY ThinnerReflexive
<1> QED BY <1>1, <1>2, OtherKeeps

LEMMA KernelStepKeeps ==
    ASSUME WaitInv, KernelStep
    PROVE  WaitInv'
<1>1. DelayInv /\ UNCHANGED semaphore
  BY DEF WaitInv, KernelStep
<1>2. "run" \notin Locks /\ "read" \notin Locks /\ "scan" \in Locks
  BY DEF Locks, Searches
<1>3. ASSUME NEW t \in Task, TaskStart(t) PROVE WaitInv'
  <2> DEFINE f == TaskFrame(t)
  <2>1. /\ stack' = Append(stack, f) /\ f \in Frame /\ f.pc = "run"
        /\ UNCHANGED <<suspended, list>>
    BY <1>1, <1>2, <1>3, StartIs DEF DelayInv
  <2>2. DelayInv'
    BY <1>1, <1>2, <1>3, StartKeeps DEF DelayInv
  <2> HIDE DEF f
  <2>3. SameSearches
    BY <1>1, <2>1, PushSearches
  <2> QED BY <1>1, <2>1, <2>2, <2>3, FramesWait
<1>4. CASE TaskReturn
  <2>1. /\ stack # <<>> /\ Top.pc = "run" /\ stack' = Front(stack)
        /\ UNCHANGED <<suspended, list>>
    BY <1>4 DEF TaskReturn, Executes
  <2>2. DelayInv'
    BY <1>1, <1>4, ReturnKeeps DEF DelayInv
  <2>3. SameSearches
    BY <1>1, <2>1, PopSearches
  <2> QED BY <1>1, <2>1, <2>2, <2>3, FramesWait
<1>5. CASE ScanCompare
  <2>1. DelayInv'
    BY <1>1, <1>2, <1>5, ScanCompareKeeps DEF DelayInv
  <2> QED BY <1>1, <1>5, <2>1, ScanCompareWaits, OtherKeeps
<1>6. CASE TickInterrupt
  <2>1. DelayInv'
    BY <1>1, <1>6, TickKeeps DEF DelayInv
  <2>2. UNCHANGED <<suspended, list>>
    BY <1>6 DEF TickInterrupt
  <2>3. SameSearches
    BY <1>1, <1>6, TickSearches
  <2> QED BY <1>1, <2>1, <2>2, <2>3, FramesWait
<1>7. CASE TickLoop
  <2>1. DelayInv'
    BY <1>1, <1>7, TickLoopKeeps DEF DelayInv
  <2>2. /\ stack # <<>> /\ InHandler(Top) /\ UNCHANGED <<suspended, list>>
        /\ \/ stack' = Front(stack)
           \/ \E g : stack' = Append(Front(stack), g) /\ Found(g, Top, current)
    BY <1>1, <1>7, TickLoopIs DEF DelayInv
  <2>3. Top.pc # "event"
    BY <2>2 DEF InHandler
  <2>4. SameSearches
    <3>1. ASSUME NEW g, stack' = Append(Front(stack), g), Found(g, Top, current)
          PROVE  SameSearches
      <4>1. g \in Frame /\ g.pc # "event"
        BY <3>1 DEF Found, InHandler
      <4> QED BY <1>1, <2>2, <2>3, <3>1, <4>1, ReplaceSearches
    <3> QED BY <1>1, <2>2, <2>3, <3>1, PopSearches
  <2> QED BY <1>1, <2>1, <2>2, <2>4, FramesWait
<1> QED BY <1>3, <1>4, <1>5, <1>6, <1>7 DEF KernelStep

-----------------------------------------------------------------------------
(* The theorems.                                                             *)

LEMMA WaitInvInit == SemInit => WaitInv
<1> SUFFICES ASSUME SemInit PROVE WaitInv
  OBVIOUS
<1>1. Init /\ count = init_count /\ waiting = <<>> /\ woken = {}
  BY DEF SemInit
<1>2. DelayInv
  BY <1>1, DelayInvInit
<1>3. /\ waiting \in Seq(Task) /\ Len(waiting) = 0
      /\ \A a, b : ~Before(waiting, a, b)
  BY <1>1 DEF Before
<1>4. SemTypes
  BY <1>1, <1>3, CountAssumption, FS_EmptySet DEF SemTypes, Injective
<1>5. AsleepInv
  BY <1>3 DEF AsleepInv, Contains
<1>6. stack = <<>>
  BY <1>1 DEF Init
<1>7. SearchInv
  BY <1>3, <1>6 DEF SearchInv
<1>8. WokenInv
  BY <1>1 DEF WokenInv
<1> QED BY <1>2, <1>4, <1>5, <1>7, <1>8 DEF WaitInv

LEMMA WaitInvNext == WaitInv /\ [SemNext]_allVars => WaitInv'
<1> SUFFICES ASSUME WaitInv, [SemNext]_allVars PROVE WaitInv'
  OBVIOUS
<1>1. ASSUME NEW t \in Task \cup {NULL}, SemaphoreLock(t) PROVE WaitInv'
  BY <1>1, LockKeeps
<1>2. CASE SemaphoreUnlock
  BY <1>2, UnlockKeeps
<1>3. ASSUME NEW ticks \in Timeouts, SemaphoreSuspend(ticks) PROVE WaitInv'
  BY <1>3, SuspendWaits
<1>4. CASE EventCompare
  BY <1>4, CompareWaits
<1>5. ASSUME NEW t \in Task, OtherResume(t) PROVE WaitInv'
  BY <1>5, ResumeStepKeeps
<1>6. ASSUME NEW t \in Task, OtherSuspend(t) PROVE WaitInv'
  BY <1>6, SuspendStepKeeps
<1>7. CASE KernelStep
  BY <1>7, KernelStepKeeps
<1>8. CASE UNCHANGED allVars
  BY <1>8 DEF allVars, semaphore, vars, WaitInv, DelayInv, ListInv, DTypes, SemTypes,
              AsleepInv, Asleep, SearchInv, WokenInv
<1> QED BY <1>1, <1>2, <1>3, <1>4, <1>5, <1>6, <1>7, <1>8 DEF SemNext, WaitNext

\* The invariant of the waits holds, whatever unlocks, resumes, suspends and
\* ticks come in the middle of them, and with any timeouts.
THEOREM WaitInvariantHolds == SemSpec => []WaitInv
<1>1. SemInit => WaitInv
  BY WaitInvInit
<1>2. WaitInv /\ [SemNext]_allVars => WaitInv'
  BY WaitInvNext
<1> QED BY <1>1, <1>2, PTL DEF SemSpec

LEMMA SleepersAre ==
    ASSUME WaitInv
    PROVE  /\ TypeOK
           /\ \A t \in Task : t \in Sleeping <=> Listed(list, t)
           /\ DOMAIN stack = 1 .. Len(stack) /\ DOMAIN waiting = 1 .. Len(waiting)
           /\ \A i \in 1 .. Len(waiting) : waiting[i] \in Task /\ Contains(waiting, waiting[i])
<1>1. TypeOK
  BY TypesFollow DEF WaitInv, DelayInv, ListInv
<1>2. \A t \in Task : t \in Sleeping <=> Listed(list, t)
  BY OnListIs DEF WaitInv, DelayInv, ListInv, DTypes
<1>3. stack \in Seq(Frame) /\ waiting \in Seq(Task)
  BY TypesAre DEF WaitInv, DelayInv, ListInv, DTypes
<1> QED BY <1>1, <1>2, <1>3 DEF Contains

\* The variables have their types.
THEOREM SemTypesHold == SemSpec => []SemTypeOK
<1>1. WaitInv => SemTypeOK
  BY SleepersAre DEF WaitInv, SemTypes, SemTypeOK
<1> QED BY <1>1, WaitInvariantHolds, PTL

\* Who is on the event list is suspended or sleeps, and is there once: what
\* resumes a task takes it off the list (lines 599-600).
THEOREM WaitersSleep == SemSpec => []WaitersAsleep
<1>1. ASSUME WaitInv PROVE WaitersAsleep
  <2>1. Injective(waiting) /\ waiting \in Seq(Task) /\ AsleepInv
    BY <1>1 DEF WaitInv, SemTypes
  <2>2. ASSUME NEW t \in ToSet(waiting) PROVE t \notin Ready
    <3>1. t \in Task /\ Contains(waiting, t)
      BY <2>1, <2>2, WaitersAre
    <3> QED BY <1>1, <2>1, <3>1, SleepersAre DEF AsleepInv, Asleep, Ready
  <2> QED BY <1>1, <2>1, <2>2, SleepersAre DEF WaitersAsleep, Injective
<1> QED BY <1>1, WaitInvariantHolds, PTL

\* The waiters are sorted by priority, although tasks leave the list while
\* another searches it for its place (lines 937-967).
THEOREM WaitersStaySorted == SemSpec => []WaitersSorted
<1>1. ASSUME WaitInv PROVE WaitersSorted
  <2>1. /\ DOMAIN stack = 1 .. Len(stack) /\ DOMAIN waiting = 1 .. Len(waiting)
        /\ \A i \in 1 .. Len(waiting) : waiting[i] \in Task
    BY <1>1, SleepersAre
  <2>2. \A t : Placed(t) => Seated(stack, t)
    BY <2>1 DEF Placed, Seated
  <2>3. ASSUME NEW i \in DOMAIN waiting, NEW j \in DOMAIN waiting, i < j,
               Placed(waiting[i]), Placed(waiting[j])
        PROVE  Priority[waiting[i]] >= Priority[waiting[j]]
    <3>1. Before(waiting, waiting[i], waiting[j])
      BY <2>1, <2>3 DEF Before
    <3> QED BY <1>1, <2>1, <2>2, <2>3, <3>1 DEF WaitInv, SearchInv
  <2> QED BY <2>3 DEF WaitersSorted
<1> QED BY <1>1, WaitInvariantHolds, PTL

-----------------------------------------------------------------------------
(* Waits for ever.                                                           *)

\* Without timeouts nobody is on a delayed list, and no task delays itself.
ForeverInv ==
    /\ \A t \in Task : ~Listed(list, t)
    /\ \A i \in 1 .. Len(stack) :
          /\ stack[i].pc # "scan"
          /\ stack[i].pc = "event" => stack[i].ticks = MAX_DELAY

\* The frames stay, but for one at most.
LEMMA ForeverFrames ==
    ASSUME ForeverInv, Thinner(list', list), NEW f, FromFrames(stack', stack, f),
           f.pc \notin Searches \/ (f.pc = "event" /\ f.ticks = MAX_DELAY)
    PROVE  ForeverInv'
<1>1. \A t \in Task : ~Listed(list', t)
  BY DEF ForeverInv, Listed, Thinner
<1>2. MAX_DELAY' = MAX_DELAY
  BY DEF MAX_DELAY
<1>3. ASSUME NEW i \in 1 .. Len(stack')
      PROVE  /\ stack'[i].pc # "scan"
             /\ stack'[i].pc = "event" => stack'[i].ticks = MAX_DELAY
  BY DEF ForeverInv, FromFrames, Searches
<1> QED BY <1>1, <1>2, <1>3 DEF ForeverInv

\* task_resume() and task_suspend() of t.
LEMMA ForeverLeaves ==
    ASSUME DelayInv, ForeverInv, NEW t \in Task, Resume(t) \/ TaskSuspend(t),
           NEW f, FromFrames(stack', stack, f),
           f.pc \notin Searches \/ (f.pc = "event" /\ f.ticks = MAX_DELAY)
    PROVE  ForeverInv'
<1>1. Thinner(list', list)
  BY LeavingIs DEF DelayInv, Leaves, Resume, TaskSuspend
<1> QED BY <1>1, ForeverFrames

LEMMA FramesAre ==
    ASSUME DelayInv
    PROVE  /\ \A f : FromFrames(stack, stack, f)
           /\ \A g \in Frame : FromFrames(Append(stack, g), stack, g)
           /\ stack # <<>> =>
                 /\ \A f : FromFrames(Front(stack), stack, f)
                 /\ \A g \in Frame : FromFrames(Append(Front(stack), g), stack, g)
<1>1. stack \in Seq(Frame) /\ Nested(stack, Locks) /\ Nested(stack, {})
  BY DEF DelayInv, ListInv, DTypes, Nested
<1>2. \A f : FromFrames(stack, stack, f)
  BY DEF FromFrames
<1>3. ASSUME NEW g \in Frame PROVE FromFrames(Append(stack, g), stack, g)
  BY <1>1, PushIs
<1>4. ASSUME stack # <<>> PROVE \A f : FromFrames(Front(stack), stack, f)
  BY <1>1, <1>4, PopIs
<1>5. ASSUME stack # <<>>, NEW g \in Frame
      PROVE  FromFrames(Append(Front(stack), g), stack, g)
  BY <1>5, FrontIs DEF FromFrames, DelayInv
<1> QED BY <1>2, <1>3, <1>4, <1>5

\* The delayed lists stay empty.
LEMMA ForeverKernelStep ==
    ASSUME WaitInv, ForeverInv, KernelStep
    PROVE  ForeverInv'
<1>1. DelayInv /\ "run" \notin Searches /\ "run" \notin Locks /\ "read" \notin Locks
  BY DEF WaitInv, Locks, Searches
<1>2. ASSUME UNCHANGED list, NEW g \in Frame, g.pc \notin Searches,
             \/ stack' = Append(stack, g)
             \/ stack # <<>> /\ stack' = Front(stack)
             \/ stack # <<>> /\ stack' = Append(Front(stack), g)
      PROVE  ForeverInv'
  <2>1. FromFrames(stack', stack, g)
    BY <1>1, <1>2, FramesAre
  <2> QED BY <1>2, <2>1, ThinnerReflexive, ForeverFrames
<1>3. ASSUME NEW t \in Task, TaskStart(t) PROVE ForeverInv'
  <2>1. /\ stack' = Append(stack, TaskFrame(t)) /\ UNCHANGED list
        /\ TaskFrame(t) \in Frame /\ TaskFrame(t).pc = "run"
    BY <1>1, <1>3, StartIs DEF DelayInv
  <2> QED BY <1>1, <1>2, <2>1
<1>4. CASE TaskReturn
  <2>1. stack # <<>> /\ Top.pc = "run" /\ stack' = Front(stack) /\ UNCHANGED list
    BY <1>4 DEF TaskReturn, Executes
  <2>2. Top \in Frame
    BY <1>1, <2>1, StackIs DEF DelayInv
  <2> QED BY <1>1, <1>2, <2>1, <2>2
<1>5. CASE ScanCompare
  <2>1. stack # <<>> /\ Top.pc = "scan"
    BY <1>5 DEF ScanCompare, Executes
  <2>2. Len(stack) \in 1 .. Len(stack) /\ Top = stack[Len(stack)]
    BY <1>1, <2>1, StackIs DEF DelayInv
  <2> QED BY <2>1, <2>2 DEF ForeverInv
<1>6. CASE TickInterrupt
  <2>1. /\ \A i \in 1 .. Len(stack) :
              i \in 1 .. Len(stack') /\ stack'[i] = TickedFrame(stack[i], tick')
        /\ \/ Len(stack') = Len(stack)
           \/ /\ Len(stack') = Len(stack) + 1
              /\ Found(stack'[Len(stack) + 1], TickHandler(tick'), current')
    BY <1>1, <1>6, TickedStackIs DEF DelayInv
  <2>2. Len(stack) \in Nat /\ \A i \in 1 .. Len(stack) : stack[i] \in Frame
    BY <1>1 DEF DelayInv, ListInv, DTypes
  <2>3. ASSUME NEW i \in 1 .. Len(stack)
        PROVE  stack'[i].pc = stack[i].pc /\ stack'[i].ticks = stack[i].ticks
    <3>1. stack'[i] = TickedFrame(stack[i], tick') /\ stack[i] \in Frame
      BY <2>1, <2>2
    <3>2. \A f \in Frame : TickedFrame(f, tick').ticks = f.ticks
      BY DEF TickedFrame, Elapse, Frame
    <3> QED BY <3>1, <3>2, TickedFrameIs
  <2>4. \A f : Found(f, TickHandler(tick'), current') => f.pc \notin Searches
    BY DEF Found, InHandler, Searches
  <2>5. ASSUME NEW i \in 1 .. Len(stack')
        PROVE  /\ stack'[i].pc # "scan"
               /\ stack'[i].pc = "event" => stack'[i].ticks = MAX_DELAY
    <3>1. CASE i \in 1 .. Len(stack)
      BY <2>3, <3>1 DEF ForeverInv
    <3>2. CASE i \notin 1 .. Len(stack)
      <4>1. stack'[i].pc \notin Searches
        BY <2>1, <2>2, <2>4, <3>2
      <4> QED BY <4>1 DEF Searches
    <3> QED BY <3>1, <3>2
  <2>6. UNCHANGED list /\ MAX_DELAY' = MAX_DELAY
    BY <1>6 DEF TickInterrupt, MAX_DELAY
  <2> QED BY <2>5, <2>6 DEF ForeverInv
<1>7. CASE TickLoop
  <2>1. /\ stack # <<>> /\ InHandler(Top) /\ UNCHANGED list
        /\ \/ stack' = Front(stack)
           \/ \E g : stack' = Append(Front(stack), g) /\ Found(g, Top, current)
    BY <1>1, <1>7, TickLoopIs DEF DelayInv
  <2>2. Top \in Frame /\ Top.pc \notin Searches
    BY <1>1, <2>1, StackIs DEF DelayInv, InHandler, Searches
  <2>3. \A g : Found(g, Top, current) => g \in Frame /\ g.pc \notin Searches
    BY DEF Found, InHandler, Searches
  <2> QED BY <1>2, <2>1, <2>2, <2>3
<1> QED BY <1>3, <1>4, <1>5, <1>6, <1>7 DEF KernelStep

\* A wait ends with its search.
LEMMA ForeverCompare ==
    ASSUME WaitInv, ForeverInv, EventCompare
    PROVE  /\ ForeverInv'
           /\ UNCHANGED <<tick, current, suspended, list, delay_until, sleep>>
<1>1. DelayInv /\ Executes("event")
  BY DEF WaitInv, EventCompare
<1>2. /\ stack # <<>> /\ Top.pc = "event" /\ Top \in Frame /\ Top.task \in Task
      /\ Top = stack[Len(stack)] /\ Top.pos \in Task
  BY <1>1, CompareBegins
<1>3. Len(stack) \in 1 .. Len(stack)
  BY <1>1, <1>2, StackIs DEF DelayInv
<1>4. Top.ticks = MAX_DELAY
  BY <1>2, <1>3 DEF ForeverInv
<1>5. ASSUME UNCHANGED <<tick, current, suspended, list, delay_until, sleep>>,
             NEW g \in Frame, g.pc \notin Searches \/ (g.pc = "event" /\ g.ticks = MAX_DELAY),
             stack' = Replace(g)
      PROVE  ForeverInv'
  <2>1. FromFrames(stack', stack, g)
    BY <1>1, <1>2, <1>5, FramesAre DEF Replace
  <2> QED BY <1>5, <2>1, ThinnerReflexive, ForeverFrames
<1>6. ASSUME NEW pos, EventPlaced(pos)
      PROVE  /\ ForeverInv'
             /\ UNCHANGED <<tick, current, suspended, list, delay_until, sleep>>
  <2>1. /\ stack' = Replace(TaskFrame(Top.task))
        /\ UNCHANGED <<tick, current, suspended, list, delay_until, sleep>>
    BY <1>4, <1>6 DEF EventPlaced
  <2>2. TaskFrame(Top.task) \in Frame /\ TaskFrame(Top.task).pc \notin Searches
    BY <1>2, FrameTypes DEF Searches
  <2> QED BY <1>5, <2>1, <2>2
<1>7. ASSUME NEW next, next # NULL, next = EventNext(Top.pos),
             stack' = Replace([Top EXCEPT !.pos = next]),
             UNCHANGED <<tick, current, suspended, list, delay_until, sleep>>
      PROVE  ForeverInv'
  <2> DEFINE g == [Top EXCEPT !.pos = next]
  <2>1. next \in Task
    BY <1>2, <1>7, EventNextIs DEF WaitInv
  <2>2. g \in Frame /\ g.pc = "event" /\ g.ticks = MAX_DELAY
    BY <1>2, <1>4, <2>1 DEF Frame
  <2>3. stack' = Replace(g)
    BY <1>7
  <2> HIDE DEF g
  <2> QED BY <1>5, <1>7, <2>2, <2>3
<1> QED BY <1>6, <1>7 DEF EventCompare

LEMMA ForeverInvInit == SemInit => ForeverInv
<1> SUFFICES ASSUME SemInit PROVE ForeverInv
  OBVIOUS
<1>1. list = [l \in Delayed |-> <<>>] /\ stack = <<>>
  BY DEF SemInit, Init
<1>2. \A l \in Delayed : \A t : ~Contains(list[l], t)
  BY <1>1 DEF Contains
<1> QED BY <1>1, <1>2 DEF ForeverInv, Listed

LEMMA ForeverWait ==
    ASSUME Timeouts \subseteq {MAX_DELAY}, WaitInv, ForeverInv,
           NEW ticks \in Timeouts, SemaphoreSuspend(ticks)
    PROVE  ForeverInv'
<1> DEFINE t == Top.task
           f == [Top EXCEPT !.pc = "event", !.ticks = ticks, !.pos = Head(waiting')]
<1>1. DelayInv /\ SemTypes
  BY DEF WaitInv
<1>2. /\ stack # <<>> /\ t \in Task /\ f \in Frame /\ f.pc = "event" /\ f.ticks = ticks
      /\ stack' = Append(Front(stack), f)
  BY <1>1, WaitBegins
<1>3. suspended' = suspended \cup {t} /\ list' = Unlisted(t)
  BY DEF SemaphoreSuspend
<1> HIDE DEF f, t
<1>4. FromFrames(stack', stack, f)
  BY <1>1, <1>2, FramesAre
<1>5. Thinner(list', list)
  BY <1>1, <1>2, <1>3, LeavesAsleep
<1> QED BY <1>2, <1>4, <1>5, ForeverFrames

LEMMA ForeverResume ==
    ASSUME WaitInv, ForeverInv, NEW t \in Task,
           TaskResume(t) \/ TaskSuspend(t) \/ (TickResume /\ Top.task = t)
    PROVE  ForeverInv'
<1>1. DelayInv
  BY DEF WaitInv
<1>2. CASE TaskResume(t) \/ TaskSuspend(t)
  <2>1. UNCHANGED stack /\ (Resume(t) \/ TaskSuspend(t))
    BY <1>2 DEF TaskResume, TaskSuspend
  <2>2. TaskFrame(t).pc \notin Searches /\ FromFrames(stack', stack, TaskFrame(t))
    BY <1>1, <2>1, FrameTypes, FramesAre DEF Searches
  <2> QED BY <1>1, <2>1, <2>2, ForeverLeaves
<1>3. CASE TickResume /\ Top.task = t
  <2> DEFINE f == [Top EXCEPT !.task = NULL]
  <2>1. /\ stack # <<>> /\ f \in Frame /\ InHandler(f) /\ stack' = Append(Front(stack), f)
        /\ Resume(t)
    BY <1>1, <1>3, TickResumeIs DEF DelayInv
  <2> HIDE DEF f
  <2>2. f.pc \notin Searches /\ FromFrames(stack', stack, f)
    BY <1>1, <2>1, FramesAre DEF InHandler, Searches
  <2> QED BY <1>1, <2>1, <2>2, ForeverLeaves
<1> QED BY <1>2, <1>3

LEMMA ForeverInvNext ==
    ASSUME Timeouts \subseteq {MAX_DELAY}
    PROVE  WaitInv /\ ForeverInv /\ [SemNext]_allVars => ForeverInv'
<1> SUFFICES ASSUME WaitInv, ForeverInv, [SemNext]_allVars PROVE ForeverInv'
  OBVIOUS
<1>1. CASE UNCHANGED vars
  BY <1>1 DEF vars, ForeverInv, MAX_DELAY
<1>2. CASE SemaphoreUnlock
  BY <1>1, <1>2, UnlockIs, ForeverResume DEF WaitInv
<1>3. ASSUME NEW ticks \in Timeouts, SemaphoreSuspend(ticks) PROVE ForeverInv'
  BY <1>3, ForeverWait
<1>4. CASE EventCompare
  BY <1>4, ForeverCompare
<1>5. ASSUME NEW t \in Task, OtherResume(t) \/ OtherSuspend(t) PROVE ForeverInv'
  BY <1>5, ForeverResume DEF OtherResume, OtherSuspend
<1>6. CASE KernelStep
  BY <1>6, ForeverKernelStep
<1> QED BY <1>1, <1>2, <1>3, <1>4, <1>5, <1>6 DEF SemNext, WaitNext, SemaphoreLock, allVars

\* No unlock is lost while tasks wait for ever: as many of the tasks it woke
\* as the semaphore can be locked times are neither back on the event list nor
\* asleep on a delayed list (lines 1112-1118, 1163-1165).
THEOREM UnlocksAreNotLost ==
    ASSUME Timeouts \subseteq {MAX_DELAY}
    PROVE  SemSpec => []NoLostUnlock
<1>1. WaitInv /\ ForeverInv => NoLostUnlock
  <2> SUFFICES ASSUME WaitInv, ForeverInv PROVE NoLostUnlock
    OBVIOUS
  <2>1. Sleeping = {}
    BY SleepersAre DEF ForeverInv, Sleeping
  <2>2. woken \ (ToSet(waiting) \cup Sleeping) = woken \ ToSet(waiting)
    BY <2>1
  <2> QED BY <2>2 DEF WaitInv, WokenInv, NoLostUnlock
<1>2. WaitInv /\ ForeverInv /\ [SemNext]_allVars => ForeverInv'
  BY ForeverInvNext
<1> QED BY <1>1, <1>2, ForeverInvInit, WaitInvariantHolds, PTL DEF SemSpec

LEMMA ReadyIs ==
    ASSUME WaitInv
    PROVE  \A t \in Task : t \in Ready <=> ~Asleep(t)
BY SleepersAre DEF Ready, Asleep

LEMMA ReadyThen ==
    ASSUME WaitInv'
    PROVE  \A t \in Task : t \in Ready' <=> ~Asleep(t)'
<1>1. list' \in [Delayed -> Seq(Task)]
  BY DEF WaitInv, DelayInv, ListInv, DTypes, Lists
<1>2. ASSUME NEW t \in Task, NEW l \in Delayed
      PROVE  OnList(t, l)' <=> Contains(list'[l], t)
  BY <1>1, WaitersAre DEF OnList
<1> QED BY <1>2 DEF Ready, Sleeping, Asleep, Listed

\* A task that is resumed in the middle of a wait for ever is not suspended
\* again by that wait (lines 1001-1014).
THEOREM WaitsKeepResumes ==
    ASSUME Timeouts \subseteq {MAX_DELAY}
    PROVE  SemSpec => WaitResumeKept
<1> DEFINE Step ==
      \A t \in Ready :
          t \notin Ready' =>
             OtherSuspend(t)
             \/ (Top.task = t /\ \E ticks \in Timeouts : SemaphoreSuspend(ticks))
<1>1. WaitInv /\ ForeverInv /\ [SemNext]_allVars => [Step]_allVars
  <2> SUFFICES ASSUME WaitInv, ForeverInv, SemNext, NEW t \in Ready, t \notin Ready'
               PROVE  OtherSuspend(t)
                      \/ (Top.task = t /\ \E ticks \in Timeouts : SemaphoreSuspend(ticks))
    OBVIOUS
  <2>1. WaitInv' /\ DelayInv /\ SemTypes
    BY WaitInvNext DEF WaitInv
  <2>2. t \in Task /\ ~Asleep(t) /\ Asleep(t)'
    BY <2>1, ReadyIs, ReadyThen DEF Ready
  <2>3. ~UNCHANGED <<suspended, list>>
    BY <2>2 DEF Asleep
  <2>4. ASSUME NEW u \in Task, Resume(u) PROVE FALSE
    BY <2>1, <2>2, <2>4, LeavingIs DEF Leaves, Resume, Asleep, Listed, Thinner, DelayInv
  <2>5. CASE SemaphoreUnlock
    BY <2>1, <2>3, <2>4, <2>5, UnlockIs DEF TaskResume, vars
  <2>6. ASSUME NEW ticks \in Timeouts, SemaphoreSuspend(ticks) PROVE Top.task = t
    <3>1. Top.task \in Task
      BY <2>1, <2>6, WaitBegins
    <3>2. suspended' = suspended \cup {Top.task} /\ list' = Unlisted(Top.task)
      BY <2>6 DEF SemaphoreSuspend
    <3>3. Thinner(list', list)
      BY <2>1, <3>1, <3>2, LeavesAsleep
    <3> QED BY <2>2, <3>2, <3>3 DEF Asleep, Listed, Thinner
  <2>7. CASE EventCompare
    BY <2>3, <2>7, ForeverCompare
  <2>8. ASSUME NEW u \in Task, OtherResume(u) PROVE FALSE
    BY <2>1, <2>4, <2>8, TickResumeIs DEF OtherResume, TaskResume, DelayInv
  <2>9. ASSUME NEW u \in Task, OtherSuspend(u) PROVE u = t
    <3>1. TaskSuspend(u) /\ suspended' = suspended \cup {u}
      BY <2>9 DEF OtherSuspend, TaskSuspend
    <3>2. Thinner(list', list)
      BY <2>1, <3>1, LeavingIs DEF DelayInv, Leaves, TaskSuspend
    <3> QED BY <2>2, <3>1, <3>2 DEF Asleep, Listed, Thinner
  <2>10. CASE KernelStep
    <3>1. ~ScanCompare
      <4> SUFFICES ASSUME ScanCompare PROVE FALSE
        OBVIOUS
      <4>1. stack # <<>> /\ Top.pc = "scan"
        BY DEF ScanCompare, Executes
      <4>2. Len(stack) \in 1 .. Len(stack) /\ Top = stack[Len(stack)]
        BY <2>1, <4>1, StackIs DEF DelayInv
      <4> QED BY <4>1, <4>2 DEF ForeverInv
    <3>2. UNCHANGED <<suspended, list>>
      BY <2>10, <3>1 DEF KernelStep, TaskStart, TaskReturn, TickInterrupt, TickLoop
    <3> QED BY <2>3, <3>2
  <2>11. \A u : SemaphoreLock(u) => UNCHANGED <<suspended, list>>
    BY DEF SemaphoreLock, vars
  <2> QED BY <2>3, <2>5, <2>6, <2>7, <2>8, <2>9, <2>10, <2>11 DEF SemNext, WaitNext
<1>2. WaitInv /\ ForeverInv /\ [SemNext]_allVars => ForeverInv'
  BY ForeverInvNext
<1>3. SemSpec => [][Step]_allVars
  BY <1>1, <1>2, ForeverInvInit, WaitInvariantHolds, PTL DEF SemSpec
<1> QED BY <1>3 DEF WaitResumeKept

-----------------------------------------------------------------------------
(* A queue's event list, and its ring.                                       *)

\* Each step of the queue is a step of the semaphore.
LEMMA QueueStepIs == [QueueNext]_queueVars => [SemNext]_allVars
<1>1. ASSUME NEW t \in Task \cup {NULL}, QueueRead(t) PROVE SemNext
  BY <1>1 DEF QueueRead, SemNext
<1>2. ASSUME NEW d \in Item, QueueWrite(d) PROVE SemNext
  BY <1>2 DEF QueueWrite, SemNext
<1>3. CASE QueueOther
  BY <1>3 DEF QueueOther, SemNext
<1>4. CASE UNCHANGED queueVars
  BY <1>4 DEF queueVars
<1> QED BY <1>1, <1>2, <1>3, <1>4 DEF QueueNext

\* A queue that tasks wait for is used as a semaphore is: what is proved of
\* the waits above holds of queue_suspend() and queue_write().
THEOREM QueueIsSemaphore == QueueSpec => SemSpec
<1>1. QueueInit => SemInit
  BY DEF QueueInit
<1> QED BY <1>1, QueueStepIs, PTL DEF QueueSpec, SemSpec

\* Each step is one of the ring too, with count for used: a read of an empty
\* queue, and a wait, leave it alone.
LEMMA WaitStepKeepsCount ==
    ASSUME WaitNext
    PROVE  UNCHANGED count
BY DEF WaitNext, SemaphoreSuspend, EventCompare, OtherResume, OtherSuspend, KernelStep, semaphore

THEOREM QueueIsRing == QueueSpec => Ring!Spec
<1>1. QueueInit => Ring!Init
  BY CreatedEmpty DEF QueueInit, SemInit, Ring!Init
<1>2. [QueueNext]_queueVars => [Ring!Next]_(Ring!vars)
  <2>1. ASSUME NEW t \in Task \cup {NULL}, QueueRead(t)
        PROVE  Ring!Read \/ UNCHANGED Ring!vars
    BY <2>1 DEF QueueRead, SemaphoreLock, ring, Ring!vars
  <2>2. ASSUME NEW d \in Item, QueueWrite(d) PROVE Ring!Next
    BY <2>2 DEF QueueWrite, Ring!Next
  <2>3. CASE QueueOther
    BY <2>3, WaitStepKeepsCount DEF QueueOther, ring, Ring!vars
  <2>4. CASE UNCHANGED queueVars
    BY <2>4 DEF queueVars, allVars, semaphore, ring, Ring!vars
  <2> QED BY <2>1, <2>2, <2>3, <2>4 DEF QueueNext, Ring!Next
<1> QED BY <1>1, <1>2, PTL DEF QueueSpec, Ring!Spec

\* No item is stranded in the queue while tasks wait to read it, whatever
\* their timeouts are: for each item another task was woken (line 1460).
THEOREM NoItemIsStranded == QueueSpec => []NoItemStranded
<1>1. ASSUME WaitInv PROVE NoItemStranded
  <2> DEFINE S == {Ring!Items[i] : i \in 1 .. count}
  <2>1. count \in Nat
    BY <1>1, TypesAre DEF WaitInv
  <2>2. Ring!Items \in [1 .. count -> S]
    BY DEF Ring!Items
  <2> HIDE DEF S
  <2>3. Len(Ring!Items) = count
    BY <2>1, <2>2
  <2> QED BY <1>1, <2>3 DEF WaitInv, WokenInv, NoItemStranded
<1> QED BY <1>1, QueueIsSemaphore, WaitInvariantHolds, PTL

RingProofs == INSTANCE QueueProofs WITH que_size <- max, used <- count

\* A queue with tasks that wait is a bounded FIFO still: whatever happens in
\* the middle of a queue_suspend(), no item is lost, read twice, overwritten
\* or read out of order (lines 1415-1469).
THEOREM QueueInUseIsFifo ==
    ASSUME max \in 1 .. 255, item_size \in 1 .. 255
    PROVE  QueueSpec => Ring!ImplementsFifo
<1>1. RingProofs!Spec => RingProofs!ImplementsFifo
  BY RingProofs!QueueIsFifo
<1>2. Ring!Init => RingProofs!Init
  <2>1. RingProofs!Offset = Ring!Offset
    BY DEF Ring!Offset, RingProofs!Offset, Ring!Slot, RingProofs!Slot, Ring!OffsetOf,
           RingProofs!OffsetOf
  <2>2. RingProofs!UInt16(max * item_size) = Ring!UInt16(max * item_size)
    BY DEF Ring!UInt16, RingProofs!UInt16
  <2> QED BY <2>1, <2>2 DEF Ring!Init, RingProofs!Init
<1>3. [Ring!Next]_(Ring!vars) => [RingProofs!Next]_(RingProofs!vars)
  BY DEF Ring!Next, RingProofs!Next, Ring!vars, RingProofs!vars, Ring!Read, RingProofs!Read,
         Ring!Write, RingProofs!Write, Ring!Advance, RingProofs!Advance,
         Ring!UInt8, RingProofs!UInt8, Ring!UInt16, RingProofs!UInt16
<1>4. RingProofs!Items = Ring!Items /\ RingProofs!Items' = Ring!Items'
  BY DEF RingProofs!Items, Ring!Items, Ring!TailSlot, RingProofs!TailSlot, Ring!Wrap,
         RingProofs!Wrap, Ring!OffsetOf, RingProofs!OffsetOf, Ring!Slot, RingProofs!Slot
<1>5. RingProofs!Fifo!Init => Ring!Fifo!Init
  BY <1>4 DEF RingProofs!Fifo!Init, Ring!Fifo!Init
<1>6. [RingProofs!Fifo!Next]_(RingProofs!Fifo!vars) => [Ring!Fifo!Next]_(Ring!Fifo!vars)
  BY <1>4 DEF RingProofs!Fifo!Next, Ring!Fifo!Next, RingProofs!Fifo!Read, Ring!Fifo!Read,
              RingProofs!Fifo!Write, Ring!Fifo!Write, RingProofs!Fifo!vars, Ring!Fifo!vars
<1> QED BY <1>1, <1>2, <1>3, <1>5, <1>6, QueueIsRing, PTL
        DEF Ring!Spec, RingProofs!Spec, Ring!ImplementsFifo, RingProofs!ImplementsFifo,
            RingProofs!Fifo!Spec, Ring!Fifo!Spec
=============================================================================
