---------------------------- MODULE DelayProofs ----------------------------
(***************************************************************************)
(* Proofs about Delay: the delayed lists through scans and ticks.          *)
(*                                                                         *)
(* ListInv is the inductive invariant of the lists: a scan of              *)
(* delay_find_tick_position() has only passed tasks that wake up no later  *)
(* than its own, and only handlers, which put nobody on a list, come       *)
(* between its steps.  The tasks that leave meanwhile take nothing away    *)
(* from that (Thinner).  TimeInv bounds the ticks left of each delay from  *)
(* above by the ticks until its list is emptied, LateInv from below.       *)
(***************************************************************************)
EXTENDS Delay, TaskListProofs

-----------------------------------------------------------------------------
(* The lists and the scans of them.                                          *)

Lists == [Delayed -> Seq(Task)]
Listed(ls, t) == \E l \in Delayed : Contains(ls[l], t)

\* A task is on one list, once.
OneOn(ls) ==
    /\ \A l \in Delayed : Injective(ls[l])
    /\ \A k, l \in Delayed, t \in Task :
          Contains(ls[k], t) /\ Contains(ls[l], t) => k = l

\* SortedByTick of any lists.
ByTick(ls, until) ==
    \A l \in Delayed, t, u \in Task : Before(ls[l], t, u) => until[t] <= until[u]

\* Nobody was added to the lists, and the order stayed.
Thinner(new, old) ==
    \A l \in Delayed, t, u \in Task :
        /\ Contains(new[l], t) => Contains(old[l], t)
        /\ Before(new[l], t, u) => Before(old[l], t, u)

DTypes ==
    /\ tick \in Tick
    /\ current \in Delayed
    /\ suspended \subseteq Task
    /\ list \in Lists
    /\ delay_until \in [Task -> Tick]
    /\ stack \in Seq(Frame)
    /\ sleep \in [Task -> Sleep]
    /\ \A t \in suspended : ~Listed(list, t)
    /\ OneOn(list)

\* What is true of a frame by itself.
FrameOK(f) ==
    /\ InHandler(f) \/ f.task \in Task
    /\ f.pc \in {"scan", "event"} => f.pos \in Task
    /\ f.pc = "overflow" => f.now = 0
    /\ InHandler(f) => ~f.timer

\* Only handlers are above a frame whose pc is in H: of the pcs that hold the
\* scheduler lock, or that a handler has.
Searches == {"scan", "event"}
Locks == Searches \cup {"overflow", "current"}
Nested(s, H) ==
    \A i, j \in 1 .. Len(s) : i < j /\ s[i].pc \in H => InHandler(s[j])

\* The task of a scan is on no list, and what the scan has passed wakes up no
\* later, however tasks leave meanwhile.
Scanned(f, ls, until) ==
    f.pc = "scan" =>
        /\ ~Listed(ls, f.task)
        /\ until[f.task] = f.wakeup
        /\ \A t \in Task : Before(ls[f.list], t, f.pos) => until[t] <= f.wakeup
        /\ Contains(ls[f.list], f.pos) => f.pos_tick = until[f.pos]

ListInv(H) ==
    /\ DTypes
    /\ \A i \in 1 .. Len(stack) : /\ FrameOK(stack[i])
                                  /\ Scanned(stack[i], list, delay_until)
    /\ Nested(stack, H)
    /\ ByTick(list, delay_until)

-----------------------------------------------------------------------------
(* The stack.                                                                *)

FromFrames(new, s, f) ==
    \A i \in 1 .. Len(new) : new[i] = f \/ \E j \in 1 .. Len(s) : new[i] = s[j]

\* The frames under the top of s are still there.
Keeps(new, s) == \A i \in 1 .. Len(s) - 1 : i \in 1 .. Len(new) /\ new[i] = s[i]

LEMMA TopIs ==
    ASSUME NEW s \in Seq(Frame), s # <<>>
    PROVE  /\ Len(s) \in Nat /\ Len(s) \in 1 .. Len(s)
           /\ Last(s) = s[Len(s)] /\ Last(s) \in Frame
BY DEF Last

LEMMA PopIs ==
    ASSUME NEW s \in Seq(Frame), s # <<>>, NEW H, Nested(s, H)
    PROVE  /\ Front(s) \in Seq(Frame) /\ Nested(Front(s), H)
           /\ Len(Front(s)) = Len(s) - 1
           /\ \A i \in 1 .. Len(s) - 1 : Front(s)[i] = s[i]
           /\ \A f : FromFrames(Front(s), s, f)
           /\ Keeps(Front(s), s)
<1> DEFINE r == Front(s)
<1>1. /\ r \in Seq(Frame) /\ Len(r) = Len(s) - 1 /\ Len(s) \in Nat /\ Len(s) >= 1
      /\ \A i \in 1 .. Len(s) - 1 : r[i] = s[i]
  BY DEF Front
<1> HIDE DEF r
<1>2. \A i \in 1 .. Len(r) : i \in 1 .. Len(s) /\ r[i] = s[i]
  BY <1>1
<1>3. Nested(r, H)
  BY <1>2 DEF Nested
<1>4. (\A f : FromFrames(r, s, f)) /\ Keeps(r, s)
  BY <1>1, <1>2 DEF FromFrames, Keeps
<1> QED BY <1>1, <1>3, <1>4 DEF r

LEMMA ReplaceIs ==
    ASSUME NEW s \in Seq(Frame), s # <<>>, NEW H, Nested(s, H),
           NEW f \in Frame, InHandler(Last(s)) => InHandler(f)
    PROVE  LET r == Append(Front(s), f)
           IN  /\ r \in Seq(Frame) /\ Nested(r, H)
               /\ Len(r) = Len(s) /\ r # <<>> /\ Last(r) = f /\ r[Len(s)] = f
               /\ FromFrames(r, s, f) /\ Keeps(r, s)
<1> DEFINE g == Front(s)
<1>1. /\ g \in Seq(Frame) /\ Len(g) = Len(s) - 1 /\ Len(s) \in Nat /\ Len(s) >= 1
      /\ \A i \in 1 .. Len(s) - 1 : g[i] = s[i]
  BY PopIs
<1> HIDE DEF g
<1> DEFINE r == Append(g, f)
<1>2. /\ r \in Seq(Frame) /\ Len(r) = Len(s) /\ r # <<>> /\ r[Len(s)] = f
      /\ \A i \in 1 .. Len(s) - 1 : r[i] = s[i]
  BY <1>1
<1> HIDE DEF r
<1>3. Last(r) = f /\ Last(s) = s[Len(s)]
  BY <1>2 DEF Last
<1>4. Nested(r, H)
  <2> SUFFICES ASSUME NEW i \in 1 .. Len(r), NEW j \in 1 .. Len(r), i < j, r[i].pc \in H
               PROVE  InHandler(r[j])
    BY DEF Nested
  <2>1. r[i] = s[i] /\ i \in 1 .. Len(s) /\ j \in 1 .. Len(s)
    BY <1>1, <1>2
  <2>2. InHandler(s[j])
    BY <2>1 DEF Nested
  <2>3. CASE j = Len(s)
    BY <1>2, <1>3, <2>2, <2>3
  <2>4. CASE j # Len(s)
    <3>1. r[j] = s[j]
      BY <1>1, <1>2, <2>1, <2>4
    <3> QED BY <2>2, <3>1 DEF InHandler
  <2> QED BY <2>3, <2>4
<1>5. FromFrames(r, s, f) /\ Keeps(r, s)
  BY <1>1, <1>2 DEF FromFrames, Keeps
<1> QED BY <1>2, <1>3, <1>4, <1>5 DEF r, g

LEMMA PushIs ==
    ASSUME NEW s \in Seq(Frame), NEW H, Nested(s, H), NEW f \in Frame,
           InHandler(f) \/ \A i \in 1 .. Len(s) : s[i].pc \notin H
    PROVE  /\ Append(s, f) \in Seq(Frame) /\ Nested(Append(s, f), H)
           /\ Len(Append(s, f)) = Len(s) + 1 /\ Append(s, f)[Len(s) + 1] = f
           /\ FromFrames(Append(s, f), s, f) /\ Keeps(Append(s, f), s)
           /\ \A i \in 1 .. Len(s) : Append(s, f)[i] = s[i]
<1> DEFINE r == Append(s, f)
<1>1. /\ r \in Seq(Frame) /\ Len(r) = Len(s) + 1 /\ Len(s) \in Nat /\ r[Len(s) + 1] = f
      /\ \A i \in 1 .. Len(s) : r[i] = s[i]
  OBVIOUS
<1> HIDE DEF r
<1>2. Nested(r, H)
  <2> SUFFICES ASSUME NEW i \in 1 .. Len(r), NEW j \in 1 .. Len(r), i < j, r[i].pc \in H
               PROVE  InHandler(r[j])
    BY DEF Nested
  <2>1. r[i] = s[i] /\ i \in 1 .. Len(s)
    BY <1>1
  <2>2. CASE j = Len(s) + 1
    BY <1>1, <2>1, <2>2
  <2>3. CASE j # Len(s) + 1
    <3>1. j \in 1 .. Len(s) /\ r[j] = s[j]
      BY <1>1, <2>3
    <3> QED BY <2>1, <3>1 DEF Nested
  <2> QED BY <2>2, <2>3
<1>3. FromFrames(r, s, f) /\ Keeps(r, s)
  BY <1>1 DEF FromFrames, Keeps
<1> QED BY <1>1, <1>2, <1>3 DEF r

\* Above a frame that neither is of H nor a handler's nothing of H is below.
LEMMA NothingBelow ==
    ASSUME NEW s \in Seq(Frame), s # <<>>, NEW H, Nested(s, H),
           ~InHandler(Last(s))
    PROVE  \A i \in 1 .. Len(s) - 1 : s[i].pc \notin H
<1>1. Last(s) = s[Len(s)] /\ Len(s) \in 1 .. Len(s)
  BY DEF Last
<1> QED BY <1>1 DEF Nested

-----------------------------------------------------------------------------
(* What is done to the lists.                                                *)

LEMMA OnListIs ==
    ASSUME list \in Lists
    PROVE  /\ \A l \in Delayed : \A t : OnList(t, l) <=> Contains(list[l], t)
           /\ \A t \in Task : t \in Sleeping <=> Listed(list, t)
<1>1. \A l \in Delayed : list[l] \in Seq(Task)
  BY DEF Lists
<1>2. \A l \in Delayed : \A t : OnList(t, l) <=> Contains(list[l], t)
  BY <1>1 DEF OnList, ToSet, Contains
<1> QED BY <1>2 DEF Sleeping, Listed

\* list_remove() of t.
LEMMA UnlistedIs ==
    ASSUME list \in Lists, OneOn(list), NEW t \in Task
    PROVE  /\ Unlisted(t) \in Lists /\ OneOn(Unlisted(t))
           /\ Thinner(Unlisted(t), list)
           /\ ~Listed(Unlisted(t), t)
           /\ \A u \in Task : u # t => (Listed(Unlisted(t), u) <=> Listed(list, u))
           /\ \A u \in Task, l \in Delayed :
                 Contains(Unlisted(t)[l], u) <=> u # t /\ Contains(list[l], u)
<1> DEFINE new == Unlisted(t)
<1>1. ASSUME NEW l \in Delayed
      PROVE  /\ new[l] \in Seq(Task) /\ Injective(new[l])
             /\ \A u \in Task : Contains(new[l], u) <=> u # t /\ Contains(list[l], u)
             /\ \A a, b \in Task : Before(new[l], a, b) => Before(list[l], a, b)
  <2> DEFINE s == list[l]
  <2>1. s \in Seq(Task) /\ Injective(s) /\ new[l] = Without(s, t)
    BY DEF Lists, OneOn, Unlisted
  <2> HIDE DEF new, s
  <2>2. /\ Without(s, t) \in Seq(Task) /\ Injective(Without(s, t))
        /\ \A u \in Task : Contains(Without(s, t), u) <=> u # t /\ Contains(s, u)
    BY <2>1, WithoutIsRemoval DEF Contains
  <2>3. \A a, b \in Task : Before(new[l], a, b) => Before(s, a, b)
    BY <2>1, OrderWithout
  <2> QED BY <2>1, <2>2, <2>3 DEF s
<1>2. new \in Lists
  <2>1. new = [l \in Delayed |-> Without(list[l], t)]
    BY DEF Unlisted
  <2> QED BY <1>1, <2>1 DEF Lists
<1> HIDE DEF new
<1>3. OneOn(new)
  BY <1>1 DEF OneOn
<1>4. Thinner(new, list)
  BY <1>1 DEF Thinner
<1>5. \A u \in Task : Listed(new, u) <=> u # t /\ Listed(list, u)
  BY <1>1 DEF Listed
<1> QED BY <1>1, <1>2, <1>3, <1>4, <1>5 DEF new

\* Where list_insert_after() puts t.
Behind(new, s, pos, t) ==
    \A a, b \in Task :
        Before(new, a, b) =>
            \/ Before(s, a, b)
            \/ b = t /\ pos = NULL /\ Contains(s, a)
            \/ b = t /\ pos # NULL /\ Before(s, a, pos)
            \/ a = t /\ pos # NULL /\ (b = pos \/ Before(s, pos, b))

LEMMA InsertBeforeIs ==
    ASSUME NEW s \in Seq(Task), Injective(s), NEW t \in Task, ~Contains(s, t),
           NEW pos, pos = NULL \/ Contains(s, pos)
    PROVE  LET r == InsertBefore(s, pos, t)
           IN  /\ r \in Seq(Task) /\ Injective(r)
               /\ \A u \in Task : Contains(r, u) <=> u = t \/ Contains(s, u)
               /\ Behind(r, s, pos, t)
<1> DEFINE r == InsertBefore(s, pos, t)
<1>1. CASE pos = NULL
  <2>1. r = Append(s, t)
    BY <1>1 DEF InsertBefore
  <2> HIDE DEF r
  <2>2. /\ r \in Seq(Task) /\ Injective(r)
        /\ \A u \in Task : Contains(r, u) <=> u = t \/ Contains(s, u)
    BY <2>1, AppendAdds DEF Contains
  <2>3. \A a, b \in Task : Before(r, a, b) => Before(s, a, b) \/ (b = t /\ Contains(s, a))
    BY <2>1, OrderAppend
  <2> QED BY <1>1, <2>2, <2>3 DEF Behind, r
<1>2. CASE pos # NULL
  <2> DEFINE k == IndexOf(s, pos)
  <2>1. k \in 1 .. Len(s) /\ s[k] = pos
    <3>1. \E i \in DOMAIN s : s[i] = pos
      BY <1>2 DEF Contains
    <3> QED BY <3>1 DEF IndexOf
  <2>2. r = InsertAt(s, k, t)
    BY <1>2 DEF InsertBefore
  <2> HIDE DEF r, k
  <2>3. k \in 1 .. Len(s) + 1
    BY <2>1
  <2>4. /\ r \in Seq(Task) /\ Injective(r)
        /\ \A u \in Task : Contains(r, u) <=> u = t \/ Contains(s, u)
    <3>1. \A i \in 1 .. Len(s) : s[i] # t
      BY DEF Contains
    <3>2. /\ InsertAt(s, k, t) \in Seq(Task) /\ Injective(InsertAt(s, k, t))
          /\ \A u \in Task :
                (\E i \in 1 .. Len(InsertAt(s, k, t)) : InsertAt(s, k, t)[i] = u)
                   <=> u = t \/ \E i \in 1 .. Len(s) : s[i] = u
      BY <2>3, <3>1, InsertAdds
    <3> QED BY <2>2, <3>2 DEF Contains
  <2>5. \A a, b \in Task : Before(r, a, b) => \/ Before(s, a, b)
                                              \/ b = t /\ Before(s, a, s[k])
                                              \/ a = t /\ (b = s[k] \/ Before(s, s[k], b))
    BY <2>1, <2>2, OrderInsert
  <2> QED BY <1>2, <2>1, <2>4, <2>5 DEF Behind, r
<1> QED BY <1>1, <1>2

-----------------------------------------------------------------------------
(* Steps that put nobody on a list.                                          *)

SameScan(f, g) ==
    /\ g.pc = "scan"
    /\ f.task = g.task /\ f.wakeup = g.wakeup /\ f.list = g.list
    /\ f.pos = g.pos /\ f.pos_tick = g.pos_tick

LEMMA ScanStays ==
    ASSUME NEW f \in Frame, NEW g \in Frame, FrameOK(g), SameScan(f, g),
           NEW ls \in Lists, NEW new \in Lists, Thinner(new, ls), NEW until,
           Scanned(g, ls, until)
    PROVE  Scanned(f, new, until)
<1>1. /\ g.pc = "scan" /\ g.task \in Task /\ g.pos \in Task /\ g.list \in Delayed
      /\ f.task = g.task /\ f.wakeup = g.wakeup /\ f.list = g.list
      /\ f.pos = g.pos /\ f.pos_tick = g.pos_tick
  BY DEF FrameOK, InHandler, SameScan, Frame
<1>2. ~Listed(new, f.task)
  BY <1>1 DEF Scanned, Listed, Thinner
<1>3. \A t \in Task : Before(new[f.list], t, f.pos) => until[t] <= f.wakeup
  BY <1>1 DEF Scanned, Thinner
<1>4. Contains(new[f.list], f.pos) => f.pos_tick = until[f.pos]
  BY <1>1 DEF Scanned, Thinner
<1> QED BY <1>1, <1>2, <1>3, <1>4 DEF Scanned

\* The invariant in any step that puts nobody on a list and begins no scan.
LEMMA NothingInserted ==
    ASSUME NEW H, ListInv(H),
           list' \in Lists, OneOn(list'), Thinner(list', list), UNCHANGED delay_until,
           tick' \in Tick, current' \in Delayed, sleep' \in [Task -> Sleep],
           suspended' \subseteq Task, \A t \in suspended' : ~Listed(list', t),
           stack' \in Seq(Frame), Nested(stack', H),
           \A i \in 1 .. Len(stack') :
              /\ FrameOK(stack'[i])
              /\ stack'[i].pc = "scan" =>
                    \E j \in 1 .. Len(stack) : SameScan(stack'[i], stack[j])
    PROVE  ListInv(H)'
<1>1. DTypes'
  BY DEF ListInv, DTypes
<1>2. ByTick(list, delay_until)'
  BY DEF ListInv, ByTick, Thinner
<1>3. ASSUME NEW i \in 1 .. Len(stack') PROVE Scanned(stack'[i], list', delay_until)
  <2>1. CASE stack'[i].pc # "scan"
    BY <2>1 DEF Scanned
  <2>2. CASE stack'[i].pc = "scan"
    <3>1. PICK j \in 1 .. Len(stack) : SameScan(stack'[i], stack[j])
      BY <2>2
    <3>2. /\ stack'[i] \in Frame /\ stack[j] \in Frame /\ list \in Lists
          /\ FrameOK(stack[j]) /\ Scanned(stack[j], list, delay_until)
      BY DEF ListInv, DTypes
    <3> QED BY <3>1, <3>2, ScanStays
  <2> QED BY <2>1, <2>2
<1> QED BY <1>1, <1>2, <1>3 DEF ListInv

LEMMA ThinnerReflexive == \A ls : Thinner(ls, ls)
BY DEF Thinner

\* The lists stay too.
LEMMA OnlyFrames ==
    ASSUME NEW H, ListInv(H), UNCHANGED <<tick, current, suspended, list, delay_until, sleep>>,
           NEW f, stack' \in Seq(Frame), Nested(stack', H),
           FromFrames(stack', stack, f),
           (\E i \in 1 .. Len(stack') : stack'[i] = f) => FrameOK(f) /\ f.pc # "scan"
    PROVE  ListInv(H)'
<1>1. ASSUME NEW i \in 1 .. Len(stack')
      PROVE  /\ FrameOK(stack'[i])
             /\ stack'[i].pc = "scan" =>
                   \E j \in 1 .. Len(stack) : SameScan(stack'[i], stack[j])
  <2>1. CASE stack'[i] = f
    BY <2>1
  <2>2. CASE stack'[i] # f
    BY <2>2 DEF FromFrames, ListInv, SameScan
  <2> QED BY <2>1, <2>2
<1> QED BY <1>1, NothingInserted, ThinnerReflexive DEF ListInv, DTypes

\* task_suspend() and task_resume() of t, by f.
LEMMA TaskLeaves ==
    ASSUME NEW H, ListInv(H), NEW t \in Task,
           suspended' = suspended \cup {t} \/ suspended' = suspended \ {t},
           list' = Unlisted(t), sleep' = Awake(t),
           UNCHANGED <<tick, current, delay_until>>,
           NEW f, stack' \in Seq(Frame), Nested(stack', H),
           FromFrames(stack', stack, f),
           (\E i \in 1 .. Len(stack') : stack'[i] = f) => FrameOK(f) /\ f.pc # "scan"
    PROVE  ListInv(H)'
<1>1. /\ list' \in Lists /\ OneOn(list') /\ Thinner(list', list) /\ ~Listed(list', t)
      /\ \A u \in Task : u # t => (Listed(list', u) <=> Listed(list, u))
  BY UnlistedIs DEF ListInv, DTypes
<1>2. sleep' \in [Task -> Sleep]
  BY TickAssumption DEF ListInv, DTypes, Awake, NoSleep, Sleep, Tick
<1>3. suspended' \subseteq Task /\ \A u \in suspended' : ~Listed(list', u)
  BY <1>1 DEF ListInv, DTypes
<1>4. ASSUME NEW i \in 1 .. Len(stack')
      PROVE  /\ FrameOK(stack'[i])
             /\ stack'[i].pc = "scan" =>
                   \E j \in 1 .. Len(stack) : SameScan(stack'[i], stack[j])
  <2>1. CASE stack'[i] = f
    BY <2>1
  <2>2. CASE stack'[i] # f
    BY <2>2 DEF FromFrames, ListInv, SameScan
  <2> QED BY <2>1, <2>2
<1>5. tick' \in Tick /\ current' \in Delayed
  BY DEF ListInv, DTypes
<1> QED BY <1>1, <1>2, <1>3, <1>4, <1>5, NothingInserted

-----------------------------------------------------------------------------
(* task_delay_now_until().                                                   *)

\* The task of f is about to be put on one of lists, and on none yet.
Placing(f, lists, asleep, until) ==
    /\ f \in Frame /\ f.task \in Task
    /\ lists \in Lists /\ OneOn(lists) /\ ByTick(lists, until)
    /\ until \in [Task -> Tick] /\ until[f.task] = f.wakeup
    /\ asleep \subseteq Task /\ \A t \in asleep : ~Listed(lists, t)
    /\ ~Listed(lists, f.task)

\* The code that executes may place its task: no scan goes on under it.
MayPlace(H) ==
    /\ DTypes /\ stack # <<>> /\ ~InHandler(Top)
    /\ Nested(stack, H)
    /\ \A i \in 1 .. Len(stack) : FrameOK(stack[i])
    /\ \A i \in 1 .. Len(stack) - 1 : stack[i].pc # "scan"

\* What task_delay_now_until() of frame f changes, at each of its steps: f
\* scans, or it is done, and its task may be on list l then.
Scans(g, f, l) ==
    /\ g.pc = "scan" /\ g.list = l
    /\ g.wakeup = f.wakeup /\ g.left = f.left /\ g.wrapped = f.wrapped
Arrives(f, l) ==
    /\ UNCHANGED <<tick, current>>
    /\ \A i \in 1 .. Len(stack') :
          \/ \E j \in 1 .. Len(stack) : stack'[i] = stack[j]
          \/ stack'[i].pc = "run" \/ Scans(stack'[i], f, l)
    /\ \A k \in Delayed, u \in Task :
          Contains(list'[k], u) =>
             \/ u # f.task /\ Contains(list[k], u) /\ sleep'[u] = sleep[u]
             \/ /\ u = f.task /\ k = l
                /\ sleep'[u] = [left |-> f.left, wrapped |-> f.wrapped, fresh |-> TRUE]

LEMMA FrameTypes ==
    ASSUME NEW t \in Task
    PROVE  TaskFrame(t) \in Frame /\ FrameOK(TaskFrame(t)) /\ TaskFrame(t).pc = "run"
BY TickAssumption DEF TaskFrame, Frame, FrameOK, InHandler, PC, Tick, Delayed

LEMMA DelayReturnIs ==
    ASSUME NEW H, MayPlace(H), NEW f \in Frame, f.task \in Task
    PROVE  LET new == DelayReturn(f)
           IN  /\ new \in Seq(Frame) /\ Nested(new, H)
               /\ FromFrames(new, stack, TaskFrame(f.task)) /\ Keeps(new, stack)
               /\ \A i \in 1 .. Len(new) : FrameOK(new[i]) /\ new[i].pc # "scan"
<1> DEFINE new == DelayReturn(f)
           s == stack
<1>1. s \in Seq(Frame) /\ s # <<>> /\ Nested(s, H) /\ ~InHandler(Last(s))
  BY DEF MayPlace, DTypes, Top
<1>2. \A i \in 1 .. Len(s) - 1 : FrameOK(s[i]) /\ s[i].pc # "scan"
  BY <1>1 DEF MayPlace
<1>3. CASE f.timer
  <2>1. new = Front(s)
    BY <1>3 DEF DelayReturn
  <2>2. /\ Front(s) \in Seq(Frame) /\ Nested(Front(s), H) /\ Keeps(Front(s), s)
        /\ Len(Front(s)) = Len(s) - 1 /\ FromFrames(Front(s), s, TaskFrame(f.task))
        /\ \A i \in 1 .. Len(s) - 1 : Front(s)[i] = s[i]
    BY <1>1, PopIs
  <2> HIDE DEF s, new
  <2> QED BY <1>2, <2>1, <2>2 DEF s, new
<1>4. CASE ~f.timer
  <2> DEFINE g == TaskFrame(f.task)
             r == Append(Front(s), g)
  <2>1. new = r
    BY <1>4 DEF DelayReturn, Replace
  <2>2. g \in Frame /\ FrameOK(g) /\ g.pc = "run"
    BY FrameTypes
  <2>3. /\ r \in Seq(Frame) /\ Nested(r, H) /\ FromFrames(r, s, g) /\ Keeps(r, s)
        /\ Len(r) = Len(s) /\ r[Len(s)] = g
    BY <1>1, <2>2, ReplaceIs
  <2>4. Len(s) \in Nat
    BY <1>1
  <2> HIDE DEF r, new, s, g
  <2>5. \A i \in 1 .. Len(r) : FrameOK(r[i]) /\ r[i].pc # "scan"
    BY <1>2, <2>2, <2>3, <2>4 DEF Keeps
  <2> QED BY <2>1, <2>3, <2>5 DEF new, s, g
<1> QED BY <1>3, <1>4

\* Insert() puts the task of f where the scan arrived.
LEMMA InsertKeeps ==
    ASSUME NEW H, MayPlace(H), NEW f, NEW lists, NEW asleep, NEW pos,
           Placing(f, lists, asleep, delay_until'), Thinner(lists, list),
           \/ /\ pos = NULL
              /\ \A t \in Task : Contains(lists[f.list], t) => delay_until'[t] <= f.wakeup
           \/ /\ pos \in Task /\ Contains(lists[f.list], pos)
              /\ f.wakeup <= delay_until'[pos]
              /\ \A t \in Task : Before(lists[f.list], t, pos)
                                    => delay_until'[t] <= f.wakeup,
           Insert(f, lists, asleep, pos), UNCHANGED <<tick, current>>
    PROVE  ListInv(H)' /\ Arrives(f, f.list)
<1> DEFINE until == delay_until'
           t == f.task
           l == f.list
           s == lists[l]
<1>1. /\ f \in Frame /\ t \in Task /\ l \in Delayed
      /\ lists \in Lists /\ OneOn(lists) /\ ByTick(lists, until)
      /\ until \in [Task -> Tick] /\ until[t] = f.wakeup
      /\ asleep \subseteq Task /\ (\A u \in asleep : ~Listed(lists, u))
      /\ ~Listed(lists, t)
  BY DEF Placing, Frame
<1>2. s \in Seq(Task) /\ Injective(s) /\ ~Contains(s, t)
  BY <1>1 DEF Lists, OneOn, Listed
<1>3. /\ stack' \in Seq(Frame) /\ Nested(stack', H)
      /\ \A i \in 1 .. Len(stack') : FrameOK(stack'[i]) /\ Scanned(stack'[i], list', until)
  BY <1>1, DelayReturnIs DEF Insert, Scanned
<1>4. /\ suspended' = asleep \ {t} /\ suspended' \subseteq Task
      /\ tick' \in Tick /\ current' \in Delayed
  BY <1>1 DEF Insert, MayPlace, DTypes
<1>5. /\ sleep' \in [Task -> Sleep]
      /\ list' \in Lists /\ OneOn(list') /\ ByTick(list', until)
      /\ \A u \in suspended' : ~Listed(list', u)
      /\ \A k \in Delayed, u \in Task :
            Contains(list'[k], u) =>
               \/ u # t /\ Contains(lists[k], u) /\ sleep'[u] = sleep[u]
               \/ /\ u = t /\ k = l
                  /\ sleep'[u] = [left |-> f.left, wrapped |-> f.wrapped, fresh |-> TRUE]
  <2>1. CASE /\ t \in asleep
             /\ list' = [lists EXCEPT ![l] = InsertBefore(lists[l], pos, t)]
             /\ sleep' = [sleep EXCEPT ![t] =
                   [left |-> f.left, wrapped |-> f.wrapped, fresh |-> TRUE]]
    <3> DEFINE r == InsertBefore(s, pos, t)
    <3>1. pos = NULL \/ Contains(s, pos)
      OBVIOUS
    <3>2. /\ r \in Seq(Task) /\ Injective(r)
          /\ \A u \in Task : Contains(r, u) <=> u = t \/ Contains(s, u)
          /\ Behind(r, s, pos, t)
      BY <1>1, <1>2, <3>1, InsertBeforeIs
    <3>3. list' = [lists EXCEPT ![l] = r]
      BY <2>1
    <3> HIDE DEF r
    <3>4. /\ list'[l] = r /\ list' \in Lists
          /\ \A k \in Delayed : k # l => list'[k] = lists[k]
      BY <1>1, <3>2, <3>3 DEF Lists
    <3>5. OneOn(list')
      <4>1. \A k \in Delayed : Injective(list'[k])
        BY <1>1, <3>2, <3>4 DEF OneOn
      <4>2. \A k \in Delayed, u \in Task :
               Contains(list'[k], u) => Contains(lists[k], u) \/ (u = t /\ k = l)
        BY <3>2, <3>4
      <4> QED BY <1>1, <4>1, <4>2 DEF OneOn, Listed
    <3>6. ASSUME NEW k \in Delayed, NEW a \in Task, NEW b \in Task, Before(list'[k], a, b)
          PROVE  until[a] <= until[b]
      <4>1. CASE k # l
        BY <1>1, <3>4, <3>6, <4>1 DEF ByTick
      <4>2. CASE k = l
        <5>1. \/ Before(s, a, b)
              \/ b = t /\ pos = NULL /\ Contains(s, a)
              \/ b = t /\ pos # NULL /\ Before(s, a, pos)
              \/ a = t /\ pos # NULL /\ (b = pos \/ Before(s, pos, b))
          BY <3>2, <3>4, <3>6, <4>2 DEF Behind
        <5>2. pos # NULL => \A c \in Task : Before(s, pos, c) => until[pos] <= until[c]
          BY <1>1 DEF ByTick
        <5>3. \A c, d \in Task : Before(s, c, d) => until[c] <= until[d]
          BY <1>1 DEF ByTick
        <5>4. \A c \in Task : until[c] \in Int
          BY <1>1, TickAssumption DEF Tick
        <5> HIDE DEF s, until, t, l
        <5>5. CASE a = t /\ pos # NULL /\ (b = pos \/ Before(s, pos, b))
          <6>1. pos \in Task /\ until[t] <= until[pos]
            BY <1>1, <5>5 DEF s, until, l, t
          <6>2. until[pos] <= until[b]
            BY <5>2, <5>4, <5>5, <6>1
          <6> QED BY <1>1, <5>4, <5>5, <6>1, <6>2
        <5>6. CASE b = t /\ pos = NULL /\ Contains(s, a)
          BY <1>1, <5>6, NullAssumption DEF s, until, l
        <5>7. CASE b = t /\ pos # NULL /\ Before(s, a, pos)
          BY <1>1, <5>7 DEF s, until, l
        <5> QED BY <5>1, <5>3, <5>5, <5>6, <5>7
      <4> QED BY <4>1, <4>2
    <3>7. sleep' \in [Task -> Sleep]
      BY <1>1, <2>1 DEF MayPlace, DTypes, Sleep, Frame
    <3>8. \A u \in suspended' : ~Listed(list', u)
      BY <1>1, <1>4, <3>2, <3>4 DEF Listed
    <3>9. ASSUME NEW k \in Delayed, NEW u \in Task, Contains(list'[k], u)
          PROVE  \/ u # t /\ Contains(lists[k], u) /\ sleep'[u] = sleep[u]
                 \/ /\ u = t /\ k = l
                    /\ sleep'[u] = [left |-> f.left, wrapped |-> f.wrapped, fresh |-> TRUE]
      <4>1. Contains(lists[k], u) \/ (u = t /\ k = l)
        BY <3>2, <3>4, <3>9
      <4>2. u # t => sleep'[u] = sleep[u]
        BY <2>1 DEF MayPlace, DTypes
      <4>3. sleep'[t] = [left |-> f.left, wrapped |-> f.wrapped, fresh |-> TRUE]
        BY <1>1, <2>1 DEF MayPlace, DTypes
      <4> QED BY <1>1, <4>1, <4>2, <4>3 DEF Listed
    <3> QED BY <3>4, <3>5, <3>6, <3>7, <3>8, <3>9 DEF ByTick
  <2>2. CASE list' = lists /\ sleep' = sleep
    BY <1>1, <1>4, <2>2 DEF MayPlace, DTypes, Listed
  <2> QED BY <2>1, <2>2 DEF Insert
<1>6. \A i \in 1 .. Len(stack') :
         (\E j \in 1 .. Len(stack) : stack'[i] = stack[j]) \/ stack'[i].pc = "run"
  <2>1. FromFrames(stack', stack, TaskFrame(t)) /\ TaskFrame(t).pc = "run"
    BY <1>1, DelayReturnIs, FrameTypes DEF Insert
  <2> QED BY <2>1 DEF FromFrames
<1>7. Arrives(f, f.list)
  <2>1. \A k \in Delayed, u \in Task : Contains(lists[k], u) => Contains(list[k], u)
    BY DEF Thinner
  <2> HIDE DEF s
  <2> QED BY <1>5, <1>6, <2>1 DEF Arrives
<1> QED BY <1>1, <1>3, <1>4, <1>5, <1>7 DEF ListInv, DTypes

LEMMA ScanAtKeeps ==
    ASSUME NEW H, MayPlace(H), NEW f, NEW lists, NEW asleep, NEW pos,
           Placing(f, lists, asleep, delay_until'), Thinner(lists, list),
           \A u \in Task : u # f.task => delay_until'[u] = delay_until[u],
           \/ /\ pos = NULL
              /\ \A t \in Task : Contains(lists[f.list], t) => delay_until'[t] <= f.wakeup
           \/ /\ pos \in Task /\ Contains(lists[f.list], pos)
              /\ \A t \in Task : Before(lists[f.list], t, pos)
                                    => delay_until'[t] <= f.wakeup,
           ScanAt(f, lists, asleep, pos), UNCHANGED <<tick, current>>
    PROVE  ListInv(H)' /\ Arrives(f, f.list)
<1>1. CASE pos = NULL
  <2>1. Insert(f, lists, asleep, NULL)
    BY <1>1 DEF ScanAt
  <2>2. \A t \in Task : Contains(lists[f.list], t) => delay_until'[t] <= f.wakeup
    BY <1>1, NullAssumption
  <2> QED BY <2>1, <2>2, InsertKeeps
<1>2. CASE pos # NULL
  <2> DEFINE g == [f EXCEPT !.pc = "scan", !.pos = pos, !.pos_tick = delay_until[pos]]
             until == delay_until'
             r == Append(Front(stack), g)
  <2>1. stack' = r /\ suspended' = asleep /\ list' = lists /\ UNCHANGED sleep
    BY <1>2 DEF ScanAt, Replace
  <2>2. /\ f \in Frame /\ f.task \in Task /\ f.list \in Delayed
        /\ lists \in Lists /\ OneOn(lists) /\ ByTick(lists, until)
        /\ until \in [Task -> Tick] /\ until[f.task] = f.wakeup
        /\ asleep \subseteq Task /\ (\A u \in asleep : ~Listed(lists, u))
        /\ ~Listed(lists, f.task)
    BY DEF Placing, Frame
  <2>3. /\ pos \in Task /\ Contains(lists[f.list], pos) /\ pos # f.task
        /\ \A t \in Task : Before(lists[f.list], t, pos) => until[t] <= f.wakeup
    BY <1>2, <2>2 DEF Listed
  <2>4. until[pos] = delay_until[pos] /\ delay_until[pos] \in Tick
    BY <2>2, <2>3
  <2>5. /\ g \in Frame /\ g.pc = "scan" /\ g.pos = pos /\ g.pos_tick = until[pos]
        /\ g.task = f.task /\ g.wakeup = f.wakeup /\ g.list = f.list
        /\ g.left = f.left /\ g.wrapped = f.wrapped
    BY <2>2, <2>3, <2>4 DEF Frame, PC
  <2> HIDE DEF g
  <2>6. FrameOK(g) /\ Scanned(g, lists, until)
    BY <2>2, <2>3, <2>4, <2>5 DEF FrameOK, Scanned, InHandler
  <2>7. stack \in Seq(Frame) /\ stack # <<>> /\ Nested(stack, H) /\ ~InHandler(Last(stack))
    BY DEF MayPlace, DTypes, Top
  <2>8. /\ r \in Seq(Frame) /\ Nested(r, H) /\ Keeps(r, stack)
        /\ Len(r) = Len(stack) /\ r[Len(stack)] = g /\ FromFrames(r, stack, g)
    BY <2>5, <2>7, ReplaceIs
  <2> HIDE DEF r
  <2>9. Len(stack) \in Nat
    BY <2>7
  <2>10. \A i \in 1 .. Len(stack) - 1 : FrameOK(stack[i]) /\ stack[i].pc # "scan"
    BY <2>9 DEF MayPlace
  <2>11. \A i \in 1 .. Len(r) : FrameOK(r[i]) /\ Scanned(r[i], lists, until)
    <3> SUFFICES ASSUME NEW i \in 1 .. Len(r)
                 PROVE  FrameOK(r[i]) /\ Scanned(r[i], lists, until)
      OBVIOUS
    <3>1. CASE i = Len(stack)
      BY <2>6, <2>8, <3>1
    <3>2. CASE i # Len(stack)
      <4>1. i \in 1 .. Len(stack) - 1 /\ r[i] = stack[i]
        BY <2>8, <2>9, <3>2 DEF Keeps
      <4> QED BY <2>10, <4>1 DEF Scanned
    <3> QED BY <3>1, <3>2
  <2>12. DTypes'
    BY <2>1, <2>2, <2>8 DEF MayPlace, DTypes
  <2>13. Arrives(f, f.list)
    <3>1. \A i \in 1 .. Len(stack') :
             (\E j \in 1 .. Len(stack) : stack'[i] = stack[j]) \/ Scans(stack'[i], f, f.list)
      BY <2>1, <2>5, <2>8 DEF FromFrames, Scans
    <3>2. \A k \in Delayed, u \in Task : Contains(lists[k], u) => Contains(list[k], u)
      BY DEF Thinner
    <3>3. \A k \in Delayed, u \in Task :
             Contains(list'[k], u) => u # f.task /\ Contains(list[k], u) /\ sleep'[u] = sleep[u]
      BY <2>1, <2>2, <3>2 DEF Listed
    <3> QED BY <3>1, <3>3 DEF Arrives
  <2> QED BY <2>1, <2>2, <2>8, <2>11, <2>12, <2>13 DEF ListInv
<1> QED BY <1>1, <1>2

\* Where a scan begins, and that nothing is passed there.
LEMMA FirstIs ==
    ASSUME NEW s \in Seq(Task), Injective(s)
    PROVE  \/ First(s) = NULL /\ s = <<>>
           \/ First(s) \in Task /\ Contains(s, First(s)) /\ \A t : ~Before(s, t, First(s))
<1>1. CASE s = <<>>
  BY <1>1 DEF First
<1>2. CASE s # <<>>
  <2>1. Head(s) \in Task /\ Head(s) = s[1] /\ 1 \in 1 .. Len(s)
    BY <1>2
  <2>2. First(s) = Head(s) /\ Contains(s, Head(s))
    BY <1>2, <2>1 DEF First, Contains
  <2> QED BY <1>2, <2>1, <2>2, BeforeHead
<1> QED BY <1>1, <1>2

LEMMA DelayUntilKeeps ==
    ASSUME NEW H, ListInv(H), "scan" \in H, stack # <<>>, ~InHandler(Top),
           Top.pc # "scan",
           NEW f \in Frame, f.task \in Task, DelayUntil(f)
    PROVE  /\ ListInv(H)' /\ Arrives(f, DelayList(f.now, f.wakeup))
           /\ delay_until' = [delay_until EXCEPT ![f.task] = f.wakeup]
<1> DEFINE l == DelayList(f.now, f.wakeup)
           lists == Unlisted(f.task)
           g == [f EXCEPT !.list = l]
           asleep == suspended \cup {f.task}
<1>1. /\ delay_until' = [delay_until EXCEPT ![f.task] = f.wakeup]
      /\ ScanAt(g, lists, asleep, First(lists[l]))
      /\ UNCHANGED <<tick, current>>
  BY DEF DelayUntil
<1>2. f.wakeup \in Tick /\ DTypes /\ l \in Delayed
  BY DEF ListInv, DTypes, Frame, DelayList, overflow, Delayed
<1>3. /\ g \in Frame /\ g.task = f.task /\ g.wakeup = f.wakeup /\ g.list = l
      /\ g.left = f.left /\ g.wrapped = f.wrapped
  BY <1>2 DEF Frame
<1>4. /\ lists \in Lists /\ OneOn(lists) /\ Thinner(lists, list) /\ ~Listed(lists, f.task)
      /\ \A u \in Task : u # f.task => (Listed(lists, u) <=> Listed(list, u))
  BY <1>2, UnlistedIs DEF DTypes
<1>5. /\ delay_until' \in [Task -> Tick] /\ delay_until'[f.task] = f.wakeup
      /\ \A u \in Task : u # f.task => delay_until'[u] = delay_until[u]
  BY <1>1, <1>2 DEF DTypes
<1>6. MayPlace(H)
  <2>1. stack \in Seq(Frame) /\ Nested(stack, H) /\ ~InHandler(Last(stack))
    BY DEF ListInv, DTypes, Top
  <2>2. \A i \in 1 .. Len(stack) - 1 : stack[i].pc # "scan"
    BY <2>1, NothingBelow
  <2> QED BY <1>2, <2>1, <2>2 DEF MayPlace, ListInv
<1> DEFINE s == lists[l]
<1>7. s \in Seq(Task) /\ Injective(s)
  BY <1>2, <1>4 DEF Lists, OneOn
<1> HIDE DEF g, lists, l
<1>8. ByTick(lists, delay_until')
  <2> SUFFICES ASSUME NEW k \in Delayed, NEW a \in Task, NEW b \in Task,
                      Before(lists[k], a, b)
               PROVE  delay_until'[a] <= delay_until'[b]
    BY DEF ByTick
  <2>1. lists[k] \in Seq(Task)
    BY <1>4 DEF Lists
  <2>2. Contains(lists[k], a) /\ Contains(lists[k], b)
    BY <2>1, BeforeIn
  <2>3. a # f.task /\ b # f.task
    BY <1>4, <2>2 DEF Listed
  <2>4. Before(list[k], a, b)
    BY <1>4 DEF Thinner
  <2> QED BY <1>5, <2>3, <2>4 DEF ListInv, ByTick
<1>9. Placing(g, lists, asleep, delay_until')
  BY <1>2, <1>3, <1>4, <1>5, <1>8 DEF Placing, DTypes
<1>10. \/ /\ First(s) = NULL
          /\ \A t \in Task : ~Contains(lists[g.list], t)
       \/ /\ First(s) \in Task /\ Contains(lists[g.list], First(s))
          /\ \A t \in Task : ~Before(lists[g.list], t, First(s))
  BY <1>3, <1>7, FirstIs DEF Contains
<1>11. ListInv(H)' /\ Arrives(g, g.list)
  BY <1>1, <1>3, <1>4, <1>5, <1>6, <1>9, <1>10, ScanAtKeeps
<1>12. Arrives(f, l)
  BY <1>3, <1>11 DEF Arrives, Scans
<1> QED BY <1>1, <1>11, <1>12 DEF l

\* Where a scan goes on, and what it has passed then.
LEMMA SuccessorIs ==
    ASSUME NEW s \in Seq(Task), Injective(s), NEW pos, Contains(s, pos)
    PROVE  \/ /\ Successor(s, pos) = NULL
              /\ \A t : Contains(s, t) => t = pos \/ Before(s, t, pos)
           \/ /\ Successor(s, pos) \in Task /\ Contains(s, Successor(s, pos))
              /\ \A t : Before(s, t, Successor(s, pos)) => t = pos \/ Before(s, t, pos)
<1> DEFINE k == IndexOf(s, pos)
<1>1. k \in 1 .. Len(s) /\ s[k] = pos
  <2>1. \E i \in DOMAIN s : s[i] = pos
    BY DEF Contains
  <2> QED BY <2>1 DEF IndexOf
<1>2. Successor(s, pos) = IF k = Len(s) THEN NULL ELSE s[k + 1]
  BY DEF Successor
<1> HIDE DEF k
<1>3. CASE k = Len(s)
  <2>1. Successor(s, pos) = NULL
    BY <1>2, <1>3
  <2>2. Last(s) = pos
    BY <1>1, <1>3 DEF Last
  <2> QED BY <2>1, <2>2, BeforeLast
<1>4. CASE k # Len(s)
  <2>1. Successor(s, pos) = s[k + 1] /\ k + 1 \in 1 .. Len(s)
    BY <1>1, <1>2, <1>4
  <2>2. \A t : Before(s, t, s[k + 1]) => t = s[k] \/ Before(s, t, s[k])
    BY <1>1, <2>1, BeforeNext
  <2>3. s[k + 1] \in Task /\ Contains(s, s[k + 1])
    BY <2>1 DEF Contains
  <2> QED BY <1>1, <2>1, <2>2, <2>3
<1> QED BY <1>3, <1>4

LEMMA ScanCompareKeeps ==
    ASSUME NEW H, ListInv(H), "scan" \in H, ScanCompare
    PROVE  ListInv(H)' /\ Arrives(Top, Top.list)
<1> DEFINE f == Top
           pos == Top.pos
           l == Top.list
           s == list[l]
           until == delay_until
<1>1. /\ stack # <<>> /\ f.pc = "scan" /\ UNCHANGED <<tick, current, delay_until>>
      /\ \/ f.wakeup < f.pos_tick /\ OnList(pos, l) /\ Insert(f, list, suspended, pos)
         \/ /\ f.wakeup >= f.pos_tick \/ ~OnList(pos, l)
            /\ ScanAt(f, list, suspended, ScanNext(f))
  BY DEF ScanCompare, Executes
<1>2. /\ stack \in Seq(Frame) /\ Nested(stack, H) /\ DTypes
      /\ Len(stack) \in 1 .. Len(stack) /\ f = stack[Len(stack)] /\ f = Last(stack)
      /\ f \in Frame
  BY <1>1, TopIs DEF ListInv, DTypes, Top
<1>3. FrameOK(f) /\ Scanned(f, list, until)
  BY <1>2 DEF ListInv
<1>4. /\ f.task \in Task /\ pos \in Task /\ l \in Delayed /\ ~InHandler(f)
      /\ f.wakeup \in Tick /\ f.pos_tick \in Tick
  BY <1>1, <1>2, <1>3 DEF FrameOK, InHandler, Frame
<1>5. /\ ~Listed(list, f.task) /\ until[f.task] = f.wakeup
      /\ \A t \in Task : Before(s, t, pos) => until[t] <= f.wakeup
      /\ Contains(s, pos) => f.pos_tick = until[pos]
  BY <1>1, <1>3 DEF Scanned
<1>6. s \in Seq(Task) /\ Injective(s) /\ (OnList(pos, l) <=> Contains(s, pos))
  BY <1>2, <1>4, OnListIs DEF DTypes, Lists, OneOn
<1>7. MayPlace(H)
  <2>1. \A i \in 1 .. Len(stack) - 1 : stack[i].pc # "scan"
    BY <1>1, <1>2, <1>4, NothingBelow
  <2> QED BY <1>1, <1>2, <1>4, <2>1 DEF MayPlace, ListInv
<1>8. Placing(f, list, suspended, until')
  BY <1>1, <1>2, <1>4, <1>5 DEF Placing, ListInv, DTypes
<1>9. f.wakeup \in Int /\ f.pos_tick \in Int
  BY <1>4, TickAssumption DEF Tick
<1>10. CASE f.wakeup < f.pos_tick /\ OnList(pos, l) /\ Insert(f, list, suspended, pos)
  BY <1>1, <1>4, <1>5, <1>6, <1>7, <1>8, <1>9, <1>10, InsertKeeps, ThinnerReflexive
<1>11. CASE /\ f.wakeup >= f.pos_tick \/ ~OnList(pos, l)
            /\ ScanAt(f, list, suspended, ScanNext(f))
  <2> DEFINE next == ScanNext(f)
  <2>1. \/ /\ next = NULL
           /\ \A t \in Task : Contains(s, t) => until[t] <= f.wakeup
        \/ /\ next \in Task /\ Contains(s, next)
           /\ \A t \in Task : Before(s, t, next) => until[t] <= f.wakeup
    <3>1. CASE ~OnList(pos, l)
      <4>1. next = First(s)
        BY <3>1 DEF ScanNext
      <4>2. \/ First(s) = NULL /\ s = <<>>
            \/ First(s) \in Task /\ Contains(s, First(s)) /\ \A t : ~Before(s, t, First(s))
        BY <1>6, FirstIs
      <4> HIDE DEF s, next
      <4> QED BY <4>1, <4>2 DEF Contains
    <3>2. CASE OnList(pos, l)
      <4>1. next = Successor(s, pos)
        BY <3>2 DEF ScanNext
      <4>2. Contains(s, pos) /\ until[pos] <= f.wakeup
        BY <1>5, <1>6, <1>9, <1>11, <3>2
      <4>3. \/ /\ Successor(s, pos) = NULL
               /\ \A t : Contains(s, t) => t = pos \/ Before(s, t, pos)
            \/ /\ Successor(s, pos) \in Task /\ Contains(s, Successor(s, pos))
               /\ \A t : Before(s, t, Successor(s, pos)) => t = pos \/ Before(s, t, pos)
        BY <1>6, <4>2, SuccessorIs
      <4> HIDE DEF s, next, pos
      <4> QED BY <1>5, <4>1, <4>2, <4>3
    <3> QED BY <3>1, <3>2
  <2>2. ScanAt(f, list, suspended, next)
    BY <1>11
  <2> HIDE DEF next
  <2>3. /\ \/ /\ next = NULL
              /\ \A t \in Task : Contains(list[f.list], t) => delay_until'[t] <= f.wakeup
           \/ /\ next \in Task /\ Contains(list[f.list], next)
              /\ \A t \in Task : Before(list[f.list], t, next)
                                    => delay_until'[t] <= f.wakeup
        /\ \A u \in Task : u # f.task => delay_until'[u] = delay_until[u]
    BY <1>1, <2>1
  <2>4. Thinner(list, list)
    BY ThinnerReflexive
  <2> HIDE DEF f
  <2>5. ListInv(H)' /\ Arrives(f, f.list)
    BY <1>1, <1>7, <1>8, <2>2, <2>3, <2>4, ScanAtKeeps
  <2> QED BY <2>5 DEF f
<1> QED BY <1>1, <1>10, <1>11

-----------------------------------------------------------------------------
(* The tick.                                                                 *)

\* The stack while the interrupt adds its handler, if any.
TickedFrame(f, now) ==
    IF InHandler(f) THEN f
    ELSE [Elapse(f) EXCEPT !.wrapped = @ \/ now = 0]

TickHandler(now) ==
    [TaskFrame(NULL) EXCEPT
        !.pc = IF now = 0 THEN "overflow" ELSE "current",
        !.now = now,
        !.list = IF now = 0 THEN 1 - CurrentAt(now) ELSE CurrentAt(now)]

LEMMA TickedFrameIs ==
    ASSUME NEW f \in Frame, NEW now
    PROVE  LET g == TickedFrame(f, now)
           IN  /\ g \in Frame /\ g.pc = f.pc
               /\ \A X : f.pc = X => g.pc = X
               /\ g.task = f.task /\ g.wakeup = f.wakeup /\ g.list = f.list
               /\ g.pos = f.pos /\ g.pos_tick = f.pos_tick /\ g.now = f.now /\ g.timer = f.timer
               /\ ~InHandler(f) => /\ g.left = IF f.left = 0 THEN 0 ELSE f.left - 1
                                   /\ g.wrapped = (f.wrapped \/ now = 0)
               /\ InHandler(f) => g = f
<1> DEFINE g == TickedFrame(f, now)
<1>1. CASE InHandler(f)
  BY <1>1 DEF TickedFrame
<1>2. CASE ~InHandler(f)
  <2> DEFINE left == IF f.left = 0 THEN 0 ELSE f.left - 1
             e == [f EXCEPT !.left = left]
             w == f.wrapped \/ now = 0
  <2>1. g = [e EXCEPT !.wrapped = w]
    <3>1. e = Elapse(f) /\ g = [Elapse(f) EXCEPT !.wrapped = Elapse(f).wrapped \/ now = 0]
      BY <1>2 DEF TickedFrame, Elapse
    <3>2. e.wrapped = f.wrapped
      BY DEF Frame
    <3> HIDE DEF e, g
    <3> QED BY <3>1, <3>2
  <2>2. left \in Tick
    BY TickAssumption DEF Frame, Tick
  <2>3. w \in BOOLEAN
    BY DEF Frame
  <2> HIDE DEF g, w
  <2> HIDE DEF left
  <2>4. /\ e \in Frame /\ e.left = left
        /\ e.pc = f.pc /\ e.task = f.task /\ e.wakeup = f.wakeup /\ e.list = f.list
        /\ e.pos = f.pos /\ e.pos_tick = f.pos_tick /\ e.now = f.now /\ e.timer = f.timer
    BY <2>2 DEF Frame
  <2> HIDE DEF e
  <2>5. /\ g \in Frame /\ g.left = left /\ g.wrapped = w
        /\ g.pc = f.pc /\ g.task = f.task /\ g.wakeup = f.wakeup /\ g.list = f.list
        /\ g.pos = f.pos /\ g.pos_tick = f.pos_tick /\ g.now = f.now /\ g.timer = f.timer
    BY <2>1, <2>3, <2>4 DEF Frame
  <2> QED BY <1>2, <2>5 DEF g, left, w
<1> QED BY <1>1, <1>2

\* The task resume_list_of_tasks() finds is due, and if it finds none nobody is.
LEMMA FirstDueIs ==
    ASSUME DTypes, ByTick(list, delay_until), NEW l \in Delayed, NEW now \in Tick
    PROVE  \/ /\ FirstDue(l, now) \in Task /\ Contains(list[l], FirstDue(l, now))
              /\ now >= delay_until[FirstDue(l, now)] /\ FirstDue(l, now) # NULL
           \/ /\ FirstDue(l, now) = NULL
              /\ \A t \in Task : Contains(list[l], t) => delay_until[t] > now
<1> DEFINE s == list[l]
<1>1. s \in Seq(Task) /\ Injective(s)
  BY DEF DTypes, Lists, OneOn
<1>2. \A t \in Task : delay_until[t] \in Int /\ now \in Int
  BY TickAssumption DEF DTypes, Tick
<1>3. CASE s = <<>>
  BY <1>3 DEF FirstDue, Contains
<1>4. CASE s # <<>>
  <2>1. Head(s) \in Task /\ Contains(s, Head(s)) /\ Head(s) # NULL
    BY <1>1, <1>4, NullAssumption DEF Contains
  <2>2. CASE now >= delay_until[Head(s)]
    BY <1>4, <2>1, <2>2 DEF FirstDue
  <2>3. CASE ~(now >= delay_until[Head(s)])
    <3>1. FirstDue(l, now) = NULL
      BY <2>3 DEF FirstDue
    <3>2. ASSUME NEW t \in Task, Contains(s, t) PROVE delay_until[t] > now
      <4>1. t = Head(s) \/ Before(s, Head(s), t)
        BY <1>1, <1>4, <3>2 DEF Contains, Before
      <4>2. delay_until[Head(s)] <= delay_until[t]
        BY <1>2, <2>1, <4>1 DEF ByTick
      <4> QED BY <1>2, <2>1, <2>3, <4>2
    <3> QED BY <3>1, <3>2
  <2> QED BY <2>2, <2>3
<1> QED BY <1>3, <1>4

\* What goes on of handler f: nothing, or a frame that looks at a due task.
Found(g, f, cur) ==
    /\ g \in Frame /\ InHandler(g) /\ FrameOK(g) /\ g.now = f.now
    /\ g.task \in Task /\ Contains(list[g.list], g.task)
    /\ \/ /\ g.pc = f.pc /\ g.list = f.list
          /\ f.pc = "overflow" \/ f.now >= delay_until[g.task]
       \/ /\ f.pc = "overflow" /\ g.pc = "current" /\ g.list = cur
          /\ f.now >= delay_until[g.task]
          /\ \A t \in Task : ~Contains(list[f.list], t)

NothingFound(f, cur) ==
    /\ f.pc = "overflow" =>
          /\ \A t \in Task : ~Contains(list[f.list], t)
          /\ \A t \in Task : Contains(list[cur], t) => delay_until[t] > f.now
    /\ f.pc = "current" =>
          \A t \in Task : Contains(list[f.list], t) => delay_until[t] > f.now

LEMMA HandlerIs ==
    ASSUME DTypes, ByTick(list, delay_until), NEW f \in Frame, InHandler(f),
           FrameOK(f), NEW cur \in Delayed
    PROVE  \/ Handler(f, cur) = <<>> /\ NothingFound(f, cur)
           \/ \E g : Handler(f, cur) = <<g>> /\ Found(g, f, cur)
<1> DEFINE bound == IF f.pc = "overflow" THEN MAX_DELAY ELSE f.now
           due == FirstDue(f.list, bound)
           next == FirstDue(cur, f.now)
<1>1. /\ f.list \in Delayed /\ f.now \in Tick /\ bound \in Tick
      /\ f.pc = "overflow" => f.now = 0
      /\ ~f.timer
  BY TickAssumption DEF Frame, Tick, MAX_DELAY, FrameOK
<1>2. \/ /\ due \in Task /\ due # NULL /\ Contains(list[f.list], due)
         /\ bound >= delay_until[due]
      \/ /\ due = NULL
         /\ \A t \in Task : Contains(list[f.list], t) => delay_until[t] > bound
  BY <1>1, FirstDueIs
<1>3. \/ /\ next \in Task /\ next # NULL /\ Contains(list[cur], next)
         /\ f.now >= delay_until[next]
      \/ /\ next = NULL
         /\ \A t \in Task : Contains(list[cur], t) => delay_until[t] > f.now
  BY <1>1, FirstDueIs
<1>4. Handler(f, cur) = IF due # NULL THEN <<[f EXCEPT !.task = due]>>
                        ELSE IF f.pc = "overflow" /\ next # NULL
                        THEN <<[f EXCEPT !.pc = "current", !.list = cur, !.task = next]>>
                        ELSE <<>>
  BY DEF Handler
<1>5. f.pc = "overflow" => \A t \in Task : ~(delay_until[t] > bound)
  BY TickAssumption DEF DTypes, Tick, MAX_DELAY
<1>6. CASE due # NULL
  <2> DEFINE g == [f EXCEPT !.task = due]
  <2>1. due \in Task /\ Contains(list[f.list], due) /\ bound >= delay_until[due]
    BY <1>2, <1>6
  <2>2. /\ g \in Frame /\ g.pc = f.pc /\ g.now = f.now /\ g.list = f.list
        /\ g.task = due /\ g.timer = f.timer /\ g.pos = f.pos
    BY <2>1 DEF Frame
  <2>3. Handler(f, cur) = <<g>>
    BY <1>4, <1>6
  <2> HIDE DEF g, due
  <2>4. Found(g, f, cur)
    BY <1>1, <2>1, <2>2 DEF Found, FrameOK, InHandler
  <2> QED BY <2>3, <2>4
<1>7. CASE due = NULL /\ f.pc = "overflow" /\ next # NULL
  <2> DEFINE g == [f EXCEPT !.pc = "current", !.list = cur, !.task = next]
  <2>1. next \in Task /\ Contains(list[cur], next) /\ f.now >= delay_until[next]
    BY <1>3, <1>7
  <2>2. /\ g \in Frame /\ g.pc = "current" /\ g.now = f.now /\ g.list = cur
        /\ g.task = next /\ g.timer = f.timer
    BY <2>1 DEF Frame, PC
  <2>3. Handler(f, cur) = <<g>>
    BY <1>4, <1>7
  <2>4. \A t \in Task : ~Contains(list[f.list], t)
    BY <1>2, <1>5, <1>7, NullAssumption
  <2> HIDE DEF g, next, due
  <2>5. InHandler(g) /\ FrameOK(g)
    BY <1>1, <2>1, <2>2 DEF FrameOK, InHandler
  <2>6. Found(g, f, cur)
    BY <1>7, <2>1, <2>2, <2>4, <2>5 DEF Found
  <2> QED BY <2>3, <2>6
<1>8. CASE due = NULL /\ ~(f.pc = "overflow" /\ next # NULL)
  <2>1. Handler(f, cur) = <<>>
    BY <1>4, <1>8
  <2>2. \A t \in Task : Contains(list[f.list], t) => delay_until[t] > bound
    BY <1>2, <1>8, NullAssumption
  <2>3. f.pc = "overflow" => \A t \in Task : Contains(list[cur], t) => delay_until[t] > f.now
    BY <1>3, <1>8, NullAssumption
  <2> QED BY <1>5, <2>1, <2>2, <2>3 DEF NothingFound
<1> QED BY <1>6, <1>7, <1>8

TickedStack(now) == [i \in DOMAIN stack |-> TickedFrame(stack[i], now)]

LEMMA TickIs ==
    ASSUME NEW H, ListInv(H), TickInterrupt
    PROVE  LET now == (tick + 1) % TickMod
               s == TickedStack(now)
               f == TickHandler(now)
           IN  /\ tick' = now /\ current' = CurrentAt(now)
               /\ now \in Tick /\ current' \in Delayed
               /\ UNCHANGED <<suspended, list, delay_until>>
               /\ sleep' = [t \in Task |-> [Elapse(sleep[t]) EXCEPT !.fresh = FALSE]]
               /\ s \in Seq(Frame) /\ Nested(s, H) /\ Len(s) = Len(stack)
               /\ \A i \in 1 .. Len(stack) : s[i] = TickedFrame(stack[i], now)
               /\ f \in Frame /\ InHandler(f) /\ FrameOK(f)
               /\ f.pc = (IF now = 0 THEN "overflow" ELSE "current") /\ f.now = now
               /\ f.list = IF now = 0 THEN current ELSE current'
               /\ \/ stack' = s /\ NothingFound(f, current')
                  \/ \E g : stack' = Append(s, g) /\ Found(g, f, current')
<1> DEFINE now == (tick + 1) % TickMod
           s == TickedStack(now)
           f == TickHandler(now)
<1>1. /\ tick' = now /\ current' = CurrentAt(now)
      /\ stack' = s \o Handler(f, CurrentAt(now))
      /\ sleep' = [t \in Task |-> [Elapse(sleep[t]) EXCEPT !.fresh = FALSE]]
      /\ UNCHANGED <<suspended, list, delay_until>>
  BY Zenon DEF TickInterrupt, TickedStack, TickedFrame, TickHandler
<1>2. now \in Tick /\ CurrentAt(now) \in Delayed /\ current \in Delayed
  BY TickAssumption DEF ListInv, DTypes, Tick, CurrentAt, Delayed
<1>3. stack \in Seq(Frame) /\ DTypes /\ ByTick(list, delay_until)
  BY DEF ListInv, DTypes
<1>4. /\ s \in Seq(Frame) /\ Len(s) = Len(stack)
      /\ \A i \in 1 .. Len(stack) : s[i] = TickedFrame(stack[i], now)
  <2>1. \A i \in 1 .. Len(stack) : TickedFrame(stack[i], now) \in Frame
    BY <1>3, TickedFrameIs
  <2>2. Len(stack) \in Nat /\ s = [i \in 1 .. Len(stack) |-> TickedFrame(stack[i], now)]
    BY <1>3 DEF TickedStack
  <2> HIDE DEF s, now
  <2> QED BY <2>1, <2>2
<1>5. Nested(s, H)
  <2> HIDE DEF s, now
  <2>1. \A i \in 1 .. Len(s) : s[i].pc = stack[i].pc /\ i \in 1 .. Len(stack)
    BY <1>3, <1>4, TickedFrameIs
  <2> QED BY <1>4, <2>1 DEF ListInv, Nested, InHandler
<1>6. /\ f \in Frame /\ InHandler(f) /\ FrameOK(f)
      /\ f.pc = (IF now = 0 THEN "overflow" ELSE "current") /\ f.now = now
      /\ f.list = IF now = 0 THEN current ELSE CurrentAt(now)
  <2> DEFINE l == IF now = 0 THEN 1 - CurrentAt(now) ELSE CurrentAt(now)
             p == IF now = 0 THEN "overflow" ELSE "current"
             e == TaskFrame(NULL)
  <2>1. l \in Delayed /\ l = IF now = 0 THEN current ELSE CurrentAt(now)
    BY <1>2 DEF Delayed, CurrentAt
  <2>2. f = [e EXCEPT !.pc = p, !.now = now, !.list = l]
    BY DEF TickHandler
  <2>3. e \in Frame /\ e.timer = FALSE
    BY TickAssumption DEF TaskFrame, Frame, PC, Tick, Delayed
  <2>4. p \in {"overflow", "current"}
    OBVIOUS
  <2> HIDE DEF f, e, l, p, now
  <2>5. f \in Frame /\ f.pc = p /\ f.now = now /\ f.list = l /\ f.timer = FALSE
    BY <1>2, <2>1, <2>2, <2>3, <2>4 DEF Frame, PC
  <2> QED BY <2>1, <2>4, <2>5 DEF FrameOK, InHandler, p
<1>7. \/ Handler(f, CurrentAt(now)) = <<>> /\ NothingFound(f, CurrentAt(now))
      \/ \E g : Handler(f, CurrentAt(now)) = <<g>> /\ Found(g, f, CurrentAt(now))
  <2> HIDE DEF f, now
  <2> QED BY <1>2, <1>3, <1>6, HandlerIs
<1>8. \/ stack' = s /\ NothingFound(f, current')
      \/ \E g : stack' = Append(s, g) /\ Found(g, f, current')
  <2>1. CASE Handler(f, CurrentAt(now)) = <<>> /\ NothingFound(f, CurrentAt(now))
    <3> HIDE DEF s, f, now
    <3>1. s \o <<>> = s
      BY <1>4
    <3> QED BY <1>1, <2>1, <3>1
  <2>2. CASE \E g : Handler(f, CurrentAt(now)) = <<g>> /\ Found(g, f, CurrentAt(now))
    <3>1. PICK g : Handler(f, CurrentAt(now)) = <<g>> /\ Found(g, f, CurrentAt(now))
      BY <2>2
    <3> HIDE DEF s, f, now
    <3>2. s \o <<g>> = Append(s, g)
      BY <1>4, <3>1 DEF Found
    <3> QED BY <1>1, <3>1, <3>2
  <2> QED BY <1>7, <2>1, <2>2
<1> HIDE DEF s, f, now
<1>9. /\ tick' = now /\ current' = CurrentAt(now)
      /\ now \in Tick /\ current' \in Delayed
      /\ f.list = IF now = 0 THEN current ELSE current'
  BY <1>1, <1>2, <1>6
<1> QED BY <1>1, <1>4, <1>5, <1>6, <1>8, <1>9 DEF now, s, f

-----------------------------------------------------------------------------
(* The steps of the module, for the lists.                                   *)

LEMMA StackIs ==
    ASSUME NEW H, ListInv(H), stack # <<>>
    PROVE  /\ stack \in Seq(Frame) /\ Nested(stack, H)
           /\ Len(stack) \in Nat /\ Len(stack) \in 1 .. Len(stack)
           /\ Top = Last(stack) /\ Top = stack[Len(stack)]
           /\ Top \in Frame /\ FrameOK(Top) /\ Scanned(Top, list, delay_until)
<1>1. stack \in Seq(Frame) /\ Nested(stack, H)
  BY DEF ListInv, DTypes
<1>2. /\ Len(stack) \in Nat /\ Len(stack) \in 1 .. Len(stack)
      /\ Last(stack) = stack[Len(stack)] /\ Last(stack) \in Frame
  BY <1>1, TopIs
<1> QED BY <1>1, <1>2 DEF Top, ListInv

LEMMA StartIs ==
    ASSUME NEW H, "run" \notin H, "read" \notin H, ListInv(H), NEW t \in Task, TaskStart(t)
    PROVE  /\ stack' = Append(stack, TaskFrame(t)) /\ stack' \in Seq(Frame)
           /\ Nested(stack', H) /\ FromFrames(stack', stack, TaskFrame(t))
           /\ TaskFrame(t) \in Frame /\ FrameOK(TaskFrame(t)) /\ TaskFrame(t).pc = "run"
           /\ \A i \in 1 .. Len(stack) : stack[i].pc \notin H
           /\ UNCHANGED <<tick, current, suspended, list, delay_until, sleep>>
<1>1. TaskFrame(t) \in Frame /\ FrameOK(TaskFrame(t)) /\ TaskFrame(t).pc = "run"
  BY FrameTypes
<1>2. /\ stack' = Append(stack, TaskFrame(t))
      /\ UNCHANGED <<tick, current, suspended, list, delay_until, sleep>>
      /\ stack = <<>> \/ (stack # <<>> /\ (Top.pc = "run" \/ Top.pc = "read"))
  BY DEF TaskStart, Executes
<1>3. stack \in Seq(Frame) /\ Nested(stack, H)
  BY DEF ListInv, DTypes
<1>4. \A i \in 1 .. Len(stack) : stack[i].pc \notin H
  <2>1. CASE stack = <<>>
    BY <2>1
  <2>2. CASE stack # <<>> /\ (Top.pc = "run" \/ Top.pc = "read")
    <3>1. Len(stack) \in Nat /\ Top = Last(stack) /\ Top = stack[Len(stack)]
      BY <2>2, StackIs
    <3>2. \A i \in 1 .. Len(stack) - 1 : stack[i].pc \notin H
      BY <1>3, <2>2, <3>1, NothingBelow DEF InHandler
    <3> QED BY <2>2, <3>1, <3>2
  <2> QED BY <1>2, <2>1, <2>2
<1> DEFINE f == TaskFrame(t)
<1> HIDE DEF f
<1>5. f \in Frame
  BY <1>1 DEF f
<1>6. /\ Append(stack, f) \in Seq(Frame) /\ Nested(Append(stack, f), H)
      /\ FromFrames(Append(stack, f), stack, f)
  BY <1>3, <1>4, <1>5, PushIs
<1> QED BY <1>1, <1>2, <1>4, <1>6 DEF f

LEMMA StartKeeps ==
    ASSUME NEW H, "run" \notin H, "read" \notin H, ListInv(H), NEW t \in Task, TaskStart(t)
    PROVE  ListInv(H)'
BY StartIs, OnlyFrames

LEMMA ReturnKeeps ==
    ASSUME NEW H, ListInv(H), TaskReturn
    PROVE  ListInv(H)'
<1>1. /\ stack # <<>> /\ stack' = Front(stack)
      /\ UNCHANGED <<tick, current, suspended, list, delay_until, sleep>>
  BY DEF TaskReturn, Executes
<1>2. /\ Front(stack) \in Seq(Frame) /\ Nested(Front(stack), H)
      /\ FromFrames(Front(stack), stack, Top)
  BY <1>1, StackIs, PopIs
<1>3. Len(stack) \in Nat /\ stack' \in Seq(Frame) /\ Nested(stack', H)
  BY <1>1, <1>2, StackIs
<1>4. \A i \in 1 .. Len(stack') : \E j \in 1 .. Len(stack) : stack'[i] = stack[j]
  BY <1>1, StackIs, PopIs DEF FromFrames
<1>5. ASSUME NEW i \in 1 .. Len(stack')
      PROVE  /\ FrameOK(stack'[i])
             /\ stack'[i].pc = "scan" =>
                   \E j \in 1 .. Len(stack) : SameScan(stack'[i], stack[j])
  BY <1>4 DEF ListInv, SameScan
<1> QED BY <1>1, <1>3, <1>5, NothingInserted, ThinnerReflexive DEF ListInv, DTypes

LEMMA StackStays ==
    ASSUME NEW H, ListInv(H), UNCHANGED stack
    PROVE  /\ stack' \in Seq(Frame) /\ Nested(stack', H)
           /\ \A f : FromFrames(stack', stack, f)
BY DEF ListInv, DTypes, FromFrames

LEMMA SuspendKeeps ==
    ASSUME NEW H, ListInv(H), NEW t \in Task, TaskSuspend(t)
    PROVE  ListInv(H)'
<1>1. FrameOK(TaskFrame(t)) /\ TaskFrame(t).pc # "scan"
  BY FrameTypes
<1> QED BY <1>1, StackStays, TaskLeaves DEF TaskSuspend

LEMMA ResumeKeeps ==
    ASSUME NEW H, ListInv(H), NEW t \in Task, TaskResume(t)
    PROVE  ListInv(H)'
<1>1. FrameOK(TaskFrame(t)) /\ TaskFrame(t).pc # "scan"
  BY FrameTypes
<1> QED BY <1>1, StackStays, TaskLeaves DEF TaskResume, Resume

\* The frame of a task_delay() that read the tick.
LEMMA ReadTickIs ==
    ASSUME NEW H, ListInv(H), NEW d \in Delays, ReadTick(d)
    PROVE  LET f == [Top EXCEPT !.pc = "read", !.now = tick,
                                !.wakeup = (tick + d) % TickMod,
                                !.left = d, !.wrapped = FALSE]
           IN  /\ stack # <<>> /\ Top.pc = "run" /\ stack' = Append(Front(stack), f)
               /\ f \in Frame /\ FrameOK(f) /\ f.pc = "read" /\ f.now = tick
               /\ f.wakeup = (tick + d) % TickMod /\ f.left = d /\ ~f.wrapped
               /\ f.task = Top.task
               /\ UNCHANGED <<tick, current, suspended, list, delay_until, sleep>>
<1> DEFINE wakeup == (tick + d) % TickMod
           f == [Top EXCEPT !.pc = "read", !.now = tick, !.wakeup = wakeup,
                            !.left = d, !.wrapped = FALSE]
<1>1. /\ stack # <<>> /\ Top.pc = "run" /\ stack' = Append(Front(stack), f)
      /\ UNCHANGED <<tick, current, suspended, list, delay_until, sleep>>
  BY DEF ReadTick, Executes, Replace
<1>2. Top \in Frame /\ FrameOK(Top)
  BY <1>1, StackIs
<1>3. d \in Tick /\ wakeup \in Tick /\ tick \in Tick
  BY TickAssumption DEF ListInv, DTypes, Tick
<1> HIDE DEF wakeup
<1>4. /\ f \in Frame /\ f.pc = "read" /\ f.now = tick /\ f.wakeup = wakeup
      /\ f.left = d /\ f.wrapped = FALSE /\ f.task = Top.task
  BY <1>2, <1>3 DEF Frame, PC
<1> HIDE DEF f
<1>5. FrameOK(f)
  BY <1>1, <1>2, <1>4 DEF FrameOK, InHandler
<1> QED BY <1>1, <1>4, <1>5 DEF f, wakeup

LEMMA ReadTickKeeps ==
    ASSUME NEW H, ListInv(H), NEW d \in Delays, ReadTick(d)
    PROVE  ListInv(H)'
<1> DEFINE f == [Top EXCEPT !.pc = "read", !.now = tick,
                            !.wakeup = (tick + d) % TickMod,
                            !.left = d, !.wrapped = FALSE]
<1>1. /\ stack # <<>> /\ Top.pc = "run" /\ stack' = Append(Front(stack), f)
      /\ f \in Frame /\ FrameOK(f) /\ f.pc = "read"
      /\ UNCHANGED <<tick, current, suspended, list, delay_until, sleep>>
  BY ReadTickIs
<1> HIDE DEF f
<1>2. /\ stack \in Seq(Frame) /\ Nested(stack, H) /\ ~InHandler(Last(stack))
  BY <1>1, StackIs DEF InHandler
<1>3. stack' \in Seq(Frame) /\ Nested(stack', H) /\ FromFrames(stack', stack, f)
  BY <1>1, <1>2, ReplaceIs
<1> QED BY <1>1, <1>3, OnlyFrames

LEMMA TaskDelayKeeps ==
    ASSUME NEW H, "scan" \in H, ListInv(H), TaskDelay
    PROVE  ListInv(H)'
<1>1. stack # <<>> /\ Top.pc = "read" /\ DelayUntil(Top)
  BY DEF TaskDelay, Executes
<1>2. Top \in Frame /\ Top.task \in Task /\ ~InHandler(Top) /\ Top.pc # "scan"
  BY <1>1, StackIs DEF FrameOK, InHandler
<1> QED BY <1>1, <1>2, DelayUntilKeeps

LEMMA TickedFrameOK ==
    ASSUME NEW f \in Frame, FrameOK(f), NEW now
    PROVE  /\ FrameOK(TickedFrame(f, now))
           /\ TickedFrame(f, now).pc = "scan" => SameScan(TickedFrame(f, now), f)
<1> DEFINE g == TickedFrame(f, now)
<1>1. /\ g \in Frame /\ g.pc = f.pc /\ g.task = f.task /\ g.wakeup = f.wakeup
      /\ g.list = f.list /\ g.pos = f.pos /\ g.pos_tick = f.pos_tick
      /\ g.now = f.now /\ g.timer = f.timer
  BY TickedFrameIs
<1> HIDE DEF g
<1>2. FrameOK(g)
  BY <1>1 DEF FrameOK, InHandler
<1>3. g.pc = "scan" => SameScan(g, f)
  BY <1>1 DEF SameScan
<1> QED BY <1>2, <1>3 DEF g

\* The stack with the handler of the tick, or without.
LEMMA TickedStackIs ==
    ASSUME NEW H, ListInv(H), TickInterrupt
    PROVE  /\ stack' \in Seq(Frame) /\ Nested(stack', H)
           /\ \A i \in 1 .. Len(stack) :
                 i \in 1 .. Len(stack') /\ stack'[i] = TickedFrame(stack[i], tick')
           /\ \/ /\ Len(stack') = Len(stack)
                 /\ NothingFound(TickHandler(tick'), current')
              \/ /\ Len(stack') = Len(stack) + 1
                 /\ Found(stack'[Len(stack) + 1], TickHandler(tick'), current')
<1> DEFINE now == (tick + 1) % TickMod
           s == TickedStack(now)
           f == TickHandler(now)
<1>1. /\ tick' = now
      /\ s \in Seq(Frame) /\ Nested(s, H) /\ Len(s) = Len(stack)
      /\ \A i \in 1 .. Len(stack) : s[i] = TickedFrame(stack[i], now)
      /\ \/ stack' = s /\ NothingFound(f, current')
         \/ \E g : stack' = Append(s, g) /\ Found(g, f, current')
  BY TickIs
<1>2. Len(stack) \in Nat
  BY DEF ListInv, DTypes
<1> HIDE DEF s, f, now
<1>3. CASE stack' = s /\ NothingFound(f, current')
  BY <1>1, <1>2, <1>3 DEF f
<1>4. CASE \E g : stack' = Append(s, g) /\ Found(g, f, current')
  <2>1. PICK g : stack' = Append(s, g) /\ Found(g, f, current')
    BY <1>4
  <2>2. g \in Frame /\ InHandler(g)
    BY <2>1 DEF Found
  <2>3. /\ stack' \in Seq(Frame) /\ Nested(stack', H)
        /\ Len(stack') = Len(s) + 1 /\ stack'[Len(s) + 1] = g
        /\ \A i \in 1 .. Len(s) : stack'[i] = s[i]
    BY <1>1, <2>1, <2>2, PushIs
  <2>4. \A i \in 1 .. Len(stack) : i \in 1 .. Len(stack') /\ stack'[i] = TickedFrame(stack[i], now)
    BY <1>1, <1>2, <2>3
  <2>5. Len(stack') = Len(stack) + 1 /\ Found(stack'[Len(stack) + 1], f, current')
    BY <1>1, <2>1, <2>3
  <2> QED BY <1>1, <2>3, <2>4, <2>5 DEF f
<1> QED BY <1>1, <1>3, <1>4

LEMMA TickKeeps ==
    ASSUME NEW H, ListInv(H), TickInterrupt
    PROVE  ListInv(H)'
<1>1. /\ stack' \in Seq(Frame) /\ Nested(stack', H)
      /\ \A i \in 1 .. Len(stack) : stack'[i] = TickedFrame(stack[i], tick')
      /\ \/ Len(stack') = Len(stack)
         \/ /\ Len(stack') = Len(stack) + 1
            /\ Found(stack'[Len(stack) + 1], TickHandler(tick'), current')
  BY TickedStackIs
<1>2. /\ tick' = (tick + 1) % TickMod /\ current' \in Delayed
      /\ (tick + 1) % TickMod \in Tick
      /\ UNCHANGED <<suspended, list, delay_until>>
      /\ sleep' = [t \in Task |-> [Elapse(sleep[t]) EXCEPT !.fresh = FALSE]]
  BY TickIs
<1>3. sleep' \in [Task -> Sleep]
  <2>1. ASSUME NEW t \in Task PROVE [Elapse(sleep[t]) EXCEPT !.fresh = FALSE] \in Sleep
    <3>1. sleep[t] \in Sleep
      BY DEF ListInv, DTypes
    <3> DEFINE left == IF sleep[t].left = 0 THEN 0 ELSE sleep[t].left - 1
    <3>2. left \in Tick
      BY <3>1, TickAssumption DEF Sleep, Tick
    <3>3. Elapse(sleep[t]) = [sleep[t] EXCEPT !.left = left]
      BY DEF Elapse
    <3> HIDE DEF left
    <3> QED BY <3>1, <3>2, <3>3 DEF Sleep
  <2> QED BY <1>2, <2>1
<1>4. ASSUME NEW i \in 1 .. Len(stack')
      PROVE  /\ FrameOK(stack'[i])
             /\ stack'[i].pc = "scan" =>
                   \E j \in 1 .. Len(stack) : SameScan(stack'[i], stack[j])
  <2>1. CASE i \in 1 .. Len(stack)
    <3>1. stack[i] \in Frame /\ FrameOK(stack[i])
      BY <2>1 DEF ListInv, DTypes
    <3> QED BY <1>1, <2>1, <3>1, TickedFrameOK
  <2>2. CASE i \notin 1 .. Len(stack)
    <3>1. Len(stack) \in Nat /\ Len(stack') \in Nat
      BY <1>1 DEF ListInv, DTypes
    <3>2. i = Len(stack) + 1 /\ Found(stack'[i], TickHandler(tick'), current')
      BY <1>1, <2>2, <3>1
    <3> QED BY <3>2 DEF Found, InHandler
  <2> QED BY <2>1, <2>2
<1>5. list' \in Lists /\ OneOn(list') /\ Thinner(list', list)
  BY <1>2, ThinnerReflexive DEF ListInv, DTypes
<1>6. suspended' \subseteq Task /\ \A t \in suspended' : ~Listed(list', t)
  BY <1>2 DEF ListInv, DTypes
<1>7. tick' \in Tick /\ UNCHANGED delay_until
  BY <1>2
<1> QED BY <1>1, <1>2, <1>3, <1>4, <1>5, <1>6, <1>7, NothingInserted

LEMMA TickResumeIs ==
    ASSUME NEW H, ListInv(H), TickResume
    PROVE  LET f == [Top EXCEPT !.task = NULL]
           IN  /\ stack # <<>> /\ InHandler(Top) /\ Top.task \in Task
               /\ f \in Frame /\ InHandler(f) /\ FrameOK(f) /\ f.task = NULL
               /\ f.pc = Top.pc /\ f.list = Top.list /\ f.now = Top.now
               /\ stack' = Append(Front(stack), f)
               /\ Resume(Top.task)
<1> DEFINE f == [Top EXCEPT !.task = NULL]
<1>1. /\ stack # <<>> /\ InHandler(Top) /\ Top.task # NULL /\ Resume(Top.task)
      /\ stack' = Append(Front(stack), f)
  BY DEF TickResume, Replace
<1>2. Top \in Frame /\ FrameOK(Top)
  BY <1>1, StackIs
<1>3. Top.task \in Task
  BY <1>1, <1>2 DEF Frame
<1>4. /\ f \in Frame /\ f.task = NULL /\ f.pc = Top.pc /\ f.list = Top.list
      /\ f.now = Top.now /\ f.timer = Top.timer /\ f.pos = Top.pos
  BY <1>2 DEF Frame
<1> HIDE DEF f
<1>5. InHandler(f) /\ FrameOK(f)
  BY <1>1, <1>2, <1>4 DEF FrameOK, InHandler
<1> QED BY <1>1, <1>3, <1>4, <1>5 DEF f

LEMMA TickResumeKeeps ==
    ASSUME NEW H, ListInv(H), TickResume
    PROVE  ListInv(H)'
<1> DEFINE f == [Top EXCEPT !.task = NULL]
<1>1. /\ stack # <<>> /\ Top.task \in Task
      /\ f \in Frame /\ InHandler(f) /\ FrameOK(f)
      /\ stack' = Append(Front(stack), f) /\ Resume(Top.task)
  BY TickResumeIs
<1> HIDE DEF f
<1>2. stack \in Seq(Frame) /\ Nested(stack, H)
  BY <1>1, StackIs
<1>3. stack' \in Seq(Frame) /\ Nested(stack', H) /\ FromFrames(stack', stack, f)
  BY <1>1, <1>2, ReplaceIs
<1>4. f.pc # "scan"
  BY <1>1 DEF InHandler
<1> QED BY <1>1, <1>3, <1>4, TaskLeaves DEF Resume

LEMMA TickLoopIs ==
    ASSUME NEW H, ListInv(H), TickLoop
    PROVE  /\ stack # <<>> /\ InHandler(Top)
           /\ UNCHANGED <<tick, current, suspended, list, delay_until, sleep>>
           /\ \/ stack' = Front(stack) /\ NothingFound(Top, current)
              \/ \E g : stack' = Append(Front(stack), g) /\ Found(g, Top, current)
<1>1. /\ stack # <<>> /\ InHandler(Top)
      /\ UNCHANGED <<tick, current, suspended, list, delay_until, sleep>>
      /\ stack' = Front(stack) \o Handler(Top, current)
  BY DEF TickLoop
<1>2. Top \in Frame /\ FrameOK(Top) /\ Front(stack) \in Seq(Frame)
  BY <1>1, StackIs, PopIs
<1>3. DTypes /\ ByTick(list, delay_until) /\ current \in Delayed
  BY DEF ListInv, DTypes
<1>4. \/ Handler(Top, current) = <<>> /\ NothingFound(Top, current)
      \/ \E g : Handler(Top, current) = <<g>> /\ Found(g, Top, current)
  BY <1>1, <1>2, <1>3, HandlerIs
<1> DEFINE s == Front(stack)
<1> HIDE DEF s
<1>5. s \in Seq(Frame) /\ stack' = s \o Handler(Top, current)
  BY <1>1, <1>2 DEF s
<1>6. s \o <<>> = s
  BY <1>5
<1>7. \A g \in Frame : s \o <<g>> = Append(s, g)
  BY <1>5
<1>8. \A g : Found(g, Top, current) => g \in Frame
  BY DEF Found
<1> QED BY <1>1, <1>4, <1>5, <1>6, <1>7, <1>8 DEF s

LEMMA TickLoopKeeps ==
    ASSUME NEW H, ListInv(H), TickLoop
    PROVE  ListInv(H)'
<1>1. /\ stack # <<>> /\ InHandler(Top)
      /\ UNCHANGED <<tick, current, suspended, list, delay_until, sleep>>
      /\ \/ stack' = Front(stack)
         \/ \E g : stack' = Append(Front(stack), g) /\ Found(g, Top, current)
  BY TickLoopIs
<1>2. stack \in Seq(Frame) /\ Nested(stack, H) /\ InHandler(Last(stack))
  BY <1>1, StackIs
<1>3. CASE stack' = Front(stack)
  <2>1. FrameOK(Top) /\ Top.pc # "scan"
    BY <1>1, StackIs DEF InHandler
  <2>2. stack' \in Seq(Frame) /\ Nested(stack', H) /\ FromFrames(stack', stack, Top)
    BY <1>1, <1>2, <1>3, PopIs
  <2> QED BY <1>1, <2>1, <2>2, OnlyFrames
<1>4. ASSUME NEW g, stack' = Append(Front(stack), g), Found(g, Top, current)
      PROVE  ListInv(H)'
  <2>1. g \in Frame /\ InHandler(g) /\ FrameOK(g) /\ g.pc # "scan"
    BY <1>4 DEF Found, InHandler
  <2>2. stack' \in Seq(Frame) /\ Nested(stack', H) /\ FromFrames(stack', stack, g)
    BY <1>1, <1>2, <1>4, <2>1, ReplaceIs
  <2> QED BY <1>1, <2>1, <2>2, OnlyFrames
<1> QED BY <1>1, <1>3, <1>4

-----------------------------------------------------------------------------
(* The theorems about the lists.                                             *)

\* The inductive invariant.
DelayInv == ListInv(Locks)

LEMMA DelayInvInit == Init => DelayInv
<1> SUFFICES ASSUME Init PROVE ListInv(Locks)
  BY DEF DelayInv
<1>1. stack = <<>> /\ stack \in Seq(Frame) /\ Len(stack) = 0 /\ suspended = {}
  BY DEF Init
<1>2. list = [l \in Delayed |-> <<>>] /\ list \in Lists
  BY DEF Init, Lists
<1>3. \A l \in Delayed : list[l] = <<>> /\ Len(list[l]) = 0
  BY <1>2
<1>4. OneOn(list) /\ ByTick(list, delay_until)
  BY <1>3 DEF OneOn, ByTick, Injective, Contains, Before
<1>5. tick \in Tick /\ current \in Delayed /\ delay_until \in [Task -> Tick]
  BY TickAssumption DEF Init, Tick, Delayed
<1>6. sleep \in [Task -> Sleep]
  BY TickAssumption DEF Init, Sleep, NoSleep, Tick
<1> QED BY <1>1, <1>2, <1>4, <1>5, <1>6 DEF ListInv, DTypes, Nested

LEMMA DelayInvNext == DelayInv /\ [Next]_vars => DelayInv'
<1> SUFFICES ASSUME DelayInv, [Next]_vars PROVE DelayInv'
  OBVIOUS
<1> DEFINE H == Locks
<1>1. "run" \notin H /\ "read" \notin H /\ "scan" \in H
  BY DEF Locks, Searches
<1>2. ListInv(H)
  BY DEF DelayInv
<1> HIDE DEF H
<1>3. ASSUME NEW t \in Task, TaskStart(t) PROVE ListInv(H)'
  BY <1>1, <1>2, <1>3, StartKeeps
<1>4. ASSUME NEW t \in Task, TaskSuspend(t) PROVE ListInv(H)'
  BY <1>2, <1>4, SuspendKeeps
<1>5. ASSUME NEW t \in Task, TaskResume(t) PROVE ListInv(H)'
  BY <1>2, <1>5, ResumeKeeps
<1>6. ASSUME TaskReturn PROVE ListInv(H)'
  BY <1>2, <1>6, ReturnKeeps
<1>7. ASSUME NEW d \in Delays, ReadTick(d) PROVE ListInv(H)'
  BY <1>2, <1>7, ReadTickKeeps
<1>8. ASSUME TaskDelay PROVE ListInv(H)'
  BY <1>1, <1>2, <1>8, TaskDelayKeeps
<1>9. ASSUME ScanCompare PROVE ListInv(H)'
  BY <1>1, <1>2, <1>9, ScanCompareKeeps
<1>10. ASSUME TickInterrupt PROVE ListInv(H)'
  BY <1>2, <1>10, TickKeeps
<1>11. ASSUME TickResume PROVE ListInv(H)'
  BY <1>2, <1>11, TickResumeKeeps
<1>12. ASSUME TickLoop PROVE ListInv(H)'
  BY <1>2, <1>12, TickLoopKeeps
<1>13. ASSUME UNCHANGED vars PROVE ListInv(H)'
  BY <1>2, <1>13 DEF vars, ListInv, DTypes
<1>14. ListInv(H)'
  BY <1>3, <1>4, <1>5, <1>6, <1>7, <1>8, <1>9, <1>10, <1>11, <1>12, <1>13 DEF Next
<1> QED BY <1>14 DEF DelayInv, H

\* The invariant of the lists holds, however ticks, resumes and suspends
\* interrupt the scans.
THEOREM DelayInvariantHolds == Spec => []DelayInv
<1>1. Init => DelayInv
  BY DelayInvInit
<1>2. DelayInv /\ [Next]_vars => DelayInv'
  BY DelayInvNext
<1> QED BY <1>1, <1>2, PTL DEF Spec

LEMMA TypesFollow ==
    ASSUME DTypes
    PROVE  TypeOK
<1>1. Sleeping \cap suspended = {}
  <2>1. \A t \in Task : t \in Sleeping <=> Listed(list, t)
    BY OnListIs DEF DTypes
  <2> QED BY <2>1 DEF Sleeping, DTypes
<1>2. ASSUME NEW k \in Delayed, NEW l \in Delayed,
             NEW i \in DOMAIN list[k], NEW j \in DOMAIN list[l],
             list[k][i] = list[l][j]
      PROVE  k = l /\ i = j
  <2>1. list[k] \in Seq(Task) /\ list[l] \in Seq(Task) /\ OneOn(list)
    BY DEF DTypes, Lists
  <2>2. list[k][i] \in Task /\ Contains(list[k], list[k][i]) /\ Contains(list[l], list[k][i])
    BY <1>2, <2>1 DEF Contains
  <2>3. k = l
    BY <2>1, <2>2 DEF OneOn
  <2> QED BY <1>2, <2>1, <2>3 DEF OneOn, Injective
<1> QED BY <1>1, <1>2 DEF TypeOK, DTypes, Lists

LEMMA SortedFollows ==
    ASSUME NEW H, ListInv(H)
    PROVE  SortedByTick
<1> SUFFICES ASSUME NEW l \in Delayed
             PROVE  IsSorted([i \in DOMAIN list[l] |-> delay_until[list[l][i]]], <=)
  BY DEF SortedByTick
<1> DEFINE s == list[l]
           d == [i \in DOMAIN s |-> delay_until[s[i]]]
<1>1. s \in Seq(Task) /\ DOMAIN s = 1 .. Len(s) /\ Len(s) \in Nat
  BY DEF ListInv, DTypes, Lists
<1>2. \A i \in 1 .. Len(s) : s[i] \in Task
  BY <1>1
<1>3. d = [i \in 1 .. Len(s) |-> delay_until[s[i]]]
  BY <1>1
<1> HIDE DEF d, s
<1>4. Len(d) = Len(s) /\ \A i \in 1 .. Len(s) : d[i] = delay_until[s[i]]
  BY <1>1, <1>3
<1>5. ASSUME NEW i \in 1 .. Len(d), NEW j \in 1 .. Len(d), i < j
      PROVE  d[i] <= d[j]
  <2>1. Before(s, s[i], s[j]) /\ s[i] \in Task /\ s[j] \in Task
    BY <1>2, <1>4, <1>5 DEF Before
  <2>2. delay_until[s[i]] <= delay_until[s[j]]
    BY <2>1 DEF ListInv, ByTick, s
  <2> QED BY <1>4, <2>2
<1>6. IsSorted(d, <=)
  BY <1>5 DEF IsSorted
<1> QED BY <1>6 DEF d, s

\* The variables have their types, and no task is on two lists: each list_node
\* is removed before it is inserted (lines 519, 533-535, 589).
THEOREM DelayTypesHold == Spec => []TypeOK
<1>1. DelayInv => TypeOK
  BY TypesFollow DEF DelayInv, ListInv
<1> QED BY <1>1, DelayInvariantHolds, PTL

\* The delayed lists stay sorted by delay_until, although the scan for a place
\* enables interrupts at each step (lines 471-501).
THEOREM DelayedListsStaySorted == Spec => []SortedByTick
<1>1. DelayInv => SortedByTick
  BY SortedFollows DEF DelayInv
<1> QED BY <1>1, DelayInvariantHolds, PTL

-----------------------------------------------------------------------------
(* The time left.                                                            *)

\* The ticks until a task with delay_until due is resumed from list l.
Span(l, due, now, cur) == due - now + (IF l = cur THEN 0 ELSE TickMod)

\* A delay of which left ticks are left is over by then.
Fits(l, due, left, now, cur) == left = 0 \/ left <= Span(l, due, now, cur)

\* The frames that delay a task, and the list to which that will go.
Delaying == {"read", "reset", "scan"}
Goes(f, cur) ==
    IF f.pc = "scan" THEN f.list ELSE IF f.now < f.wakeup THEN cur ELSE 1 - cur

FrameFits(f, now, cur) ==
    f.pc \in Delaying => Fits(Goes(f, cur), f.wakeup, f.left, now, cur)

\* Of the tasks a handler resumes, the delays are over.
Resumes(f, t, ls, until) ==
    \/ Contains(ls[f.list], t) /\ (f.pc = "overflow" \/ until[t] <= f.now)
    \/ t = f.task /\ Listed(ls, t)
HandlerFits(f, ls, until, sl) ==
    InHandler(f) => \A t \in Task : Resumes(f, t, ls, until) => sl[t].left = 0

TimeInv ==
    /\ \A i \in 1 .. Len(stack) : /\ FrameFits(stack[i], tick, current)
                                  /\ HandlerFits(stack[i], list, delay_until, sleep)
    /\ \A l \in Delayed, t \in Task :
          Contains(list[l], t) => Fits(l, delay_until[t], sleep[t].left, tick, current)

Less(left) == IF left = 0 THEN 0 ELSE left - 1

LEMMA WakeupIs ==
    ASSUME NEW n \in 0 .. TickMod - 1, NEW d \in 0 .. TickMod - 1,
           TickMod \in Nat, TickMod > 1
    PROVE  \/ n + d < TickMod /\ (n + d) % TickMod = n + d
           \/ n + d >= TickMod /\ (n + d) % TickMod = n + d - TickMod
<1>1. \A m \in 0 .. TickMod - 1 : m % TickMod = m
  OBVIOUS
<1>2. \A m \in 0 .. TickMod - 1 : (m + TickMod) % TickMod = m
  OBVIOUS
<1>3. CASE n + d < TickMod
  <2>1. n + d \in 0 .. TickMod - 1
    BY <1>3
  <2> QED BY <1>1, <1>3, <2>1
<1>4. CASE n + d >= TickMod
  <2> DEFINE m == n + d - TickMod
  <2>1. m \in 0 .. TickMod - 1 /\ m + TickMod = n + d
    BY <1>4
  <2>2. (m + TickMod) % TickMod = m
    BY <1>2, <2>1
  <2> QED BY <1>4, <2>1, <2>2
<1> QED BY <1>3, <1>4

LEMMA NowIs ==
    ASSUME tick \in Tick, current \in Delayed,
           NEW now, now = (tick + 1) % TickMod
    PROVE  /\ now \in Tick /\ CurrentAt(now) \in Delayed
           /\ \/ now = tick + 1 /\ now # 0 /\ CurrentAt(now) = current
              \/ now = 0 /\ tick = TickMod - 1 /\ CurrentAt(now) = 1 - current
<1>1. now \in Tick /\ CurrentAt(now) \in Delayed
  BY TickAssumption DEF Tick, Delayed, CurrentAt
<1>2. \/ now = tick + 1 /\ now # 0
      \/ now = 0 /\ tick = TickMod - 1
  <2>1. TickMod \in Nat /\ TickMod > 1 /\ tick \in 0 .. TickMod - 1
    BY TickAssumption DEF Tick
  <2>2. CASE tick = TickMod - 1
    <3>1. tick + 1 = TickMod
      BY <2>1, <2>2
    <3>2. TickMod % TickMod = 0
      BY <2>1
    <3> QED BY <2>2, <3>1, <3>2
  <2>3. CASE tick # TickMod - 1
    <3>1. tick + 1 \in 1 .. TickMod - 1
      BY <2>1, <2>3
    <3>2. \A n \in 1 .. TickMod - 1 : n % TickMod = n
      BY <2>1
    <3> QED BY <3>1, <3>2
  <2> QED BY <2>2, <2>3
<1> QED BY <1>1, <1>2 DEF CurrentAt

\* A tick passes, and the lists are swapped if it wraps.
LEMMA SpanTicks ==
    ASSUME tick \in Tick, current \in Delayed, NEW now, now = (tick + 1) % TickMod,
           NEW l \in Delayed, NEW due \in Tick, NEW left \in Tick,
           Fits(l, due, left, tick, current)
    PROVE  Fits(l, due, Less(left), now, CurrentAt(now))
<1> DEFINE cur == CurrentAt(now)
<1>1. /\ now \in Tick /\ cur \in Delayed /\ TickMod \in Nat
      /\ tick \in Int /\ now \in Int /\ due \in Int /\ left \in Int /\ due >= 0
      /\ due <= TickMod - 1 /\ left >= 0
      /\ \/ now = tick + 1 /\ cur = current
         \/ now = 0 /\ tick = TickMod - 1 /\ cur = 1 - current
  BY NowIs, TickAssumption DEF Tick
<1>2. l \in {0, 1} /\ current \in {0, 1}
  BY DEF Delayed
<1> HIDE DEF cur
<1>3. left = 0 \/ left <= due - tick + (IF l = current THEN 0 ELSE TickMod)
  BY DEF Fits, Span
<1>4. Less(left) = 0 \/ Less(left) <= due - now + (IF l = cur THEN 0 ELSE TickMod)
  <2>1. CASE left = 0
    BY <2>1 DEF Less
  <2>2. CASE left # 0 /\ now = tick + 1 /\ cur = current
    BY <1>1, <1>2, <1>3, <2>2 DEF Less
  <2>3. CASE left # 0 /\ now = 0 /\ tick = TickMod - 1 /\ cur = 1 - current
    BY <1>1, <1>2, <1>3, <2>3 DEF Less
  <2> QED BY <1>1, <2>1, <2>2, <2>3
<1> QED BY <1>4 DEF Fits, Span, cur

\* Who is due is over.
LEMMA DueIsOver ==
    ASSUME tick \in Tick, current \in Delayed, NEW due \in Tick, NEW left \in Tick,
           Fits(current, due, left, tick, current), due <= tick
    PROVE  left = 0
<1>1. tick \in Int /\ due \in Int /\ left \in Int /\ left >= 0
  BY TickAssumption DEF Tick
<1> QED BY <1>1 DEF Fits, Span

\* At the wrap of the tick this is everybody on the list of that round.
LEMMA WrapIsOver ==
    ASSUME tick \in Tick, current \in Delayed, NEW due \in Tick, NEW left \in Tick,
           Fits(current, due, left, tick, current), tick = TickMod - 1
    PROVE  left = 0
<1>1. due <= tick
  BY TickAssumption DEF Tick
<1> QED BY <1>1, DueIsOver

\* No delay gets shorter, and a handler has nobody new to resume.
LEMMA HandlerThin ==
    ASSUME NEW f \in Frame, NEW ls, NEW new, NEW until, NEW sl, NEW newsl,
           HandlerFits(f, ls, until, sl), Thinner(new, ls),
           \A t \in Task : sl[t].left = 0 => newsl[t].left = 0
    PROVE  HandlerFits(f, new, until, newsl)
<1>1. f.list \in Delayed
  BY DEF Frame
<1>2. \A t \in Task : Resumes(f, t, new, until) => Resumes(f, t, ls, until)
  BY <1>1 DEF Resumes, Thinner, Listed
<1> QED BY <1>2 DEF HandlerFits

LEMMA TimeThin ==
    ASSUME TimeInv, stack \in Seq(Frame), UNCHANGED <<tick, current, delay_until>>,
           Thinner(list', list),
           \A t \in Task : sleep'[t].left = sleep[t].left \/ sleep'[t].left = 0,
           \A i \in 1 .. Len(stack') :
              \/ \E j \in 1 .. Len(stack) : stack'[i] = stack[j]
              \/ /\ FrameFits(stack'[i], tick, current)
                 /\ HandlerFits(stack'[i], list', delay_until, sleep')
    PROVE  TimeInv'
<1>1. ASSUME NEW i \in 1 .. Len(stack')
      PROVE  /\ FrameFits(stack'[i], tick, current)
             /\ HandlerFits(stack'[i], list', delay_until, sleep')
  <2>1. CASE \E j \in 1 .. Len(stack) : stack'[i] = stack[j]
    <3>1. PICK j \in 1 .. Len(stack) : stack'[i] = stack[j]
      BY <2>1
    <3>2. /\ stack[j] \in Frame /\ FrameFits(stack[j], tick, current)
          /\ HandlerFits(stack[j], list, delay_until, sleep)
      BY DEF TimeInv
    <3>3. HandlerFits(stack[j], list', delay_until, sleep')
      BY <3>2, HandlerThin
    <3> QED BY <3>1, <3>2, <3>3
  <2> QED BY <2>1
<1>2. ASSUME NEW l \in Delayed, NEW t \in Task, Contains(list'[l], t)
      PROVE  Fits(l, delay_until[t], sleep'[t].left, tick, current)
  BY <1>2 DEF TimeInv, Thinner, Fits
<1> QED BY <1>1, <1>2 DEF TimeInv

\* The delay of a frame through a tick.
LEMMA FrameTicks ==
    ASSUME tick \in Tick, current \in Delayed, NEW now, now = (tick + 1) % TickMod,
           NEW f \in Frame, FrameFits(f, tick, current)
    PROVE  FrameFits(TickedFrame(f, now), now, CurrentAt(now))
<1> DEFINE g == TickedFrame(f, now)
           cur == CurrentAt(now)
<1> SUFFICES ASSUME g.pc \in Delaying
             PROVE  Fits(Goes(g, cur), g.wakeup, g.left, now, cur)
  BY DEF FrameFits
<1>1. /\ g.pc = f.pc /\ g.wakeup = f.wakeup /\ g.list = f.list /\ g.now = f.now
      /\ ~InHandler(f) => g.left = Less(f.left)
  BY TickedFrameIs DEF Less
<1>2. f.pc \in Delaying /\ g.left = Less(f.left)
  BY <1>1 DEF InHandler, Delaying
<1>3. /\ f.list \in Delayed /\ f.wakeup \in Tick /\ f.left \in Tick /\ f.now \in Tick
      /\ Goes(f, current) \in Delayed
      /\ Fits(Goes(f, current), f.wakeup, f.left, tick, current)
  BY <1>2 DEF FrameFits, Frame, Goes, Delayed
<1>4. /\ now \in Tick
      /\ \/ cur = current
         \/ now = 0 /\ tick = TickMod - 1 /\ cur = 1 - current
  BY NowIs
<1>5. Fits(Goes(f, current), f.wakeup, Less(f.left), now, cur)
  BY <1>3, SpanTicks
<1>6. Goes(g, cur) = Goes(f, cur)
  BY <1>1 DEF Goes
<1> HIDE DEF g, cur
<1>7. CASE Goes(f, cur) = Goes(f, current)
  BY <1>1, <1>2, <1>5, <1>6, <1>7
<1>8. CASE Goes(f, cur) # Goes(f, current)
  <2>1. cur # current /\ f.pc # "scan"
    BY <1>8 DEF Goes
  <2>2. now = 0 /\ tick = TickMod - 1 /\ cur = 1 - current
    BY <1>4, <2>1
  <2>3. CASE f.now < f.wakeup
    <3>1. Goes(f, current) = current
      BY <2>1, <2>3 DEF Goes
    <3>2. f.left = 0
      BY <1>3, <2>2, <3>1, WrapIsOver
    <3> QED BY <1>2, <3>2 DEF Less, Fits
  <2>4. CASE ~(f.now < f.wakeup)
    <3>1. Goes(f, current) = 1 - current /\ Goes(f, cur) = 1 - cur
      BY <2>1, <2>4 DEF Goes
    <3>2. f.wakeup \in Int /\ f.left \in Int /\ f.left >= 0 /\ TickMod \in Nat /\ TickMod > 1
      BY <1>3, TickAssumption DEF Tick
    <3>3. f.left = 0 \/ f.left <= f.wakeup - tick + TickMod
      BY <1>3, <3>1 DEF Fits, Span, Delayed
    <3>4. 1 - cur # cur
      BY <2>2 DEF Delayed
    <3>5. Less(f.left) = 0 \/ Less(f.left) <= f.wakeup - now + TickMod
      BY <2>2, <3>2, <3>3 DEF Less
    <3> QED BY <1>1, <1>2, <1>6, <3>1, <3>4, <3>5 DEF Fits, Span
  <2> QED BY <2>3, <2>4
<1> QED BY <1>7, <1>8 DEF g, cur

\* The tasks that a handler finds are over, and so are those it goes on with.
LEMMA FoundFits ==
    ASSUME NEW f \in Frame, NEW g, NEW cur, NEW sl, OneOn(list),
           Found(g, f, cur), InHandler(f),
           \A t \in Task : Contains(list[f.list], t)
                           /\ (f.pc = "overflow" \/ delay_until[t] <= f.now)
                              => sl[t].left = 0,
           f.pc = "overflow" =>
              \A t \in Task : Contains(list[cur], t) /\ delay_until[t] <= f.now
                                 => sl[t].left = 0
    PROVE  HandlerFits(g, list, delay_until, sl)
<1>1. /\ g \in Frame /\ g.list \in Delayed /\ g.now = f.now /\ g.task \in Task
      /\ Contains(list[g.list], g.task)
  BY DEF Found, Frame
<1>2. ASSUME NEW t \in Task, Contains(list[g.list], t),
             g.pc = "overflow" \/ delay_until[t] <= g.now
      PROVE  sl[t].left = 0
  BY <1>1, <1>2 DEF Found
<1>3. g.pc = "overflow" \/ delay_until[g.task] <= g.now
  <2>1. f.now >= delay_until[g.task] <=> delay_until[g.task] <= f.now
    OBVIOUS
  <2> QED BY <2>1, <1>1 DEF Found
<1>4. sl[g.task].left = 0
  BY <1>1, <1>2, <1>3
<1> QED BY <1>2, <1>4 DEF HandlerFits, Resumes

LEMMA TimeTick ==
    ASSUME NEW H, ListInv(H), TimeInv, TickInterrupt
    PROVE  TimeInv'
<1> DEFINE now == (tick + 1) % TickMod
           f == TickHandler(now)
<1>1. /\ tick' = now /\ current' = CurrentAt(now) /\ current' \in Delayed
      /\ UNCHANGED <<suspended, list, delay_until>>
      /\ sleep' = [t \in Task |-> [Elapse(sleep[t]) EXCEPT !.fresh = FALSE]]
      /\ f \in Frame /\ InHandler(f) /\ f.now = now
      /\ f.pc = (IF now = 0 THEN "overflow" ELSE "current")
      /\ f.list = IF now = 0 THEN current ELSE current'
  BY TickIs
<1>2. /\ \A i \in 1 .. Len(stack) :
            i \in 1 .. Len(stack') /\ stack'[i] = TickedFrame(stack[i], tick')
      /\ \/ Len(stack') = Len(stack)
         \/ /\ Len(stack') = Len(stack) + 1
            /\ Found(stack'[Len(stack) + 1], TickHandler(tick'), current')
      /\ Len(stack') \in Nat
  BY TickedStackIs
<1>3. /\ tick \in Tick /\ current \in Delayed /\ stack \in Seq(Frame)
      /\ OneOn(list) /\ delay_until \in [Task -> Tick] /\ sleep \in [Task -> Sleep]
  BY DEF ListInv, DTypes
<1> HIDE DEF f
<1>4. /\ now \in Tick
      /\ \/ now = tick + 1 /\ now # 0 /\ current' = current
         \/ now = 0 /\ tick = TickMod - 1 /\ current' = 1 - current
  BY <1>1, <1>3, NowIs
<1>5. ASSUME NEW t \in Task
      PROVE  sleep'[t].left = Less(sleep[t].left) /\ sleep[t].left \in Tick
  <2>1. sleep[t] \in Sleep /\ sleep'[t] = [Elapse(sleep[t]) EXCEPT !.fresh = FALSE]
    BY <1>1, <1>3
  <2> QED BY <2>1 DEF Elapse, Less, Sleep
<1>6. ASSUME NEW l \in Delayed, NEW t \in Task, Contains(list[l], t)
      PROVE  /\ Fits(l, delay_until[t], sleep'[t].left, now, current')
             /\ now = 0 /\ l = current => sleep'[t].left = 0
             /\ l = current' /\ delay_until[t] <= now => sleep'[t].left = 0
  <2>1. Fits(l, delay_until[t], sleep[t].left, tick, current)
    BY <1>6 DEF TimeInv
  <2>2. delay_until[t] \in Tick /\ sleep[t].left \in Tick /\ sleep'[t].left \in Tick
    BY <1>3, <1>5, TickAssumption DEF Less, Tick
  <2>3. Fits(l, delay_until[t], sleep'[t].left, now, current')
    BY <1>1, <1>3, <1>5, <2>1, <2>2, SpanTicks
  <2>4. ASSUME now = 0, l = current PROVE sleep'[t].left = 0
    <3>1. tick = TickMod - 1
      BY <1>4, <2>4
    <3>2. sleep[t].left = 0
      BY <1>3, <2>1, <2>2, <2>4, <3>1, WrapIsOver
    <3> QED BY <1>5, <3>2 DEF Less
  <2>5. ASSUME l = current', delay_until[t] <= now PROVE sleep'[t].left = 0
    <3>1. now \in Int /\ delay_until[t] \in Int /\ sleep'[t].left \in Int /\ sleep'[t].left >= 0
      BY <1>4, <2>2, TickAssumption DEF Tick
    <3> QED BY <2>3, <2>5, <3>1 DEF Fits, Span
  <2> QED BY <2>3, <2>4, <2>5
<1> HIDE DEF now
<1>7. ASSUME NEW i \in 1 .. Len(stack')
      PROVE  /\ FrameFits(stack'[i], now, current')
             /\ HandlerFits(stack'[i], list, delay_until, sleep')
  <2>1. CASE i \in 1 .. Len(stack)
    <3> DEFINE e == stack[i]
    <3>1. /\ e \in Frame /\ FrameFits(e, tick, current)
          /\ HandlerFits(e, list, delay_until, sleep)
      BY <1>3, <2>1 DEF TimeInv
    <3>2. stack'[i] = TickedFrame(e, now)
      BY <1>1, <1>2, <2>1
    <3>3. FrameFits(stack'[i], now, current')
      BY <1>1, <1>3, <3>1, <3>2, FrameTicks DEF now
    <3>4. HandlerFits(stack'[i], list, delay_until, sleep')
      <4>1. CASE InHandler(e)
        <5>1. stack'[i] = e
          BY <3>1, <3>2, <4>1 DEF TickedFrame
        <5>2. \A t \in Task : sleep[t].left = 0 => sleep'[t].left = 0
          BY <1>5 DEF Less
        <5>3. HandlerFits(e, list, delay_until, sleep')
          BY <3>1, <5>2, ThinnerReflexive, HandlerThin
        <5> QED BY <5>1, <5>3
      <4>2. CASE ~InHandler(e)
        <5>1. stack'[i].pc = e.pc
          BY <3>1, <3>2, TickedFrameIs
        <5>2. ~InHandler(stack'[i])
          BY <4>2, <5>1 DEF InHandler
        <5> QED BY <5>2 DEF HandlerFits
      <4> QED BY <4>1, <4>2
    <3> QED BY <3>3, <3>4
  <2>2. CASE i \notin 1 .. Len(stack)
    <3>1. Len(stack) \in Nat /\ Len(stack') \in Nat
      BY <1>2, <1>3
    <3>2. i = Len(stack) + 1 /\ Found(stack'[i], f, current')
      BY <1>1, <1>2, <2>2, <3>1 DEF f, now
    <3>3. FrameFits(stack'[i], now, current')
      BY <3>2 DEF Found, InHandler, Delaying, FrameFits
    <3>4. \A t \in Task : Contains(list[f.list], t)
                          /\ (f.pc = "overflow" \/ delay_until[t] <= f.now)
                             => sleep'[t].left = 0
      BY <1>1, <1>3, <1>6
    <3>5. \A t \in Task : Contains(list[current'], t) /\ delay_until[t] <= f.now
                             => sleep'[t].left = 0
      BY <1>1, <1>6
    <3>6. HandlerFits(stack'[i], list, delay_until, sleep')
      BY <1>1, <1>3, <3>2, <3>4, <3>5, FoundFits
    <3> QED BY <3>3, <3>6
  <2> QED BY <2>1, <2>2
<1> QED BY <1>1, <1>6, <1>7 DEF TimeInv

\* Over a handler there are only handlers.
LEMMA NoHandlers ==
    ASSUME ListInv(Locks), stack # <<>>, ~InHandler(Top)
    PROVE  \A i \in 1 .. Len(stack) : ~InHandler(stack[i])
<1>1. /\ stack \in Seq(Frame) /\ Nested(stack, Locks) /\ Len(stack) \in Nat
      /\ Top = Last(stack) /\ Top = stack[Len(stack)]
  BY StackIs
<1>2. \A i \in 1 .. Len(stack) - 1 : stack[i].pc \notin Locks
  BY <1>1, NothingBelow
<1> QED BY <1>1, <1>2 DEF Locks, InHandler

\* A step of task_delay_now_until() in frame f.
DelayStep(f) ==
    /\ f \in Frame /\ f.task \in Task
    /\ Arrives(f, Goes(f, current))
    /\ delay_until'[f.task] = f.wakeup
    /\ \A u \in Task : u # f.task => delay_until'[u] = delay_until[u]

\* Its first step, after the tick was read.
LEMMA DelayUntilIs ==
    ASSUME NEW H, "scan" \in H, ListInv(H), stack # <<>>,
           Top.pc \in {"read", "reset"}, DelayUntil(Top)
    PROVE  DelayStep(Top)
<1>1. Top \in Frame /\ Top.task \in Task /\ ~InHandler(Top) /\ Top.pc # "scan"
  BY StackIs DEF FrameOK, InHandler
<1>2. /\ Arrives(Top, DelayList(Top.now, Top.wakeup))
      /\ delay_until' = [delay_until EXCEPT ![Top.task] = Top.wakeup]
  BY <1>1, DelayUntilKeeps
<1>3. DelayList(Top.now, Top.wakeup) = Goes(Top, current)
  BY <1>1 DEF DelayList, Goes, overflow
<1>4. delay_until \in [Task -> Tick]
  BY DEF ListInv, DTypes
<1>5. /\ delay_until'[Top.task] = Top.wakeup
      /\ \A u \in Task : u # Top.task => delay_until'[u] = delay_until[u]
  BY <1>1, <1>2, <1>4
<1> QED BY <1>1, <1>2, <1>3, <1>5 DEF DelayStep

LEMMA ScanCompareIs ==
    ASSUME NEW H, "scan" \in H, ListInv(H), ScanCompare
    PROVE  DelayStep(Top) /\ stack # <<>> /\ Top.pc = "scan"
<1>1. stack # <<>> /\ Top.pc = "scan" /\ UNCHANGED delay_until
  BY DEF ScanCompare, Executes
<1>2. /\ Top \in Frame /\ FrameOK(Top) /\ ~InHandler(Top)
      /\ Scanned(Top, list, delay_until)
  BY <1>1, StackIs DEF InHandler
<1>3. Top.task \in Task /\ delay_until[Top.task] = Top.wakeup
  BY <1>1, <1>2 DEF FrameOK, Scanned
<1>4. Arrives(Top, Top.list) /\ Top.list = Goes(Top, current)
  BY <1>1, ScanCompareKeeps DEF Goes
<1> QED BY <1>1, <1>2, <1>3, <1>4 DEF DelayStep

\* Handler h does not resume the task of f before its delay is over.
Passes(h, f, cur) ==
    /\ h.task # f.task
    /\ h.list = Goes(f, cur) /\ (h.pc = "overflow" \/ f.wakeup <= h.now)
          => f.left = 0

LEMMA TimeInsert ==
    ASSUME NEW H, ListInv(H), TimeInv, NEW f, DelayStep(f), f.pc \in Delaying,
           FrameFits(f, tick, current),
           \A i \in 1 .. Len(stack) : InHandler(stack[i]) => Passes(stack[i], f, current)
    PROVE  TimeInv'
<1> DEFINE l == Goes(f, current)
<1>1. /\ f \in Frame /\ f.task \in Task /\ UNCHANGED <<tick, current>>
      /\ Fits(l, f.wakeup, f.left, tick, current)
      /\ \A i \in 1 .. Len(stack') :
            \/ \E j \in 1 .. Len(stack) : stack'[i] = stack[j]
            \/ stack'[i].pc = "run" \/ Scans(stack'[i], f, l)
      /\ \A k \in Delayed, u \in Task :
            Contains(list'[k], u) =>
               \/ u # f.task /\ Contains(list[k], u) /\ sleep'[u] = sleep[u]
               \/ /\ u = f.task /\ k = l
                  /\ sleep'[u] = [left |-> f.left, wrapped |-> f.wrapped, fresh |-> TRUE]
  BY DEF DelayStep, Arrives, FrameFits
<1>2. /\ delay_until'[f.task] = f.wakeup
      /\ \A u \in Task : u # f.task => delay_until'[u] = delay_until[u]
  BY DEF DelayStep
<1> HIDE DEF l
<1>3. ASSUME NEW i \in 1 .. Len(stack')
      PROVE  /\ FrameFits(stack'[i], tick, current)
             /\ HandlerFits(stack'[i], list', delay_until', sleep')
  <2>1. ASSUME NEW j \in 1 .. Len(stack), stack'[i] = stack[j]
        PROVE  /\ FrameFits(stack'[i], tick, current)
               /\ HandlerFits(stack'[i], list', delay_until', sleep')
    <3> DEFINE h == stack[j]
    <3>1. /\ FrameFits(h, tick, current) /\ h \in Frame /\ h.list \in Delayed
          /\ HandlerFits(h, list, delay_until, sleep)
          /\ InHandler(h) => Passes(h, f, current)
      <4>1. h \in Frame
        BY DEF ListInv, DTypes
      <4>2. h.list \in Delayed
        BY <4>1 DEF Frame
      <4> QED BY <4>1, <4>2 DEF TimeInv
    <3> HIDE DEF h
    <3>2. ASSUME InHandler(h), NEW u \in Task, Resumes(h, u, list', delay_until')
          PROVE  sleep'[u].left = 0
      <4>1. CASE /\ Contains(list'[h.list], u)
                 /\ h.pc = "overflow" \/ delay_until'[u] <= h.now
        <5>1. CASE u # f.task
          <6>1. Resumes(h, u, list, delay_until) /\ sleep'[u] = sleep[u]
            BY <1>1, <1>2, <3>1, <4>1, <5>1 DEF Resumes
          <6> QED BY <3>1, <3>2, <6>1 DEF HandlerFits
        <5>2. CASE u = f.task
          <6>1. h.list = l /\ sleep'[u].left = f.left
            BY <1>1, <3>1, <4>1, <5>2
          <6> QED BY <1>2, <3>1, <3>2, <4>1, <5>2, <6>1 DEF Passes, l
        <5> QED BY <5>1, <5>2
      <4>2. CASE u = h.task /\ Listed(list', u)
        <5>1. u # f.task
          BY <3>1, <3>2, <4>2 DEF Passes
        <5>2. Listed(list, u) /\ sleep'[u] = sleep[u]
          BY <1>1, <4>2, <5>1 DEF Listed
        <5> QED BY <3>1, <3>2, <4>2, <5>2 DEF HandlerFits, Resumes
      <4> QED BY <3>2, <4>1, <4>2 DEF Resumes
    <3>3. HandlerFits(h, list', delay_until', sleep')
      BY <3>2 DEF HandlerFits
    <3> QED BY <2>1, <3>1, <3>3 DEF h
  <2>2. CASE stack'[i].pc = "run"
    BY <2>2 DEF FrameFits, HandlerFits, InHandler, Delaying
  <2>3. CASE Scans(stack'[i], f, l)
    BY <1>1, <2>3 DEF Scans, FrameFits, HandlerFits, InHandler, Goes, Delaying
  <2> QED BY <1>1, <2>1, <2>2, <2>3
<1>4. ASSUME NEW k \in Delayed, NEW u \in Task, Contains(list'[k], u)
      PROVE  Fits(k, delay_until'[u], sleep'[u].left, tick, current)
  <2>1. CASE u # f.task /\ Contains(list[k], u) /\ sleep'[u] = sleep[u]
    BY <1>2, <2>1 DEF TimeInv
  <2>2. CASE /\ u = f.task /\ k = l
             /\ sleep'[u] = [left |-> f.left, wrapped |-> f.wrapped, fresh |-> TRUE]
    BY <1>1, <1>2, <2>2
  <2> QED BY <1>1, <1>4, <2>1, <2>2
<1> QED BY <1>1, <1>3, <1>4 DEF TimeInv

\* Steps that only change the stack, or take a task off its list.
LEMMA TimeFrames ==
    ASSUME NEW H, ListInv(H), TimeInv,
           UNCHANGED <<tick, current, suspended, list, delay_until, sleep>>,
           \A i \in 1 .. Len(stack') :
              \/ \E j \in 1 .. Len(stack) : stack'[i] = stack[j]
              \/ /\ FrameFits(stack'[i], tick, current)
                 /\ HandlerFits(stack'[i], list, delay_until, sleep)
    PROVE  TimeInv'
<1>1. stack \in Seq(Frame) /\ Thinner(list', list)
  BY ThinnerReflexive DEF ListInv, DTypes
<1> QED BY <1>1, TimeThin

\* That a task leaves its list, as of one on no list nothing is asked.
Leaves(t) ==
    list' = Unlisted(t) /\ sleep' = Awake(t) /\ UNCHANGED <<tick, current, delay_until>>

LEMMA LeavingIs ==
    ASSUME NEW H, ListInv(H), NEW t \in Task, Leaves(t)
    PROVE  /\ Thinner(list', list) /\ UNCHANGED <<tick, current, delay_until>>
           /\ ~Listed(list', t)
           /\ \A u \in Task : sleep'[u] = sleep[u] \/ sleep'[u] = NoSleep
           /\ \A u \in Task : u # t => sleep'[u] = sleep[u]
<1>1. list' = Unlisted(t) /\ sleep' = Awake(t) /\ UNCHANGED <<tick, current, delay_until>>
  BY DEF Leaves
<1>2. Thinner(Unlisted(t), list) /\ ~Listed(Unlisted(t), t)
  BY UnlistedIs DEF ListInv, DTypes
<1>3. \A u \in Task : /\ sleep'[u] = sleep[u] \/ sleep'[u] = NoSleep
                      /\ u # t => sleep'[u] = sleep[u]
  BY <1>1 DEF Awake, ListInv, DTypes
<1> QED BY <1>1, <1>2, <1>3

LEMMA TimeLeaves ==
    ASSUME NEW H, ListInv(H), TimeInv, NEW t \in Task, Leaves(t),
           \A i \in 1 .. Len(stack') :
              \/ \E j \in 1 .. Len(stack) : stack'[i] = stack[j]
              \/ /\ FrameFits(stack'[i], tick, current)
                 /\ HandlerFits(stack'[i], list', delay_until, sleep')
    PROVE  TimeInv'
<1>1. /\ Thinner(list', list) /\ UNCHANGED <<tick, current, delay_until>>
      /\ \A u \in Task : sleep'[u] = sleep[u] \/ sleep'[u] = NoSleep
  BY LeavingIs
<1>2. \A u \in Task : sleep'[u].left = sleep[u].left \/ sleep'[u].left = 0
  BY <1>1 DEF NoSleep
<1>3. stack \in Seq(Frame)
  BY DEF ListInv, DTypes
<1> QED BY <1>1, <1>2, <1>3, TimeThin

\* The frames of what a list of frames becomes.
LEMMA FrontIs ==
    ASSUME NEW H, ListInv(H), stack # <<>>
    PROVE  /\ \A i \in 1 .. Len(Front(stack)) : \E j \in 1 .. Len(stack) : Front(stack)[i] = stack[j]
           /\ \A g \in Frame : \A i \in 1 .. Len(Append(Front(stack), g)) :
                 \/ Append(Front(stack), g)[i] = g
                 \/ \E j \in 1 .. Len(stack) : Append(Front(stack), g)[i] = stack[j]
<1>1. /\ stack \in Seq(Frame) /\ Nested(stack, H)
      /\ Front(stack) \in Seq(Frame) /\ Len(Front(stack)) = Len(stack) - 1
      /\ \A i \in 1 .. Len(stack) - 1 : Front(stack)[i] = stack[i]
  BY StackIs, PopIs
<1> DEFINE s == Front(stack)
<1> HIDE DEF s
<1>2. \A i \in 1 .. Len(s) : i \in 1 .. Len(stack) /\ s[i] = stack[i]
  BY <1>1 DEF s
<1>3. s \in Seq(Frame)
  BY <1>1 DEF s
<1>4. ASSUME NEW g \in Frame, NEW i \in 1 .. Len(Append(s, g))
      PROVE  Append(s, g)[i] = g \/ \E j \in 1 .. Len(stack) : Append(s, g)[i] = stack[j]
  <2>1. Len(Append(s, g)) = Len(s) + 1 /\ Append(s, g)[Len(s) + 1] = g
    BY <1>3
  <2>2. \A k \in 1 .. Len(s) : Append(s, g)[k] = s[k]
    BY <1>3
  <2>3. i = Len(s) + 1 \/ i \in 1 .. Len(s)
    BY <1>3, <2>1
  <2> QED BY <1>2, <2>1, <2>2, <2>3
<1> QED BY <1>2, <1>4 DEF s

\* A task is not put to sleep for longer than it asked for, if the tick did
\* not wrap meanwhile.
FrameLate(f, now, cur) ==
    f.pc \in Delaying /\ ~f.wrapped
        => f.left >= Span(Goes(f, cur), f.wakeup, now, cur)

\* A frame f that has just read the tick, for a delay of d ticks.
Asks(f, d) == f.now = tick /\ f.wakeup = (tick + d) % TickMod /\ f.left = d

LEMMA AskedFits ==
    ASSUME NEW H, ListInv(H), NEW f, NEW d \in Tick, f.pc # "scan", Asks(f, d)
    PROVE  /\ FrameFits(f, tick, current)
           /\ d # 0 => FrameLate(f, tick, current)
<1>1. /\ tick \in 0 .. TickMod - 1 /\ d \in 0 .. TickMod - 1 /\ TickMod \in Nat /\ TickMod > 1
      /\ current \in {0, 1}
  BY TickAssumption DEF ListInv, DTypes, Tick, Delayed
<1>2. \/ tick + d < TickMod /\ f.wakeup = tick + d
      \/ tick + d >= TickMod /\ f.wakeup = tick + d - TickMod
  BY <1>1, WakeupIs DEF Asks
<1>3. Goes(f, current) = IF tick < f.wakeup THEN current ELSE 1 - current
  BY DEF Goes, Asks
<1>4. d = 0 \/ d = Span(Goes(f, current), f.wakeup, tick, current)
  BY <1>1, <1>2, <1>3 DEF Span
<1>5. d >= d
  BY <1>1
<1> QED BY <1>4, <1>5 DEF FrameFits, FrameLate, Fits, Asks

LEMMA TimeReadTick ==
    ASSUME NEW H, ListInv(H), TimeInv, NEW d \in Delays, ReadTick(d)
    PROVE  TimeInv'
<1> DEFINE f == [Top EXCEPT !.pc = "read", !.now = tick,
                            !.wakeup = (tick + d) % TickMod,
                            !.left = d, !.wrapped = FALSE]
<1>1. /\ stack # <<>> /\ stack' = Append(Front(stack), f)
      /\ f \in Frame /\ f.pc = "read" /\ f.now = tick
      /\ f.wakeup = (tick + d) % TickMod /\ f.left = d
      /\ UNCHANGED <<tick, current, suspended, list, delay_until, sleep>>
  BY ReadTickIs
<1> HIDE DEF f
<1>2. \A i \in 1 .. Len(stack') :
         stack'[i] = f \/ \E j \in 1 .. Len(stack) : stack'[i] = stack[j]
  BY <1>1, FrontIs
<1>5. FrameFits(f, tick, current)
  BY <1>1, AskedFits, TickAssumption DEF Asks, Tick
<1>6. HandlerFits(f, list, delay_until, sleep)
  BY <1>1 DEF HandlerFits, InHandler
<1> QED BY <1>1, <1>2, <1>5, <1>6, TimeFrames

LEMMA TimeStart ==
    ASSUME NEW H, "run" \notin H, "read" \notin H, ListInv(H), TimeInv,
           NEW t \in Task, TaskStart(t)
    PROVE  TimeInv'
<1>1. /\ FromFrames(stack', stack, TaskFrame(t)) /\ TaskFrame(t).pc = "run"
      /\ UNCHANGED <<tick, current, suspended, list, delay_until, sleep>>
  BY StartIs
<1>2. ASSUME NEW f, f.pc = "run"
      PROVE  FrameFits(f, tick, current) /\ HandlerFits(f, list, delay_until, sleep)
  BY <1>2 DEF FrameFits, Delaying, HandlerFits, InHandler
<1> QED BY <1>1, <1>2, TimeFrames DEF FromFrames

LEMMA TimeReturn ==
    ASSUME NEW H, ListInv(H), TimeInv, TaskReturn
    PROVE  TimeInv'
<1>1. /\ stack # <<>> /\ stack' = Front(stack)
      /\ UNCHANGED <<tick, current, suspended, list, delay_until, sleep>>
  BY DEF TaskReturn, Executes
<1>2. \A i \in 1 .. Len(stack') : \E j \in 1 .. Len(stack) : stack'[i] = stack[j]
  BY <1>1, FrontIs
<1> QED BY <1>1, <1>2, TimeFrames

LEMMA TimeTickResume ==
    ASSUME NEW H, ListInv(H), TimeInv, TickResume
    PROVE  TimeInv'
<1> DEFINE f == [Top EXCEPT !.task = NULL]
<1>1. /\ stack # <<>> /\ InHandler(Top) /\ Top.task \in Task
      /\ f \in Frame /\ InHandler(f) /\ f.task = NULL
      /\ f.pc = Top.pc /\ f.list = Top.list /\ f.now = Top.now
      /\ stack' = Append(Front(stack), f) /\ Leaves(Top.task)
  BY TickResumeIs DEF Leaves, Resume
<1> HIDE DEF f
<1>2. \A i \in 1 .. Len(stack') :
         stack'[i] = f \/ \E j \in 1 .. Len(stack) : stack'[i] = stack[j]
  BY <1>1, FrontIs
<1>3. FrameFits(f, tick, current)
  BY <1>1 DEF FrameFits, Delaying, InHandler
<1>4. HandlerFits(f, list', delay_until, sleep')
  <2>1. HandlerFits(Top, list, delay_until, sleep) /\ Top \in Frame
    BY <1>1, StackIs DEF TimeInv
  <2>2. Thinner(list', list) /\ \A u \in Task : sleep'[u] = sleep[u] \/ sleep'[u] = NoSleep
    BY <1>1, LeavingIs
  <2>3. \A u \in Task : sleep[u].left = 0 => sleep'[u].left = 0
    BY <2>2 DEF NoSleep
  <2>4. HandlerFits(Top, list', delay_until, sleep')
    BY <2>1, <2>2, <2>3, HandlerThin
  <2> QED BY <1>1, <2>4, NullAssumption DEF HandlerFits, Resumes
<1> QED BY <1>1, <1>2, <1>3, <1>4, TimeLeaves

LEMMA TimeTickLoop ==
    ASSUME NEW H, ListInv(H), TimeInv, TickLoop
    PROVE  TimeInv'
<1>1. /\ stack # <<>> /\ InHandler(Top)
      /\ UNCHANGED <<tick, current, suspended, list, delay_until, sleep>>
      /\ \/ stack' = Front(stack)
         \/ \E g : stack' = Append(Front(stack), g) /\ Found(g, Top, current)
  BY TickLoopIs
<1>2. /\ Top \in Frame /\ FrameOK(Top) /\ HandlerFits(Top, list, delay_until, sleep)
      /\ OneOn(list) /\ tick \in Tick /\ current \in Delayed
      /\ delay_until \in [Task -> Tick] /\ sleep \in [Task -> Sleep]
  BY <1>1, StackIs DEF TimeInv, ListInv, DTypes
<1>3. CASE stack' = Front(stack)
  <2>1. \A i \in 1 .. Len(stack') : \E j \in 1 .. Len(stack) : stack'[i] = stack[j]
    BY <1>1, <1>3, FrontIs
  <2> QED BY <1>1, <2>1, TimeFrames
<1>4. ASSUME NEW g, stack' = Append(Front(stack), g), Found(g, Top, current)
      PROVE  TimeInv'
  <2>1. g \in Frame /\ InHandler(g)
    BY <1>4 DEF Found
  <2>2. \A i \in 1 .. Len(stack') :
           stack'[i] = g \/ \E j \in 1 .. Len(stack) : stack'[i] = stack[j]
    BY <1>1, <1>4, <2>1, FrontIs
  <2>3. FrameFits(g, tick, current)
    BY <2>1 DEF FrameFits, Delaying, InHandler
  <2>4. \A t \in Task : Contains(list[Top.list], t)
                        /\ (Top.pc = "overflow" \/ delay_until[t] <= Top.now)
                           => sleep[t].left = 0
    BY <1>1, <1>2 DEF HandlerFits, Resumes
  <2>5. ASSUME Top.pc = "overflow", NEW t \in Task, Contains(list[current], t),
               delay_until[t] <= Top.now
        PROVE  sleep[t].left = 0
    <3>1. Fits(current, delay_until[t], sleep[t].left, tick, current)
      BY <1>2, <2>5 DEF TimeInv
    <3>2. delay_until[t] \in Tick /\ sleep[t].left \in Tick
      BY <1>2 DEF Sleep
    <3>3. delay_until[t] <= tick
      BY <1>2, <2>5, <3>2, TickAssumption DEF FrameOK, Tick
    <3> QED BY <1>2, <3>1, <3>2, <3>3, DueIsOver
  <2>6. HandlerFits(g, list, delay_until, sleep)
    BY <1>1, <1>2, <1>4, <2>4, <2>5, FoundFits
  <2> QED BY <1>1, <2>2, <2>3, <2>6, TimeFrames
<1> QED BY <1>1, <1>3, <1>4

LEMMA TimeInvInit == Init => TimeInv
<1> SUFFICES ASSUME Init PROVE TimeInv
  OBVIOUS
<1>1. Len(stack) = 0 /\ list = [l \in Delayed |-> <<>>]
  BY DEF Init
<1>2. \A l \in Delayed : Len(list[l]) = 0
  BY <1>1
<1> QED BY <1>1, <1>2 DEF TimeInv, Contains

LEMMA TimeInvNext == DelayInv /\ TimeInv /\ [Next]_vars => TimeInv'
<1> SUFFICES ASSUME DelayInv, TimeInv, [Next]_vars PROVE TimeInv'
  OBVIOUS
<1>1. ListInv(Locks) /\ "run" \notin Locks /\ "read" \notin Locks
  BY DEF DelayInv, Locks, Searches
<1>2. ASSUME UNCHANGED stack
      PROVE  \A i \in 1 .. Len(stack') : \E j \in 1 .. Len(stack) : stack'[i] = stack[j]
  BY <1>2
<1>3. ASSUME NEW t \in Task, TaskStart(t) PROVE TimeInv'
  BY <1>1, <1>3, TimeStart
<1>4. ASSUME NEW t \in Task, TaskSuspend(t) PROVE TimeInv'
  BY <1>1, <1>2, <1>4, TimeLeaves DEF TaskSuspend, Leaves
<1>5. ASSUME NEW t \in Task, TaskResume(t) PROVE TimeInv'
  BY <1>1, <1>2, <1>5, TimeLeaves DEF TaskResume, Resume, Leaves
<1>6. ASSUME TaskReturn PROVE TimeInv'
  BY <1>1, <1>6, TimeReturn
<1>7. ASSUME NEW d \in Delays, ReadTick(d) PROVE TimeInv'
  BY <1>1, <1>7, TimeReadTick
<1>8. ASSUME DelayStep(Top), stack # <<>>, Top.pc \in {"read", "scan"} PROVE TimeInv'
  <2>1. FrameFits(Top, tick, current) /\ ~InHandler(Top) /\ Top.pc \in Delaying
    BY <1>1, <1>8, StackIs DEF TimeInv, InHandler, Delaying
  <2>2. \A i \in 1 .. Len(stack) : ~InHandler(stack[i])
    BY <1>1, <1>8, <2>1, NoHandlers
  <2> QED BY <1>1, <1>8, <2>1, <2>2, TimeInsert
<1>9. ASSUME TaskDelay PROVE TimeInv'
  BY <1>1, <1>8, <1>9, DelayUntilIs DEF TaskDelay, Executes, Locks, Searches
<1>10. ASSUME ScanCompare PROVE TimeInv'
  BY <1>1, <1>8, <1>10, ScanCompareIs DEF Locks, Searches
<1>11. ASSUME TickInterrupt PROVE TimeInv'
  BY <1>1, <1>11, TimeTick
<1>12. ASSUME TickResume PROVE TimeInv'
  BY <1>1, <1>12, TimeTickResume
<1>13. ASSUME TickLoop PROVE TimeInv'
  BY <1>1, <1>13, TimeTickLoop
<1>14. ASSUME UNCHANGED vars PROVE TimeInv'
  BY <1>14 DEF vars, TimeInv
<1> QED BY <1>3, <1>4, <1>5, <1>6, <1>7, <1>9, <1>10, <1>11, <1>12, <1>13, <1>14 DEF Next

\* What is left of a delay is at most the time until its list is emptied.
THEOREM TimeInvariantHolds == Spec => []TimeInv
<1>1. Init => TimeInv
  BY TimeInvInit
<1>2. DelayInv /\ TimeInv /\ [Next]_vars => TimeInv'
  BY TimeInvNext
<1> QED BY <1>1, <1>2, DelayInvariantHolds, PTL DEF Spec

LEMMA NobodyEarly ==
    ASSUME NEW H, ListInv(H), TimeInv, NEW t \in Sleeping, sleep[t].left > 0
    PROVE  ~(TickResume /\ Top.task = t)
<1> SUFFICES ASSUME TickResume, Top.task = t PROVE FALSE
  OBVIOUS
<1>1. stack # <<>> /\ InHandler(Top)
  BY DEF TickResume
<1>2. HandlerFits(Top, list, delay_until, sleep)
  BY <1>1, StackIs DEF TimeInv
<1>3. t \in Task /\ Listed(list, t)
  BY OnListIs DEF ListInv, DTypes, Sleeping
<1>4. sleep[t].left = 0
  BY <1>1, <1>2, <1>3 DEF HandlerFits, Resumes
<1> QED BY <1>4

\* No tick handler resumes a task whose delay is not over (lines 359-400): not
\* through the wrap of the tick, and not when handlers are nested.
THEOREM DelaysAreNotShortened == Spec => NeverEarly
<1>2. DelayInv /\ TimeInv
         => \A t \in Sleeping : sleep[t].left > 0 => ~(TickResume /\ Top.task = t)
  BY NobodyEarly DEF DelayInv
<1>3. DelayInv /\ TimeInv
         => [\A t \in Sleeping : sleep[t].left > 0 => ~(TickResume /\ Top.task = t)]_vars
  BY <1>2
<1> QED BY <1>3, DelayInvariantHolds, TimeInvariantHolds, PTL DEF NeverEarly

-----------------------------------------------------------------------------
(* The end of a delay.                                                       *)

\* A handler that resumes everybody on l, or who is due on the current list.
Wraps(f, l) == f.pc = "overflow" /\ f.list = l
Takes(f, cur, due) ==
    \/ f.pc = "overflow" /\ (f.list = cur \/ due = 0)
    \/ f.pc = "current" /\ f.list = cur /\ due <= f.now

\* Who is on a list is resumed when its delay is over: at its tick, or by a
\* handler that is at work.
SleepLate(l, t) ==
    Contains(list[l], t) /\ ~sleep[t].wrapped =>
        \/ sleep[t].left >= Span(l, delay_until[t], tick, current)
        \/ \E i \in 1 .. Len(stack) : Wraps(stack[i], l)
SleepDue(t) ==
    Contains(list[current], t) /\ ~sleep[t].fresh /\ delay_until[t] <= tick =>
        \E i \in 1 .. Len(stack) : Takes(stack[i], current, delay_until[t])

LateInv ==
    /\ \A i \in 1 .. Len(stack) : FrameLate(stack[i], tick, current)
    /\ \A l \in Delayed, t \in Task : SleepLate(l, t)
    /\ \A t \in Task : SleepDue(t)

\* The handlers on the stack go on with their work.
SameHandler(f, g) == f.pc = g.pc /\ f.list = g.list /\ f.now = g.now
SameHandlers ==
    \A j \in 1 .. Len(stack) : InHandler(stack[j]) =>
        \E i \in 1 .. Len(stack') : SameHandler(stack'[i], stack[j])

LEMMA HandlersGoOn ==
    ASSUME SameHandlers
    PROVE  /\ \A l : (\E i \in 1 .. Len(stack) : Wraps(stack[i], l))
                        => \E i \in 1 .. Len(stack') : Wraps(stack'[i], l)
           /\ \A cur, due : (\E i \in 1 .. Len(stack) : Takes(stack[i], cur, due))
                        => \E i \in 1 .. Len(stack') : Takes(stack'[i], cur, due)
<1>1. ASSUME NEW l, NEW j \in 1 .. Len(stack), Wraps(stack[j], l)
      PROVE  \E i \in 1 .. Len(stack') : Wraps(stack'[i], l)
  BY <1>1 DEF SameHandlers, SameHandler, Wraps, InHandler
<1>2. ASSUME NEW cur, NEW due, NEW j \in 1 .. Len(stack), Takes(stack[j], cur, due)
      PROVE  \E i \in 1 .. Len(stack') : Takes(stack'[i], cur, due)
  <2>1. InHandler(stack[j])
    BY <1>2 DEF Takes, InHandler
  <2>2. PICK i \in 1 .. Len(stack') : SameHandler(stack'[i], stack[j])
    BY <2>1 DEF SameHandlers
  <2>3. Takes(stack'[i], cur, due)
    BY <1>2, <2>2 DEF SameHandler, Takes
  <2> QED BY <2>3
<1> QED BY <1>1, <1>2

LEMMA LateThin ==
    ASSUME LateInv, UNCHANGED <<tick, current, delay_until>>, current \in Delayed,
           Thinner(list', list),
           \A t \in Task : Listed(list', t) => sleep'[t] = sleep[t],
           SameHandlers,
           \A i \in 1 .. Len(stack') :
              \/ \E j \in 1 .. Len(stack) : stack'[i] = stack[j]
              \/ FrameLate(stack'[i], tick, current)
    PROVE  LateInv'
<1>1. \A i \in 1 .. Len(stack') : FrameLate(stack'[i], tick, current)
  BY DEF LateInv
<1>2. ASSUME NEW l \in Delayed, NEW t \in Task, Contains(list'[l], t)
      PROVE  Contains(list[l], t) /\ sleep'[t] = sleep[t]
  BY <1>2 DEF Thinner, Listed
<1>3. ASSUME NEW l \in Delayed, NEW t \in Task PROVE SleepLate(l, t)'
  BY <1>2, HandlersGoOn DEF LateInv, SleepLate
<1>4. ASSUME NEW t \in Task PROVE SleepDue(t)'
  BY <1>2, HandlersGoOn DEF LateInv, SleepDue
<1> QED BY <1>1, <1>3, <1>4 DEF LateInv

\* Who is inserted is not due, and the handlers go on.
LEMMA LateInsert ==
    ASSUME NEW H, ListInv(H), LateInv, NEW f, DelayStep(f), f.pc \in Delaying,
           FrameLate(f, tick, current), SameHandlers
    PROVE  LateInv'
<1> DEFINE l == Goes(f, current)
<1>1. /\ f \in Frame /\ f.task \in Task /\ UNCHANGED <<tick, current>>
      /\ ~f.wrapped => f.left >= Span(l, f.wakeup, tick, current)
      /\ \A i \in 1 .. Len(stack') :
            \/ \E j \in 1 .. Len(stack) : stack'[i] = stack[j]
            \/ stack'[i].pc = "run" \/ Scans(stack'[i], f, l)
      /\ \A k \in Delayed, u \in Task :
            Contains(list'[k], u) =>
               \/ u # f.task /\ Contains(list[k], u) /\ sleep'[u] = sleep[u]
               \/ /\ u = f.task /\ k = l
                  /\ sleep'[u] = [left |-> f.left, wrapped |-> f.wrapped, fresh |-> TRUE]
  BY DEF DelayStep, Arrives, FrameLate
<1>2. /\ delay_until'[f.task] = f.wakeup
      /\ \A u \in Task : u # f.task => delay_until'[u] = delay_until[u]
  BY DEF DelayStep
<1>3. current \in Delayed
  BY DEF ListInv, DTypes
<1> HIDE DEF l
<1>4. ASSUME NEW i \in 1 .. Len(stack') PROVE FrameLate(stack'[i], tick, current)
  <2>1. CASE \E j \in 1 .. Len(stack) : stack'[i] = stack[j]
    BY <2>1 DEF LateInv
  <2>2. CASE stack'[i].pc = "run"
    BY <2>2 DEF FrameLate, Delaying
  <2>3. CASE Scans(stack'[i], f, l)
    BY <1>1, <2>3 DEF Scans, FrameLate, Goes, Delaying
  <2> QED BY <1>1, <2>1, <2>2, <2>3
<1>5. ASSUME NEW k \in Delayed, NEW u \in Task PROVE SleepLate(k, u)'
  <2> SUFFICES ASSUME Contains(list'[k], u), ~sleep'[u].wrapped
               PROVE  \/ sleep'[u].left >= Span(k, delay_until'[u], tick, current)
                      \/ \E i \in 1 .. Len(stack') : Wraps(stack'[i], k)
    BY <1>1 DEF SleepLate
  <2>1. CASE u # f.task /\ Contains(list[k], u) /\ sleep'[u] = sleep[u]
    BY <1>2, <2>1, HandlersGoOn DEF LateInv, SleepLate
  <2>2. CASE /\ u = f.task /\ k = l
             /\ sleep'[u] = [left |-> f.left, wrapped |-> f.wrapped, fresh |-> TRUE]
    BY <1>1, <1>2, <2>2
  <2> QED BY <1>1, <2>1, <2>2
<1>6. ASSUME NEW u \in Task PROVE SleepDue(u)'
  <2> SUFFICES ASSUME Contains(list'[current], u), ~sleep'[u].fresh, delay_until'[u] <= tick
               PROVE  \E i \in 1 .. Len(stack') : Takes(stack'[i], current, delay_until'[u])
    BY <1>1 DEF SleepDue
  <2>1. u # f.task /\ Contains(list[current], u) /\ sleep'[u] = sleep[u]
    BY <1>1, <1>3
  <2>2. \E i \in 1 .. Len(stack) : Takes(stack[i], current, delay_until[u])
    BY <1>2, <2>1 DEF LateInv, SleepDue
  <2> QED BY <1>2, <2>1, <2>2, HandlersGoOn
<1> QED BY <1>1, <1>4, <1>5, <1>6 DEF LateInv

LEMMA FrameLateTicks ==
    ASSUME tick \in Tick, current \in Delayed, NEW now, now = (tick + 1) % TickMod,
           NEW f \in Frame, FrameLate(f, tick, current)
    PROVE  FrameLate(TickedFrame(f, now), now, CurrentAt(now))
<1> DEFINE g == TickedFrame(f, now)
           cur == CurrentAt(now)
<1> SUFFICES ASSUME g.pc \in Delaying, ~g.wrapped
             PROVE  g.left >= Span(Goes(g, cur), g.wakeup, now, cur)
  BY DEF FrameLate
<1>1. /\ g.pc = f.pc /\ g.wakeup = f.wakeup /\ g.list = f.list /\ g.now = f.now
      /\ ~InHandler(f) => g.left = Less(f.left) /\ g.wrapped = (f.wrapped \/ now = 0)
  BY TickedFrameIs DEF Less
<1>2. /\ f.pc \in Delaying /\ g.left = Less(f.left)
      /\ ~f.wrapped /\ now # 0
  BY <1>1 DEF InHandler, Delaying
<1>3. now = tick + 1 /\ cur = current
  BY <1>2, NowIs
<1>4. Goes(g, cur) = Goes(f, current)
  BY <1>1, <1>3 DEF Goes
<1>5. f.left >= Span(Goes(f, current), f.wakeup, tick, current)
  BY <1>2 DEF FrameLate
<1>6. f.left \in Nat /\ f.wakeup \in Int /\ tick \in Int /\ TickMod \in Int
  BY TickAssumption DEF Frame, Tick
<1> HIDE DEF g, cur
<1>7. Less(f.left) >= Span(Goes(f, current), f.wakeup, now, current)
  BY <1>3, <1>5, <1>6 DEF Span, Less
<1> QED BY <1>1, <1>2, <1>3, <1>4, <1>7 DEF g, cur

\* The delay of a sleeping task through a tick: it stays as long as that, or
\* its list is the one of the round that ended.
LEMMA SleepLateTicks ==
    ASSUME tick \in Tick, current \in Delayed, NEW now, now = (tick + 1) % TickMod,
           NEW l \in Delayed, NEW due \in Tick, NEW left \in Tick,
           left >= Span(l, due, tick, current)
    PROVE  \/ Less(left) >= Span(l, due, now, CurrentAt(now))
           \/ now = 0 /\ l = current
<1> DEFINE cur == CurrentAt(now)
<1>1. /\ tick \in Int /\ due \in Int /\ due >= 0 /\ left \in Nat /\ TickMod \in Int
      /\ \/ now = tick + 1 /\ cur = current
         \/ now = 0 /\ tick = TickMod - 1 /\ cur = 1 - current
  BY NowIs, TickAssumption DEF Tick
<1>2. l \in {0, 1} /\ current \in {0, 1}
  BY DEF Delayed
<1>3. left >= due - tick + (IF l = current THEN 0 ELSE TickMod)
  BY DEF Span
<1> HIDE DEF cur
<1>4. CASE now = tick + 1 /\ cur = current
  <2>1. Less(left) >= due - now + (IF l = cur THEN 0 ELSE TickMod)
    BY <1>1, <1>3, <1>4 DEF Less
  <2> QED BY <2>1 DEF Span, cur
<1>5. CASE now = 0 /\ tick = TickMod - 1 /\ cur = 1 - current /\ l # current
  <2>1. Less(left) >= due - now + (IF l = cur THEN 0 ELSE TickMod)
    BY <1>1, <1>2, <1>3, <1>5 DEF Less
  <2> QED BY <2>1 DEF Span, cur
<1> QED BY <1>1, <1>4, <1>5

LEMMA LateTick ==
    ASSUME NEW H, ListInv(H), LateInv, TickInterrupt
    PROVE  LateInv'
<1> DEFINE now == (tick + 1) % TickMod
           f == TickHandler(now)
<1>1. /\ tick' = now /\ current' = CurrentAt(now) /\ current' \in Delayed
      /\ UNCHANGED <<suspended, list, delay_until>>
      /\ sleep' = [t \in Task |-> [Elapse(sleep[t]) EXCEPT !.fresh = FALSE]]
      /\ f \in Frame /\ InHandler(f) /\ f.now = now
      /\ f.pc = (IF now = 0 THEN "overflow" ELSE "current")
      /\ f.list = IF now = 0 THEN current ELSE current'
  BY TickIs
<1>2. /\ \A i \in 1 .. Len(stack) :
            i \in 1 .. Len(stack') /\ stack'[i] = TickedFrame(stack[i], tick')
      /\ \/ Len(stack') = Len(stack) /\ NothingFound(f, current')
         \/ /\ Len(stack') = Len(stack) + 1
            /\ Found(stack'[Len(stack) + 1], f, current')
      /\ Len(stack') \in Nat
  BY <1>1, TickedStackIs
<1>3. /\ tick \in Tick /\ current \in Delayed /\ stack \in Seq(Frame)
      /\ OneOn(list) /\ delay_until \in [Task -> Tick] /\ sleep \in [Task -> Sleep]
  BY DEF ListInv, DTypes
<1> HIDE DEF f
<1>4. ASSUME NEW t \in Task
      PROVE  /\ sleep'[t].left = Less(sleep[t].left) /\ sleep[t].left \in Tick
             /\ sleep'[t].wrapped = sleep[t].wrapped /\ delay_until[t] \in Tick
  <2>1. sleep[t] \in Sleep /\ sleep'[t] = [Elapse(sleep[t]) EXCEPT !.fresh = FALSE]
    BY <1>1, <1>3
  <2> QED BY <1>3, <2>1 DEF Elapse, Less, Sleep
<1>5. SameHandlers
  <2> SUFFICES ASSUME NEW j \in 1 .. Len(stack), InHandler(stack[j])
               PROVE  \E i \in 1 .. Len(stack') : SameHandler(stack'[i], stack[j])
    BY DEF SameHandlers
  <2>1. j \in 1 .. Len(stack') /\ stack'[j] = stack[j]
    BY <1>2 DEF TickedFrame
  <2> QED BY <2>1 DEF SameHandler
<1> DEFINE e == stack'[Len(stack) + 1]
<1>6. ASSUME Found(e, f, current') PROVE Len(stack) + 1 \in 1 .. Len(stack')
  <2>1. Len(stack) \in Nat
    BY <1>3
  <2>2. Len(stack') = Len(stack) + 1 \/ NothingFound(f, current')
    BY <1>2
  <2>3. CASE Len(stack') = Len(stack) + 1
    BY <2>1, <2>3
  <2>4. CASE NothingFound(f, current') /\ Len(stack') = Len(stack)
    <3>1. e.task \in Task /\ Contains(list[e.list], e.task)
      BY <1>6 DEF Found
    <3>2. f.pc \in {"overflow", "current"}
      BY <1>1
    <3>3. f.now \in Int /\ delay_until[e.task] \in Int
      BY <1>1, <1>3, <1>4, <3>1, TickAssumption DEF Frame, Tick
    <3>4. FALSE
      BY <1>6, <2>4, <3>1, <3>2, <3>3 DEF Found, NothingFound
    <3> QED BY <3>4
  <2> QED BY <1>2, <2>3, <2>4
<1> HIDE DEF e
<1>7. \/ NothingFound(f, current')
      \/ Found(e, f, current') /\ Len(stack) + 1 \in 1 .. Len(stack')
  BY <1>2, <1>6 DEF e
<1>8. ASSUME NEW i \in 1 .. Len(stack') PROVE FrameLate(stack'[i], now, current')
  <2>1. CASE i \in 1 .. Len(stack)
    <3>1. stack[i] \in Frame /\ FrameLate(stack[i], tick, current)
      BY <1>3, <2>1 DEF LateInv
    <3> QED BY <1>1, <1>2, <1>3, <2>1, <3>1, FrameLateTicks
  <2>2. CASE i \notin 1 .. Len(stack)
    <3>1. Len(stack) \in Nat /\ Len(stack') \in Nat
      BY <1>2, <1>3
    <3>2. Found(stack'[i], f, current')
      BY <1>2, <2>2, <3>1
    <3> QED BY <3>2 DEF Found, InHandler, Delaying, FrameLate
  <2> QED BY <2>1, <2>2
<1>9. ASSUME NEW l \in Delayed, NEW t \in Task PROVE SleepLate(l, t)'
  <2> SUFFICES ASSUME Contains(list[l], t), ~sleep[t].wrapped
               PROVE  \/ sleep'[t].left >= Span(l, delay_until[t], now, current')
                      \/ \E i \in 1 .. Len(stack') : Wraps(stack'[i], l)
    BY <1>1, <1>4 DEF SleepLate
  <2>1. CASE \E i \in 1 .. Len(stack) : Wraps(stack[i], l)
    BY <1>5, <2>1, HandlersGoOn
  <2>2. CASE sleep[t].left >= Span(l, delay_until[t], tick, current)
    <3>1. \/ sleep'[t].left >= Span(l, delay_until[t], now, current')
          \/ now = 0 /\ l = current
      BY <1>1, <1>3, <1>4, <2>2, SleepLateTicks
    <3>2. CASE now = 0 /\ l = current
      <4>1. f.pc = "overflow" /\ f.list = l
        BY <1>1, <3>2
      <4>2. Found(e, f, current') /\ Len(stack) + 1 \in 1 .. Len(stack')
        BY <1>7, <4>1 DEF NothingFound
      <4>3. Wraps(e, l)
        BY <4>1, <4>2 DEF Found, Wraps
      <4> QED BY <4>2, <4>3 DEF e
    <3> QED BY <3>1, <3>2
  <2> QED BY <2>1, <2>2 DEF LateInv, SleepLate
<1>10. ASSUME NEW t \in Task PROVE SleepDue(t)'
  <2> SUFFICES ASSUME Contains(list[current'], t), delay_until[t] <= now
               PROVE  \E i \in 1 .. Len(stack') : Takes(stack'[i], current', delay_until[t])
    BY <1>1 DEF SleepDue
  <2>1. delay_until[t] \in Int /\ delay_until[t] >= 0 /\ now \in Int
    BY <1>1, <1>3, <1>4, NowIs, TickAssumption DEF Tick
  <2>2. ~NothingFound(f, current')
    <3>1. ASSUME NothingFound(f, current') PROVE FALSE
      <4>1. \A u \in Task : Contains(list[current'], u) => delay_until[u] > now
        BY <1>1, <3>1 DEF NothingFound
      <4> QED BY <2>1, <4>1
    <3> QED BY <3>1
  <2>3. Found(e, f, current') /\ Len(stack) + 1 \in 1 .. Len(stack')
    BY <1>7, <2>2
  <2>4. Takes(e, current', delay_until[t])
    <3>1. CASE now = 0
      <4>1. delay_until[t] = 0
        BY <2>1, <3>1
      <4> QED BY <1>1, <2>3, <3>1, <4>1 DEF Found, Takes
    <3>2. CASE now # 0
      BY <1>1, <2>3, <3>2 DEF Found, Takes
    <3> QED BY <3>1, <3>2
  <2> QED BY <2>3, <2>4 DEF e
<1> QED BY <1>1, <1>8, <1>9, <1>10 DEF LateInv

\* A frame that replaces the top does its work, if the top was a handler.
LEMMA HandlersKept ==
    ASSUME NEW H, ListInv(H), stack # <<>>,
           \/ stack' = Front(stack) /\ ~InHandler(Top)
           \/ \E g \in Frame : /\ stack' = Append(Front(stack), g)
                               /\ IF InHandler(Top) THEN SameHandler(g, Top)
                                  ELSE ~InHandler(g)
    PROVE  SameHandlers
<1> SUFFICES ASSUME NEW j \in 1 .. Len(stack), InHandler(stack[j])
             PROVE  \E i \in 1 .. Len(stack') : SameHandler(stack'[i], stack[j])
  BY DEF SameHandlers
<1>1. /\ stack \in Seq(Frame) /\ Nested(stack, H) /\ Len(stack) \in Nat
      /\ Len(stack) \in 1 .. Len(stack)
      /\ Top = Last(stack) /\ Top = stack[Len(stack)]
  BY StackIs
<1>2. ASSUME Keeps(stack', stack), j # Len(stack)
      PROVE  \E i \in 1 .. Len(stack') : SameHandler(stack'[i], stack[j])
  <2>1. j \in 1 .. Len(stack) - 1
    BY <1>1, <1>2
  <2>2. j \in 1 .. Len(stack') /\ stack'[j] = stack[j]
    BY <1>2, <2>1 DEF Keeps
  <2> QED BY <2>2 DEF SameHandler
<1>3. CASE stack' = Front(stack) /\ ~InHandler(Top)
  <2>1. Keeps(stack', stack)
    BY <1>1, <1>3, PopIs
  <2> QED BY <1>1, <1>2, <1>3, <2>1
<1>4. ASSUME NEW g \in Frame, stack' = Append(Front(stack), g),
             IF InHandler(Top) THEN SameHandler(g, Top) ELSE ~InHandler(g)
      PROVE  \E i \in 1 .. Len(stack') : SameHandler(stack'[i], stack[j])
  <2>1. InHandler(Last(stack)) => InHandler(g)
    BY <1>1, <1>4 DEF SameHandler, InHandler
  <2>2. Len(stack') = Len(stack) /\ stack'[Len(stack)] = g /\ Keeps(stack', stack)
    BY <1>1, <1>4, <2>1, ReplaceIs
  <2>3. CASE j = Len(stack)
    BY <1>1, <1>4, <2>2, <2>3
  <2> QED BY <1>2, <2>2, <2>3
<1> QED BY <1>3, <1>4

LEMMA LateFrames ==
    ASSUME NEW H, ListInv(H), LateInv,
           UNCHANGED <<tick, current, suspended, list, delay_until, sleep>>,
           SameHandlers,
           \A i \in 1 .. Len(stack') :
              \/ \E j \in 1 .. Len(stack) : stack'[i] = stack[j]
              \/ FrameLate(stack'[i], tick, current)
    PROVE  LateInv'
<1>1. Thinner(list', list) /\ current \in Delayed
  BY ThinnerReflexive DEF ListInv, DTypes
<1> QED BY <1>1, LateThin

LEMMA LateStart ==
    ASSUME NEW H, "run" \notin H, "read" \notin H, ListInv(H), LateInv,
           NEW t \in Task, TaskStart(t)
    PROVE  LateInv'
<1>1. /\ stack' = Append(stack, TaskFrame(t))
      /\ FromFrames(stack', stack, TaskFrame(t)) /\ TaskFrame(t).pc = "run"
      /\ UNCHANGED <<tick, current, suspended, list, delay_until, sleep>>
  BY StartIs
<1>2. FrameLate(TaskFrame(t), tick, current)
  BY <1>1 DEF Delaying, FrameLate
<1>3. stack \in Seq(Frame)
  BY DEF ListInv, DTypes
<1>4. \A j \in 1 .. Len(stack) : j \in 1 .. Len(stack') /\ stack'[j] = stack[j]
  <2> DEFINE f == TaskFrame(t)
  <2> HIDE DEF f
  <2>1. Len(Append(stack, f)) = Len(stack) + 1 /\ Len(stack) \in Nat
    BY <1>3
  <2>2. \A j \in 1 .. Len(stack) : Append(stack, f)[j] = stack[j]
    BY <1>3
  <2>3. stack' = Append(stack, f)
    BY <1>1 DEF f
  <2> QED BY <2>1, <2>2, <2>3
<1>5. SameHandlers
  BY <1>4 DEF SameHandlers, SameHandler
<1> QED BY <1>1, <1>2, <1>5, LateFrames DEF FromFrames

LEMMA LateReturn ==
    ASSUME NEW H, ListInv(H), LateInv, TaskReturn
    PROVE  LateInv'
<1>1. /\ stack # <<>> /\ stack' = Front(stack) /\ Top.pc = "run"
      /\ UNCHANGED <<tick, current, suspended, list, delay_until, sleep>>
  BY DEF TaskReturn, Executes
<1>2. \A i \in 1 .. Len(stack') : \E j \in 1 .. Len(stack) : stack'[i] = stack[j]
  BY <1>1, FrontIs
<1>3. SameHandlers
  BY <1>1, HandlersKept DEF InHandler
<1> QED BY <1>1, <1>2, <1>3, LateFrames

\* A delay of 0 ticks sleeps through a whole round.
LEMMA LateReadTick ==
    ASSUME NEW H, ListInv(H), LateInv, NEW d \in Delays, d # 0, ReadTick(d)
    PROVE  LateInv'
<1> DEFINE f == [Top EXCEPT !.pc = "read", !.now = tick,
                            !.wakeup = (tick + d) % TickMod,
                            !.left = d, !.wrapped = FALSE]
<1>1. /\ stack # <<>> /\ Top.pc = "run" /\ stack' = Append(Front(stack), f)
      /\ f \in Frame /\ f.pc = "read" /\ f.now = tick
      /\ f.wakeup = (tick + d) % TickMod /\ f.left = d
      /\ UNCHANGED <<tick, current, suspended, list, delay_until, sleep>>
  BY ReadTickIs
<1> HIDE DEF f
<1>2. \A i \in 1 .. Len(stack') :
         stack'[i] = f \/ \E j \in 1 .. Len(stack) : stack'[i] = stack[j]
  BY <1>1, FrontIs
<1>5. FrameLate(f, tick, current)
  BY <1>1, AskedFits, TickAssumption DEF Asks, Tick
<1>6. SameHandlers
  <2>1. ~InHandler(Top) /\ ~InHandler(f)
    BY <1>1 DEF InHandler
  <2> QED BY <1>1, <2>1, HandlersKept
<1> QED BY <1>1, <1>2, <1>5, <1>6, LateFrames

LEMMA LateLeaves ==
    ASSUME NEW H, ListInv(H), LateInv, NEW t \in Task, Leaves(t),
           SameHandlers,
           \A i \in 1 .. Len(stack') :
              \/ \E j \in 1 .. Len(stack) : stack'[i] = stack[j]
              \/ FrameLate(stack'[i], tick, current)
    PROVE  LateInv'
<1>1. /\ Thinner(list', list) /\ UNCHANGED <<tick, current, delay_until>>
      /\ ~Listed(list', t) /\ \A u \in Task : u # t => sleep'[u] = sleep[u]
  BY LeavingIs
<1>2. \A u \in Task : Listed(list', u) => sleep'[u] = sleep[u]
  BY <1>1
<1>3. current \in Delayed
  BY DEF ListInv, DTypes
<1> QED BY <1>1, <1>2, <1>3, LateThin

LEMMA LateTickResume ==
    ASSUME NEW H, ListInv(H), LateInv, TickResume
    PROVE  LateInv'
<1> DEFINE f == [Top EXCEPT !.task = NULL]
<1>1. /\ stack # <<>> /\ InHandler(Top) /\ Top.task \in Task
      /\ f \in Frame /\ InHandler(f)
      /\ f.pc = Top.pc /\ f.list = Top.list /\ f.now = Top.now
      /\ stack' = Append(Front(stack), f) /\ Leaves(Top.task)
  BY TickResumeIs DEF Leaves, Resume
<1> HIDE DEF f
<1>2. \A i \in 1 .. Len(stack') :
         stack'[i] = f \/ \E j \in 1 .. Len(stack) : stack'[i] = stack[j]
  BY <1>1, FrontIs
<1>3. FrameLate(f, tick, current)
  BY <1>1 DEF Delaying, FrameLate, InHandler
<1>4. SameHandlers
  BY <1>1, HandlersKept DEF SameHandler
<1> QED BY <1>1, <1>2, <1>3, <1>4, LateLeaves

\* A handler that goes on, or returns, leaves nobody behind.
LEMMA LateTickLoop ==
    ASSUME NEW H, ListInv(H), LateInv, TickLoop
    PROVE  LateInv'
<1> DEFINE n == Len(stack)
<1>1. /\ stack # <<>> /\ InHandler(Top)
      /\ UNCHANGED <<tick, current, suspended, list, delay_until, sleep>>
      /\ \/ stack' = Front(stack) /\ NothingFound(Top, current)
         \/ \E g : stack' = Append(Front(stack), g) /\ Found(g, Top, current)
  BY TickLoopIs
<1>2. /\ stack \in Seq(Frame) /\ Nested(stack, H) /\ n \in Nat
      /\ n \in 1 .. n /\ InHandler(Last(stack)) /\ Top = stack[n]
      /\ Top \in Frame /\ FrameOK(Top)
  BY <1>1, StackIs
<1>3. /\ tick \in Int /\ current \in Delayed /\ Top.now \in Int
      /\ \A t \in Task : delay_until[t] \in Int /\ delay_until[t] >= 0
  BY <1>2, TickAssumption DEF ListInv, DTypes, Tick, Frame
<1>4. /\ Keeps(stack', stack)
      /\ \/ NothingFound(Top, current)
         \/ n \in 1 .. Len(stack') /\ Found(stack'[n], Top, current)
  <2>1. CASE stack' = Front(stack) /\ NothingFound(Top, current)
    BY <1>1, <1>2, <2>1, PopIs
  <2>2. ASSUME NEW g, stack' = Append(Front(stack), g), Found(g, Top, current)
        PROVE  Keeps(stack', stack) /\ n \in 1 .. Len(stack') /\ stack'[n] = g
    <3>1. g \in Frame /\ InHandler(g)
      BY <2>2 DEF Found
    <3>2. /\ Len(Append(Front(stack), g)) = Len(stack)
          /\ Append(Front(stack), g)[Len(stack)] = g /\ Keeps(Append(Front(stack), g), stack)
      BY <1>1, <1>2, <3>1, ReplaceIs
    <3> QED BY <1>2, <2>2, <3>2
  <2> QED BY <1>1, <2>1, <2>2
<1>5. \A i \in 1 .. Len(stack') : FrameLate(stack'[i], tick, current)
  <2>1. CASE stack' = Front(stack)
    BY <1>1, <2>1, FrontIs DEF LateInv
  <2>2. ASSUME NEW g, stack' = Append(Front(stack), g), Found(g, Top, current)
        PROVE  \A i \in 1 .. Len(stack') : FrameLate(stack'[i], tick, current)
    <3>1. g \in Frame /\ FrameLate(g, tick, current)
      BY <2>2 DEF Found, InHandler, Delaying, FrameLate
    <3> QED BY <1>1, <2>2, <3>1, FrontIs DEF LateInv
  <2> QED BY <1>1, <2>1, <2>2
<1>6. ASSUME NEW j \in 1 .. n, j # n PROVE j \in 1 .. Len(stack') /\ stack'[j] = stack[j]
  <2>1. j \in 1 .. n - 1
    BY <1>2, <1>6
  <2> QED BY <1>4, <2>1 DEF Keeps
<1>7. ASSUME NEW l \in Delayed, NEW t \in Task, Contains(list[l], t),
             NEW j \in 1 .. n, Wraps(stack[j], l)
      PROVE  \E i \in 1 .. Len(stack') : Wraps(stack'[i], l)
  <2>1. CASE j # n
    BY <1>6, <1>7, <2>1
  <2>2. CASE j = n
    <3>1. Wraps(Top, l)
      BY <1>2, <1>7, <2>2
    <3>2. n \in 1 .. Len(stack') /\ Found(stack'[n], Top, current)
      BY <1>4, <1>7, <3>1 DEF NothingFound, Wraps
    <3>3. Wraps(stack'[n], l)
      BY <1>7, <3>1, <3>2 DEF Found, Wraps
    <3> QED BY <3>2, <3>3
  <2> QED BY <2>1, <2>2
<1>8. ASSUME NEW t \in Task, Contains(list[current], t),
             NEW j \in 1 .. n, Takes(stack[j], current, delay_until[t])
      PROVE  \E i \in 1 .. Len(stack') : Takes(stack'[i], current, delay_until[t])
  <2>1. CASE j # n
    BY <1>6, <1>8, <2>1
  <2>2. CASE j = n
    <3>1. Takes(Top, current, delay_until[t])
      BY <1>2, <1>8, <2>2
    <3>2. ~NothingFound(Top, current)
      <4>1. ASSUME NothingFound(Top, current) PROVE FALSE
        <5>1. CASE Top.pc = "overflow"
          <6>1. delay_until[t] > Top.now /\ Top.now = 0 /\ ~Contains(list[Top.list], t)
            BY <1>2, <1>8, <4>1, <5>1 DEF NothingFound, FrameOK
          <6>2. Top.list = current \/ delay_until[t] = 0
            BY <3>1, <5>1 DEF Takes
          <6> QED BY <1>3, <1>8, <6>1, <6>2
        <5>2. CASE Top.pc = "current"
          <6>1. Top.list = current /\ delay_until[t] <= Top.now
            BY <3>1, <5>2 DEF Takes
          <6>2. delay_until[t] > Top.now
            BY <1>8, <4>1, <5>2, <6>1 DEF NothingFound
          <6> QED BY <1>3, <6>1, <6>2
        <5> QED BY <3>1, <5>1, <5>2 DEF Takes
      <4> QED BY <4>1
    <3>3. n \in 1 .. Len(stack') /\ Found(stack'[n], Top, current)
      BY <1>4, <3>2
    <3>4. Takes(stack'[n], current, delay_until[t])
      <4>1. CASE stack'[n].pc = Top.pc /\ stack'[n].list = Top.list
        BY <3>1, <3>3, <4>1 DEF Found, Takes
      <4>2. CASE /\ Top.pc = "overflow" /\ stack'[n].pc = "current" /\ stack'[n].list = current
                 /\ \A u \in Task : ~Contains(list[Top.list], u)
        <5>1. delay_until[t] = 0 /\ Top.now = 0 /\ stack'[n].now = Top.now
          BY <1>2, <1>8, <3>1, <3>3, <4>2 DEF Takes, Found, FrameOK
        <5> QED BY <4>2, <5>1 DEF Takes
      <4> QED BY <3>3, <4>1, <4>2 DEF Found
    <3> QED BY <3>3, <3>4
  <2> QED BY <2>1, <2>2
<1>9. ASSUME NEW l \in Delayed, NEW t \in Task PROVE SleepLate(l, t)'
  BY <1>1, <1>7 DEF LateInv, SleepLate
<1>10. ASSUME NEW t \in Task PROVE SleepDue(t)'
  BY <1>1, <1>8 DEF LateInv, SleepDue
<1> QED BY <1>1, <1>5, <1>9, <1>10 DEF LateInv

LEMMA LateInvInit == Init => LateInv
<1> SUFFICES ASSUME Init PROVE LateInv
  OBVIOUS
<1>1. Len(stack) = 0 /\ list = [l \in Delayed |-> <<>>] /\ current \in Delayed
  BY DEF Init, Delayed
<1>2. \A l \in Delayed : Len(list[l]) = 0
  BY <1>1
<1> QED BY <1>1, <1>2 DEF LateInv, SleepLate, SleepDue, Contains

LEMMA LateInvNext ==
    ASSUME 0 \notin Delays
    PROVE  DelayInv /\ LateInv /\ [Next]_vars => LateInv'
<1> SUFFICES ASSUME DelayInv, LateInv, [Next]_vars PROVE LateInv'
  OBVIOUS
<1>1. ListInv(Locks) /\ "run" \notin Locks /\ "read" \notin Locks
  BY DEF DelayInv, Locks, Searches
<1>2. ASSUME UNCHANGED stack
      PROVE  /\ \A i \in 1 .. Len(stack') : \E j \in 1 .. Len(stack) : stack'[i] = stack[j]
             /\ SameHandlers
  BY <1>2 DEF SameHandlers, SameHandler
<1>3. ASSUME NEW t \in Task, TaskStart(t) PROVE LateInv'
  BY <1>1, <1>3, LateStart
<1>4. ASSUME NEW t \in Task, TaskSuspend(t) PROVE LateInv'
  BY <1>1, <1>2, <1>4, LateLeaves DEF TaskSuspend, Leaves
<1>5. ASSUME NEW t \in Task, TaskResume(t) PROVE LateInv'
  BY <1>1, <1>2, <1>5, LateLeaves DEF TaskResume, Resume, Leaves
<1>6. ASSUME TaskReturn PROVE LateInv'
  BY <1>1, <1>6, LateReturn
<1>7. ASSUME NEW d \in Delays, ReadTick(d) PROVE LateInv'
  BY <1>1, <1>7, LateReadTick
<1>8. ASSUME DelayStep(Top), stack # <<>>, Top.pc \in {"read", "scan"} PROVE LateInv'
  <2>1. FrameLate(Top, tick, current) /\ ~InHandler(Top) /\ Top.pc \in Delaying
    BY <1>1, <1>8, StackIs DEF LateInv, InHandler, Delaying
  <2>2. \A i \in 1 .. Len(stack) : ~InHandler(stack[i])
    BY <1>1, <1>8, <2>1, NoHandlers
  <2>3. SameHandlers
    BY <2>2 DEF SameHandlers
  <2> QED BY <1>1, <1>8, <2>1, <2>3, LateInsert
<1>9. ASSUME TaskDelay PROVE LateInv'
  BY <1>1, <1>8, <1>9, DelayUntilIs DEF TaskDelay, Executes, Locks, Searches
<1>10. ASSUME ScanCompare PROVE LateInv'
  BY <1>1, <1>8, <1>10, ScanCompareIs DEF Locks, Searches
<1>11. ASSUME TickInterrupt PROVE LateInv'
  BY <1>1, <1>11, LateTick
<1>12. ASSUME TickResume PROVE LateInv'
  BY <1>1, <1>12, LateTickResume
<1>13. ASSUME TickLoop PROVE LateInv'
  BY <1>1, <1>13, LateTickLoop
<1>14. ASSUME UNCHANGED vars PROVE LateInv'
  BY <1>14 DEF vars, LateInv, SleepLate, SleepDue
<1> QED BY <1>3, <1>4, <1>5, <1>6, <1>7, <1>9, <1>10, <1>11, <1>12, <1>13, <1>14 DEF Next

LEMMA NobodyOverdue ==
    ASSUME NEW H, ListInv(H), LateInv
    PROVE  NeverOverdueUnlessWrapped
<1> SUFFICES ASSUME NEW t \in Task, Overdue(t), ~sleep[t].wrapped
             PROVE  FALSE
  BY DEF NeverOverdueUnlessWrapped
<1>1. t \in Sleeping /\ sleep[t].left = 0 /\ ~sleep[t].fresh
  BY DEF Overdue
<1>2. \A i \in 1 .. Len(stack) : ~InHandler(stack[i])
  BY DEF Overdue, ListInv, DTypes
<1>3. PICK l \in Delayed : Contains(list[l], t)
  BY <1>1, OnListIs DEF ListInv, DTypes, Listed
<1>4. /\ tick \in 0 .. TickMod - 1 /\ delay_until[t] \in 0 .. TickMod - 1
      /\ TickMod \in Nat
  BY <1>1, TickAssumption DEF ListInv, DTypes, Tick
<1>5. 0 >= Span(l, delay_until[t], tick, current)
  BY <1>1, <1>2, <1>3 DEF LateInv, SleepLate, Wraps, InHandler
<1>6. l = current /\ delay_until[t] <= tick
  BY <1>4, <1>5 DEF Span
<1>7. \E i \in 1 .. Len(stack) : Takes(stack[i], current, delay_until[t])
  BY <1>1, <1>3, <1>6 DEF LateInv, SleepDue
<1> QED BY <1>2, <1>7 DEF Takes, InHandler

\* Nobody sleeps on when the delay is over and the handlers are done (lines
\* 359-400, 519-535), unless the tick wrapped between get_tick() and the
\* insertion.  A delay of 0 sleeps through a whole round: it is left out.
THEOREM DelaysAreNotProlonged ==
    ASSUME 0 \notin Delays
    PROVE  Spec => []NeverOverdueUnlessWrapped
<1>1. Init => LateInv
  BY LateInvInit
<1>2. DelayInv /\ LateInv /\ [Next]_vars => LateInv'
  BY LateInvNext
<1>3. DelayInv /\ LateInv => NeverOverdueUnlessWrapped
  BY NobodyOverdue DEF DelayInv
<1> QED BY <1>1, <1>2, <1>3, DelayInvariantHolds, PTL DEF Spec
=============================================================================
