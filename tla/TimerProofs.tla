----------------------------- MODULE TimerProofs -----------------------------
(***************************************************************************)
(* Proofs about Timer: resets that nest in one another, in ticks and in    *)
(* the timer's own expiry.                                                 *)
(*                                                                         *)
(* What decides when a timer runs is who is on the stack, LookInv: the     *)
(* task functions are below all handlers and resets, in rising priority    *)
(* (StackInv), and nobody looks at a timer that is to stay as it is        *)
(* (Idle).  The order of the lists has no part in it, so these theorems    *)
(* hold wherever resets come.  Order and time do need that no reset comes  *)
(* into a scan: with it the lists do not stay sorted (the run              *)
(* timer_reset_in_scan), without it they keep the invariant of             *)
(* DelayProofs, ListInv.  The bounds on the time left need one thing more: *)
(* that no timer delayed above a tick handler gets in the way of that      *)
(* handler (Over).                                                         *)
(***************************************************************************)
EXTENDS Timer, DelayProofs, FiniteSetTheorems

-----------------------------------------------------------------------------
(* The invariant.                                                            *)

\* The frame of a task function, not of a handler or of a reset.
TaskLevel(f) == ~f.timer /\ ~InHandler(f)

\* Who may be at which pc.
FrameKind(f) ==
    /\ FrameOK(f)
    /\ f.timer => f.task \in Timers
    /\ f.pc = "reset" => f.timer
    /\ f.pc \in {"scan", "read"} /\ ~f.timer => f.task \notin Timers
    /\ f.pc \in {"run", "read", "stop"} => ~f.timer
    /\ f.pc = "stop" => f.task \in OneShot

\* Under a task function there are only task functions, of lower priority.
Rising(s) ==
    \A i, j \in 1 .. Len(s) :
        i < j /\ TaskLevel(s[j])
           => TaskLevel(s[i]) /\ Priority[s[i].task] < Priority[s[j].task]

StackInv(s) == Rising(s) /\ \A i \in 1 .. Len(s) : FrameKind(s[i])

\* LooksAt of any stack, and the functions that have begun.
RunAt(f, t) == f.task = t /\ TaskLevel(f)
Looks(s, t) == \E i \in 1 .. Len(s) : LookAt(s[i], t)
Runs(s, t) == \E i \in 1 .. Len(s) : RunAt(s[i], t)

\* t stays off the lists of delayed tasks, and is not called, until somebody
\* resets it: it is suspended, or a one-shot timer whose function runs.
Idle(s, ls, asleep, t) ==
    /\ ~Looks(s, t)
    /\ ~Listed(ls, t)
    /\ t \in asleep \/ (t \in OneShot /\ Runs(s, t))
    /\ t \in AutoReset => ~Runs(s, t)

Rests(t, off, on) == t \in off \/ (t \in OneShot /\ t \notin on)
IdleInv ==
    \A t \in Timers : Rests(t, quiet, armed) => Idle(stack, list, suspended, t)

\* AutoContinues.
ContinuesInv ==
    \A t \in AutoReset \ stopped :
        t \in suspended => Looks(stack, t) \/ Runs(stack, t)

LookInv ==
    /\ DTypes
    /\ quiet \subseteq Timers
    /\ StackInv(stack)
    /\ IdleInv
    /\ ContinuesInv

\* With the order of the lists.
Scan == {"scan"}
TimerInv == ListInv(Scan) /\ LookInv

-----------------------------------------------------------------------------
(* The stack.                                                                *)

Pushed(new, s, g) ==
    /\ Len(new) = Len(s) + 1 /\ new[Len(s) + 1] = g
    /\ \A i \in 1 .. Len(s) : new[i] = s[i]
Popped(new, s) ==
    /\ Len(s) \in 1 .. Len(s) /\ Len(new) = Len(s) - 1
    /\ \A i \in 1 .. Len(s) - 1 : new[i] = s[i]
Replaced(new, s, g) ==
    /\ Len(s) \in 1 .. Len(s) /\ Len(new) = Len(s) /\ new[Len(s)] = g
    /\ \A i \in 1 .. Len(s) - 1 : new[i] = s[i]

LEMMA PushedIs ==
    ASSUME NEW s \in Seq(Frame), NEW g \in Frame
    PROVE  Pushed(Append(s, g), s, g)
BY DEF Pushed

LEMMA PoppedIs ==
    ASSUME NEW s \in Seq(Frame), s # <<>>
    PROVE  Popped(Front(s), s)
<1>1. Nested(s, {})
  BY DEF Nested
<1>2. Len(s) \in 1 .. Len(s)
  BY TopIs
<1> QED BY <1>1, <1>2, PopIs DEF Popped

LEMMA ReplacedIs ==
    ASSUME NEW s \in Seq(Frame), s # <<>>, NEW g \in Frame
    PROVE  Replaced(Append(Front(s), g), s, g)
<1> DEFINE r == Front(s)
           new == Append(r, g)
<1>1. Popped(r, s) /\ r \in Seq(Frame) /\ Len(s) \in Nat
  <2>1. Nested(s, {})
    BY DEF Nested
  <2>2. r \in Seq(Frame)
    BY <2>1, PopIs
  <2> QED BY <2>2, PoppedIs
<1> HIDE DEF r
<1>2. Pushed(new, r, g)
  BY <1>1, PushedIs
<1> HIDE DEF new
<1> QED BY <1>1, <1>2 DEF Popped, Pushed, Replaced, new, r

LEMMA PushInv ==
    ASSUME NEW s \in Seq(Frame), StackInv(s), NEW new, NEW g, Pushed(new, s, g),
           FrameKind(g),
           TaskLevel(g) => \A i \in 1 .. Len(s) :
                              TaskLevel(s[i]) /\ Priority[s[i].task] < Priority[g.task]
    PROVE  StackInv(new)
<1>1. Len(s) \in Nat
  OBVIOUS
<1>2. \A i \in 1 .. Len(new) : i = Len(s) + 1 \/ i \in 1 .. Len(s)
  BY <1>1 DEF Pushed
<1>3. \A i \in 1 .. Len(new) : FrameKind(new[i])
  BY <1>2 DEF Pushed, StackInv
<1>4. ASSUME NEW i \in 1 .. Len(new), NEW j \in 1 .. Len(new), i < j, TaskLevel(new[j])
      PROVE  TaskLevel(new[i]) /\ Priority[new[i].task] < Priority[new[j].task]
  <2>1. i \in 1 .. Len(s) /\ new[i] = s[i]
    BY <1>1, <1>4 DEF Pushed
  <2>2. CASE j = Len(s) + 1
    BY <1>4, <2>1, <2>2 DEF Pushed
  <2>3. CASE j \in 1 .. Len(s)
    <3>1. new[j] = s[j]
      BY <2>3 DEF Pushed
    <3> QED BY <1>4, <2>1, <2>3, <3>1 DEF StackInv, Rising
  <2> QED BY <1>2, <2>2, <2>3
<1> QED BY <1>3, <1>4 DEF StackInv, Rising

LEMMA PopInv ==
    ASSUME NEW s \in Seq(Frame), StackInv(s), NEW new, Popped(new, s)
    PROVE  StackInv(new)
<1>1. \A i \in 1 .. Len(new) : i \in 1 .. Len(s) /\ new[i] = s[i]
  BY DEF Popped
<1> QED BY <1>1 DEF StackInv, Rising

LEMMA ReplaceInv ==
    ASSUME NEW s \in Seq(Frame), StackInv(s), NEW new, NEW g, Replaced(new, s, g),
           FrameKind(g),
           TaskLevel(g) => TaskLevel(s[Len(s)]) /\ g.task = s[Len(s)].task
    PROVE  StackInv(new)
<1>1. Len(s) \in Nat
  OBVIOUS
<1>2. \A i \in 1 .. Len(new) : i = Len(s) \/ i \in 1 .. Len(s) - 1
  BY <1>1 DEF Replaced
<1>3. \A i \in 1 .. Len(new) : FrameKind(new[i])
  BY <1>1, <1>2 DEF Replaced, StackInv
<1>4. ASSUME NEW i \in 1 .. Len(new), NEW j \in 1 .. Len(new), i < j, TaskLevel(new[j])
      PROVE  TaskLevel(new[i]) /\ Priority[new[i].task] < Priority[new[j].task]
  <2>1. i \in 1 .. Len(s) /\ j \in 1 .. Len(s) /\ new[i] = s[i]
    BY <1>1, <1>4 DEF Replaced
  <2>2. TaskLevel(s[j]) /\ s[j].task = new[j].task
    <3>1. CASE j = Len(s)
      BY <1>4, <3>1 DEF Replaced
    <3>2. CASE j # Len(s)
      BY <1>1, <1>2, <1>4, <3>2 DEF Replaced
    <3> QED BY <3>1, <3>2
  <2> QED BY <1>4, <2>1, <2>2 DEF StackInv, Rising
<1> QED BY <1>3, <1>4 DEF StackInv, Rising

-----------------------------------------------------------------------------
(* Who is on the stack.                                                      *)

LEMMA PushMarks ==
    ASSUME NEW s \in Seq(Frame), NEW new, NEW g, Pushed(new, s, g), NEW t
    PROVE  /\ Looks(new, t) <=> Looks(s, t) \/ LookAt(g, t)
           /\ Runs(new, t) <=> Runs(s, t) \/ RunAt(g, t)
<1>1. Len(s) \in Nat
  OBVIOUS
<1>2. /\ \A i \in 1 .. Len(new) : i = Len(s) + 1 \/ i \in 1 .. Len(s)
      /\ \A i \in 1 .. Len(s) : i \in 1 .. Len(new)
      /\ Len(s) + 1 \in 1 .. Len(new)
  BY <1>1 DEF Pushed
<1> QED BY <1>2 DEF Pushed, Looks, Runs

LEMMA PopMarks ==
    ASSUME NEW s \in Seq(Frame), NEW new, Popped(new, s), NEW t
    PROVE  /\ Looks(s, t) <=> Looks(new, t) \/ LookAt(s[Len(s)], t)
           /\ Runs(s, t) <=> Runs(new, t) \/ RunAt(s[Len(s)], t)
<1>1. Len(s) \in Nat
  OBVIOUS
<1>2. \A i \in 1 .. Len(s) : i = Len(s) \/ i \in 1 .. Len(new)
  BY <1>1 DEF Popped
<1>3. \A i \in 1 .. Len(new) : i \in 1 .. Len(s) /\ new[i] = s[i]
  BY <1>1 DEF Popped
<1>4. Len(s) \in 1 .. Len(s)
  BY DEF Popped
<1> QED BY <1>2, <1>3, <1>4 DEF Looks, Runs

LEMMA ReplaceMarks ==
    ASSUME NEW s \in Seq(Frame), NEW new, NEW g, Replaced(new, s, g), NEW t
    PROVE  /\ Looks(new, t) => Looks(s, t) \/ LookAt(g, t)
           /\ Runs(new, t) => Runs(s, t) \/ RunAt(g, t)
           /\ Looks(s, t) => Looks(new, t) \/ LookAt(s[Len(s)], t)
           /\ Runs(s, t) => Runs(new, t) \/ RunAt(s[Len(s)], t)
           /\ LookAt(g, t) => Looks(new, t)
           /\ RunAt(g, t) => Runs(new, t)
<1>1. Len(s) \in Nat
  OBVIOUS
<1>2. \A i \in 1 .. Len(s) : i = Len(s) \/ (i \in 1 .. Len(s) - 1 /\ new[i] = s[i])
  BY <1>1 DEF Replaced
<1>3. Len(s) = Len(new) /\ Len(s) \in 1 .. Len(s) /\ new[Len(s)] = g
  BY DEF Replaced
<1> QED BY <1>2, <1>3 DEF Looks, Runs

LEMMA ReplaceOther ==
    ASSUME NEW s \in Seq(Frame), NEW new, NEW g, Replaced(new, s, g), NEW t,
           g.task # t, s[Len(s)].task # t
    PROVE  /\ Looks(new, t) <=> Looks(s, t)
           /\ Runs(new, t) <=> Runs(s, t)
<1>1. ~LookAt(g, t) /\ ~RunAt(g, t) /\ ~LookAt(s[Len(s)], t) /\ ~RunAt(s[Len(s)], t)
  BY DEF LookAt, RunAt
<1> QED BY <1>1, ReplaceMarks

\* A step that changes nothing for timer t.
SameFor(t) ==
    /\ Looks(stack', t) <=> Looks(stack, t)
    /\ Runs(stack', t) <=> Runs(stack, t)
    /\ Listed(list', t) => Listed(list, t)
    /\ t \in suspended' <=> t \in suspended
    /\ t \in AutoReset /\ t \in stopped /\ t \in suspended' => t \in stopped'
    /\ t \in quiet' <=> t \in quiet
    /\ t \in armed' <=> t \in armed

\* A step that changes something for one task t at most.
LEMMA OnlyOne ==
    ASSUME LookInv, DTypes', StackInv(stack'), quiet' \subseteq Timers,
           NEW t, \A u \in Timers : u # t => SameFor(u),
           t \in Timers /\ Rests(t, quiet', armed') => Idle(stack', list', suspended', t),
           t \in AutoReset /\ t \notin stopped' /\ t \in suspended'
              => Looks(stack', t) \/ Runs(stack', t)
    PROVE  LookInv'
<1>1. ASSUME NEW u \in Timers, Rests(u, quiet', armed')
      PROVE  Idle(stack', list', suspended', u)
  <2>1. CASE u = t
    BY <1>1, <2>1
  <2>2. CASE u # t
    <3>1. SameFor(u) /\ Rests(u, quiet, armed)
      BY <1>1, <2>2 DEF SameFor, Rests
    <3>2. Idle(stack, list, suspended, u)
      BY <3>1 DEF LookInv, IdleInv
    <3> QED BY <3>1, <3>2 DEF SameFor, Idle
  <2> QED BY <2>1, <2>2
<1>2. ASSUME NEW u \in AutoReset \ stopped', u \in suspended'
      PROVE  Looks(stack', u) \/ Runs(stack', u)
  <2>1. CASE u = t
    BY <1>2, <2>1
  <2>2. CASE u # t
    <3>1. SameFor(u)
      BY <2>2 DEF Timers
    <3>2. u \in suspended /\ u \notin stopped
      BY <1>2, <3>1 DEF SameFor
    <3> QED BY <3>1, <3>2 DEF SameFor, LookInv, ContinuesInv
  <2> QED BY <2>1, <2>2
<1>3. StackInv(stack)'
  BY DEF StackInv, Rising, FrameKind, FrameOK, TaskLevel, InHandler
<1>4. IdleInv'
  BY <1>1 DEF IdleInv, Idle, Looks, Runs, LookAt, RunAt, Rests
<1>5. ContinuesInv'
  BY <1>2 DEF ContinuesInv, Looks, Runs, LookAt, RunAt
<1> QED BY <1>3, <1>4, <1>5 DEF LookInv

-----------------------------------------------------------------------------
(* The types.                                                                *)

\* The lists, the suspended tasks, and the history of delays.
ListsOK(lists, asleep, sl) ==
    /\ lists \in Lists /\ OneOn(lists)
    /\ asleep \subseteq Task /\ \A t \in asleep : ~Listed(lists, t)
    /\ sl \in [Task -> Sleep]

LEMMA TypesNext ==
    ASSUME DTypes, ListsOK(list', suspended', sleep'), UNCHANGED <<tick, current>>,
           delay_until' \in [Task -> Tick], stack' \in Seq(Frame)
    PROVE  DTypes'
BY DEF DTypes, ListsOK

\* task_suspend() and task_resume() of t.
LEMMA TypesLeave ==
    ASSUME DTypes, NEW t \in Task, list' = Unlisted(t), sleep' = Awake(t),
           suspended' = suspended \cup {t} \/ suspended' = suspended \ {t},
           UNCHANGED <<tick, current, delay_until>>, stack' \in Seq(Frame)
    PROVE  DTypes'
<1>1. /\ list' \in Lists /\ OneOn(list') /\ ~Listed(list', t)
      /\ \A u \in Task : u # t => (Listed(list', u) <=> Listed(list, u))
  BY UnlistedIs DEF DTypes
<1>2. sleep' \in [Task -> Sleep]
  BY TickAssumption DEF DTypes, Awake, NoSleep, Sleep, Tick
<1>3. suspended' \subseteq Task /\ \A u \in suspended' : ~Listed(list', u)
  BY <1>1 DEF DTypes
<1>4. ListsOK(list', suspended', sleep')
  BY <1>1, <1>2, <1>3 DEF ListsOK
<1>5. delay_until' \in [Task -> Tick]
  BY DEF DTypes
<1> QED BY <1>4, <1>5, TypesNext

\* Only the stack changes.
LEMMA TypesStay ==
    ASSUME DTypes, UNCHANGED <<tick, current, suspended, list, delay_until, sleep>>,
           stack' \in Seq(Frame)
    PROVE  DTypes'
BY DEF DTypes

LEMMA TopFrameIs ==
    ASSUME LookInv, stack # <<>>
    PROVE  /\ stack \in Seq(Frame) /\ StackInv(stack) /\ DTypes
           /\ Len(stack) \in Nat /\ Len(stack) \in 1 .. Len(stack)
           /\ Top = Last(stack) /\ Top = stack[Len(stack)]
           /\ Top \in Frame /\ FrameOK(Top) /\ FrameKind(Top)
           /\ Front(stack) \in Seq(Frame)
<1>1. stack \in Seq(Frame) /\ StackInv(stack) /\ DTypes
  BY DEF LookInv, DTypes
<1>2. /\ Len(stack) \in Nat /\ Len(stack) \in 1 .. Len(stack)
      /\ Last(stack) = stack[Len(stack)] /\ Last(stack) \in Frame
  BY <1>1, TopIs
<1>3. Front(stack) \in Seq(Frame)
  <2>1. Nested(stack, {})
    BY DEF Nested
  <2> QED BY <1>1, <2>1, PopIs
<1> QED BY <1>1, <1>2, <1>3 DEF Top, StackInv, FrameKind

-----------------------------------------------------------------------------
(* task_delay_now_until() of frame f, at each of its steps.                  *)

\* The scan of list l goes on or f returns; nobody but the task of f goes to a
\* list, and it only if it was asleep.
ScanOf(g, f, l) ==
    /\ g.pc = "scan" /\ g.task = f.task /\ g.timer = f.timer
    /\ g.wakeup = f.wakeup /\ g.left = f.left /\ g.list = l
    /\ FrameOK(f) => FrameOK(g)
Places(f, l, lists, asleep) ==
    /\ \/ /\ suspended' = asleep
          /\ \E g \in Frame : ScanOf(g, f, l) /\ stack' = Append(Front(stack), g)
       \/ suspended' = asleep \ {f.task} /\ stack' = DelayReturn(f)
    /\ \A u \in Task : u # f.task => (Listed(list', u) <=> Listed(lists, u))
    /\ Listed(list', f.task) => f.task \in asleep \/ Listed(lists, f.task)
    /\ ListsOK(list', suspended', sleep')

LEMMA InsertPlaces ==
    ASSUME NEW f \in Frame, f.task \in Task, NEW lists, NEW asleep,
           ListsOK(lists, asleep, sleep), NEW pos,
           pos = NULL \/ Contains(lists[f.list], pos),
           Insert(f, lists, asleep, pos)
    PROVE  Places(f, f.list, lists, asleep)
<1> DEFINE l == f.list
           r == InsertBefore(lists[l], pos, f.task)
<1>1. suspended' = asleep \ {f.task} /\ stack' = DelayReturn(f)
  BY DEF Insert
<1>2. /\ lists \in Lists /\ OneOn(lists) /\ asleep \subseteq Task
      /\ \A u \in asleep : ~Listed(lists, u)
      /\ sleep \in [Task -> Sleep] /\ l \in Delayed
  BY DEF ListsOK, Frame
<1>3. CASE f.task \notin asleep
  <2>1. list' = lists /\ sleep' = sleep /\ suspended' = asleep
    BY <1>1, <1>3 DEF Insert
  <2> QED BY <1>1, <1>2, <2>1 DEF Places, ListsOK
<1>4. CASE f.task \in asleep
  <2>1. /\ list' = [lists EXCEPT ![l] = r]
        /\ sleep' = [sleep EXCEPT ![f.task] =
                       [left |-> f.left, wrapped |-> f.wrapped, fresh |-> TRUE]]
    BY <1>4 DEF Insert
  <2>2. /\ lists[l] \in Seq(Task) /\ Injective(lists[l])
        /\ \A k \in Delayed : ~Contains(lists[k], f.task)
    BY <1>2, <1>4 DEF Lists, OneOn, Listed
  <2>3. /\ r \in Seq(Task) /\ Injective(r)
        /\ \A v \in Task : Contains(r, v) <=> v = f.task \/ Contains(lists[l], v)
    BY <1>2, <2>2, InsertBeforeIs
  <2> HIDE DEF r
  <2>4. list' \in Lists /\ list'[l] = r /\ \A k \in Delayed : k # l => list'[k] = lists[k]
    BY <1>2, <2>1, <2>3 DEF Lists
  <2>5. ASSUME NEW k \in Delayed, NEW v \in Task
        PROVE  Contains(list'[k], v) <=> (v = f.task /\ k = l) \/ Contains(lists[k], v)
    BY <2>2, <2>3, <2>4
  <2>6. OneOn(list')
    <3>1. \A k \in Delayed : Injective(list'[k])
      BY <1>2, <2>3, <2>4 DEF OneOn
    <3>2. ASSUME NEW k \in Delayed, NEW m \in Delayed, NEW v \in Task,
                 Contains(list'[k], v), Contains(list'[m], v)
          PROVE  k = m
      BY <1>2, <2>2, <2>5, <3>2 DEF OneOn
    <3> QED BY <3>1, <3>2 DEF OneOn
  <2>7. \A u \in Task : u # f.task => (Listed(list', u) <=> Listed(lists, u))
    BY <2>5 DEF Listed
  <2>8. sleep' \in [Task -> Sleep]
    <3>1. [left |-> f.left, wrapped |-> f.wrapped, fresh |-> TRUE] \in Sleep
      BY DEF Frame, Sleep
    <3> QED BY <1>2, <2>1, <3>1
  <2>9. suspended' \subseteq Task /\ \A u \in suspended' : ~Listed(list', u)
    BY <1>1, <1>2, <2>7
  <2> QED BY <1>1, <1>4, <2>4, <2>6, <2>7, <2>8, <2>9 DEF Places, ListsOK
<1> QED BY <1>3, <1>4

LEMMA ScanAtPlaces ==
    ASSUME NEW f \in Frame, f.task \in Task, NEW lists, NEW asleep,
           ListsOK(lists, asleep, sleep), NEW pos \in Task \cup {NULL},
           delay_until \in [Task -> Tick],
           ScanAt(f, lists, asleep, pos)
    PROVE  Places(f, f.list, lists, asleep)
<1>1. CASE Insert(f, lists, asleep, NULL)
  BY <1>1, InsertPlaces
<1>2. CASE pos # NULL /\ ~Insert(f, lists, asleep, NULL)
  <2> DEFINE g == [f EXCEPT !.pc = "scan", !.pos = pos, !.pos_tick = delay_until[pos]]
  <2>1. /\ suspended' = asleep /\ list' = lists /\ sleep' = sleep
        /\ stack' = Append(Front(stack), g)
    BY <1>2 DEF ScanAt, Replace
  <2>2. delay_until[pos] \in Tick /\ pos \in Task
    BY <1>2
  <2>3. /\ g \in Frame /\ g.pc = "scan" /\ g.task = f.task /\ g.timer = f.timer
        /\ g.wakeup = f.wakeup /\ g.left = f.left /\ g.list = f.list /\ g.pos = pos
    BY <2>2 DEF Frame, PC
  <2> HIDE DEF g
  <2>4. ScanOf(g, f, f.list)
    BY <2>2, <2>3 DEF ScanOf, FrameOK, InHandler
  <2>5. Listed(list', f.task) => Listed(lists, f.task)
    BY <2>1
  <2> QED BY <2>1, <2>3, <2>4, <2>5 DEF Places, ListsOK
<1> QED BY <1>1, <1>2 DEF ScanAt

LEMMA DelayUntilPlaces ==
    ASSUME DTypes, NEW f \in Frame, f.task \in Task, DelayUntil(f)
    PROVE  Places(f, DelayList(f.now, f.wakeup), list, suspended \cup {f.task})
<1> DEFINE l == DelayList(f.now, f.wakeup)
           lists == Unlisted(f.task)
           pos == First(lists[l])
           g == [f EXCEPT !.list = l]
           asleep == suspended \cup {f.task}
<1>1. ScanAt(g, lists, asleep, pos)
  BY DEF DelayUntil
<1>2. /\ l \in Delayed /\ list \in Lists /\ OneOn(list)
      /\ delay_until \in [Task -> Tick]
  BY DEF DTypes, DelayList, overflow, Delayed
<1>3. /\ lists \in Lists /\ OneOn(lists) /\ ~Listed(lists, f.task)
      /\ \A u \in Task : u # f.task => (Listed(lists, u) <=> Listed(list, u))
  BY <1>2, UnlistedIs
<1>4. lists[l] \in Seq(Task) /\ Injective(lists[l])
  BY <1>2, <1>3 DEF Lists, OneOn
<1>5. pos \in Task \cup {NULL}
  BY <1>4, FirstIs
<1>6. /\ g \in Frame /\ g.task = f.task /\ g.timer = f.timer
      /\ g.wakeup = f.wakeup /\ g.left = f.left /\ g.list = l
      /\ g.pc = f.pc /\ g.now = f.now /\ g.pos = f.pos
  BY <1>2 DEF Frame
<1>7. ListsOK(lists, asleep, sleep)
  BY <1>3 DEF ListsOK, DTypes
<1> HIDE DEF l, lists, pos, g, asleep
<1>8. DelayReturn(g) = DelayReturn(f) /\ (FrameOK(f) => FrameOK(g))
  BY <1>6 DEF DelayReturn, FrameOK, InHandler
<1>9. Places(g, l, lists, asleep)
  BY <1>1, <1>2, <1>5, <1>6, <1>7, ScanAtPlaces
<1>10. Places(f, l, list, asleep)
  <2>1. \A h : ScanOf(h, g, l) => ScanOf(h, f, l)
    BY <1>6, <1>8 DEF ScanOf
  <2>2. Listed(list', f.task) => f.task \in asleep
    BY DEF asleep
  <2> QED BY <1>3, <1>6, <1>8, <1>9, <2>1, <2>2 DEF Places
<1> QED BY <1>10 DEF asleep, l

LEMMA ScanComparePlaces ==
    ASSUME LookInv, ScanCompare
    PROVE  Places(Top, Top.list, list, suspended)
<1>1. stack # <<>> /\ Top.pc = "scan"
  BY DEF ScanCompare, Executes
<1>2. /\ Top \in Frame /\ Top.task \in Task /\ Top.pos \in Task /\ Top.list \in Delayed
      /\ DTypes
  BY <1>1, TopFrameIs DEF FrameOK, InHandler, Frame
<1>3. /\ list \in Lists /\ OneOn(list) /\ delay_until \in [Task -> Tick]
      /\ ListsOK(list, suspended, sleep)
      /\ \A l \in Delayed : \A t : OnList(t, l) <=> Contains(list[l], t)
  BY <1>2, OnListIs DEF DTypes, ListsOK
<1>4. list[Top.list] \in Seq(Task) /\ Injective(list[Top.list])
  BY <1>2, <1>3 DEF Lists, OneOn
<1>5. CASE /\ Contains(list[Top.list], Top.pos)
           /\ Insert(Top, list, suspended, Top.pos)
  BY <1>2, <1>3, <1>5, InsertPlaces
<1>6. CASE ScanAt(Top, list, suspended, ScanNext(Top))
  <2>1. ScanNext(Top) \in Task \cup {NULL}
    BY <1>2, <1>3, <1>4, FirstIs, SuccessorIs DEF ScanNext
  <2> QED BY <1>2, <1>3, <1>6, <2>1, ScanAtPlaces
<1> QED BY <1>2, <1>3, <1>5, <1>6 DEF ScanCompare

LEMMA TimersAreTasks ==
    /\ Timers \subseteq Task /\ AutoReset \subseteq Timers /\ OneShot \subseteq Timers
    /\ \A t \in AutoReset : t \notin OneShot
    /\ \A t \in Timers : period[t] \in Tick /\ (t \in AutoReset \/ t \in OneShot)
BY TimerAssumption DEF Timers

LEMMA PlaceKeeps ==
    ASSUME LookInv, KeepsHistory, UNCHANGED <<tick, current>>,
           delay_until' \in [Task -> Tick], stack # <<>>,
           Top.pc \in {"reset", "read", "scan"},
           NEW asleep, \A u \in Task : u # Top.task => (u \in asleep <=> u \in suspended),
           NEW l, Places(Top, l, list, asleep)
    PROVE  LookInv'
<1> DEFINE s == stack
           f == Top
           t == f.task
<1>1. /\ s \in Seq(Frame) /\ f = s[Len(s)] /\ f \in Frame /\ FrameOK(f)
      /\ Len(s) \in 1 .. Len(s) /\ StackInv(s) /\ FrameKind(f) /\ DTypes
      /\ Front(s) \in Seq(Frame)
  BY TopFrameIs
<1>2. ~InHandler(f) /\ t \in Task
  BY <1>1 DEF FrameOK, InHandler
<1>3. f.timer \/ t \notin Timers
  BY <1>1 DEF FrameKind
<1>4. TaskFrame(t) \in Frame /\ FrameOK(TaskFrame(t)) /\ TaskFrame(t).pc = "run"
  BY <1>2, FrameTypes
<1>5. TaskFrame(t).task = t /\ ~TaskFrame(t).timer
  BY DEF TaskFrame
<1>6. \A u \in Task : u # t => /\ Listed(list', u) <=> Listed(list, u)
                               /\ u \in suspended' <=> u \in suspended
  BY <1>1 DEF Places
<1>7. /\ stopped' = stopped \cap suspended' /\ quiet' = quiet /\ armed' = armed
      /\ quiet \subseteq Timers /\ Timers \subseteq Task
  BY TimersAreTasks DEF KeepsHistory, LookInv
<1>8. t \in Timers => Looks(s, t) /\ LookAt(f, t)
  BY <1>1, <1>3 DEF Looks, LookAt
<1>9. t \in Timers => ~Rests(t, quiet', armed')
  <2>1. t \in Timers => ~Rests(t, quiet, armed)
    BY <1>8 DEF LookInv, IdleInv, Idle
  <2> QED BY <1>7, <2>1 DEF Rests
<1>10. ListsOK(list', suspended', sleep')
  BY DEF Places
<1>11. CASE /\ suspended' = asleep
            /\ \E g \in Frame : ScanOf(g, f, l) /\ stack' = Append(Front(s), g)
  <2>1. PICK g \in Frame : ScanOf(g, f, l) /\ stack' = Append(Front(s), g)
    BY <1>11
  <2>2. g.pc = "scan" /\ g.task = t /\ g.timer = f.timer /\ FrameOK(g)
    BY <1>1, <2>1 DEF ScanOf
  <2>3. stack' \in Seq(Frame) /\ DTypes'
    <3>1. stack' \in Seq(Frame)
      BY <1>1, <2>1
    <3> QED BY <1>1, <1>10, <3>1, TypesNext
  <2> HIDE DEF s, f
  <2>4. Replaced(stack', s, g)
    BY <1>1, <2>1, ReplacedIs
  <2>5. FrameKind(g) /\ (TaskLevel(g) <=> TaskLevel(f)) /\ ~InHandler(g)
    BY <1>1, <1>2, <1>3, <2>2 DEF FrameKind, TaskLevel, InHandler
  <2>6. StackInv(stack')
    BY <1>1, <2>2, <2>4, <2>5, ReplaceInv
  <2>7. ASSUME NEW u \in Timers, u # t PROVE SameFor(u)
    BY <1>1, <1>6, <1>7, <2>2, <2>4, <2>7, ReplaceOther DEF SameFor, s
  <2>8. t \in AutoReset => Looks(stack', t)
    <3>1. t \in AutoReset => LookAt(g, t)
      BY <1>3, <2>2 DEF LookAt, Timers
    <3> QED BY <1>1, <2>4, <3>1, ReplaceMarks
  <2> QED BY <1>7, <1>9, <2>3, <2>6, <2>7, <2>8, OnlyOne
<1>12. CASE suspended' = asleep \ {t} /\ stack' = DelayReturn(f) /\ f.timer
  <2>1. stack' = Front(s) /\ DTypes'
    <3>1. stack' = Front(s)
      BY <1>12 DEF DelayReturn
    <3> QED BY <1>1, <1>10, <3>1, TypesNext
  <2> HIDE DEF s, f
  <2>2. Popped(stack', s)
    BY <1>1, <2>1, PoppedIs DEF s
  <2>3. StackInv(stack')
    BY <1>1, <2>2, PopInv
  <2>4. ASSUME NEW u \in Timers, u # t PROVE SameFor(u)
    BY <1>1, <1>6, <1>7, <2>2, <2>4, PopMarks DEF SameFor, LookAt, RunAt, s
  <2> QED BY <1>7, <1>9, <1>12, <2>1, <2>3, <2>4, OnlyOne
<1>13. CASE suspended' = asleep \ {t} /\ stack' = DelayReturn(f) /\ ~f.timer
  <2> DEFINE g == TaskFrame(t)
  <2>1. stack' = Append(Front(s), g) /\ DTypes'
    <3>1. stack' = Append(Front(s), g)
      BY <1>13 DEF DelayReturn, Replace
    <3>2. stack' \in Seq(Frame)
      BY <1>1, <1>4, <3>1
    <3> QED BY <1>1, <1>10, <3>1, <3>2, TypesNext
  <2> HIDE DEF s, f, g
  <2>2. Replaced(stack', s, g)
    BY <1>1, <1>4, <2>1, ReplacedIs DEF s, g
  <2>3. FrameKind(g) /\ TaskLevel(f) /\ t \notin Timers
    BY <1>2, <1>3, <1>4, <1>5, <1>13 DEF FrameKind, TaskLevel, g
  <2>4. StackInv(stack')
    BY <1>1, <1>5, <2>2, <2>3, ReplaceInv DEF g
  <2>5. ASSUME NEW u \in Timers, u # t PROVE SameFor(u)
    BY <1>1, <1>5, <1>6, <1>7, <2>2, <2>5, ReplaceOther DEF SameFor, s, g
  <2> QED BY <1>7, <2>1, <2>3, <2>4, <2>5, OnlyOne DEF Timers
<1> QED BY <1>11, <1>12, <1>13 DEF Places

-----------------------------------------------------------------------------
(* The steps.                                                                *)

LEMMA ResetIs ==
    ASSUME NEW t \in Timers, NEW now \in Tick
    PROVE  LET f == ResetFrame(t, now)
           IN  /\ f \in Frame /\ FrameOK(f) /\ f.pc = "reset" /\ f.task = t /\ f.timer
               /\ f.now = now /\ f.wakeup = (now + period[t]) % TickMod
               /\ f.left = period[t] /\ ~f.wrapped
               /\ FrameKind(f) /\ ~TaskLevel(f) /\ ~InHandler(f)
<1> DEFINE w == (now + period[t]) % TickMod
           f == ResetFrame(t, now)
<1>1. t \in Task /\ period[t] \in Tick
  BY TimersAreTasks
<1>2. w \in Tick
  BY <1>1, TickAssumption DEF Tick
<1>3. TaskFrame(t) \in Frame
  BY <1>1, FrameTypes
<1>4. ~TaskFrame(t).wrapped /\ TaskFrame(t).task = t
  BY DEF TaskFrame
<1>5. f = [TaskFrame(t) EXCEPT !.pc = "reset", !.timer = TRUE, !.now = now,
                               !.wakeup = w, !.left = period[t]]
  BY DEF ResetFrame
<1> HIDE DEF f, w
<1>6. /\ f \in Frame /\ f.pc = "reset" /\ f.task = t /\ f.timer
      /\ f.now = now /\ f.wakeup = w /\ f.left = period[t] /\ ~f.wrapped
  BY <1>1, <1>2, <1>3, <1>4, <1>5 DEF Frame, PC
<1> QED BY <1>1, <1>6 DEF FrameOK, FrameKind, TaskLevel, InHandler, f, w

LEMMA ResetKeeps ==
    ASSUME LookInv, NEW t \in Timers, TimerReset(t)
    PROVE  LookInv'
<1> DEFINE s == stack
           g == ResetFrame(t, tick)
<1>1. /\ s \in Seq(Frame) /\ tick \in Tick /\ StackInv(s) /\ DTypes
      /\ list \in Lists /\ OneOn(list) /\ quiet \subseteq Timers /\ t \in Task
  BY TimersAreTasks DEF LookInv, DTypes
<1>2. g \in Frame /\ FrameKind(g) /\ ~TaskLevel(g) /\ g.task = t
  BY <1>1, ResetIs
<1>3. /\ suspended' = suspended \ {t} /\ list' = Unlisted(t) /\ sleep' = Awake(t)
      /\ UNCHANGED <<tick, current, delay_until>>
      /\ stack' = Append(s, g) /\ stopped' = stopped \ {t} /\ quiet' = quiet \ {t}
      /\ armed' = armed \cup ({t} \cap OneShot)
  BY DEF TimerReset, Resume
<1> HIDE DEF g, s
<1>4. stack' \in Seq(Frame) /\ Pushed(stack', s, g)
  BY <1>1, <1>2, <1>3, PushedIs
<1>5. DTypes'
  BY <1>1, <1>3, <1>4, TypesLeave
<1>6. StackInv(stack')
  BY <1>1, <1>2, <1>4, PushInv
<1>7. ASSUME NEW u \in Timers, u # t PROVE SameFor(u)
  <2>1. Listed(list', u) => Listed(list, u)
    BY <1>1, <1>3, <1>7, TimersAreTasks, UnlistedIs
  <2>2. /\ Looks(stack', u) <=> Looks(s, u)
        /\ Runs(stack', u) <=> Runs(s, u)
    BY <1>1, <1>2, <1>4, <1>7, PushMarks DEF LookAt, RunAt
  <2> QED BY <1>3, <1>7, <2>1, <2>2 DEF SameFor, s
<1>8. ~Rests(t, quiet', armed')
  BY <1>3 DEF Rests
<1> QED BY <1>1, <1>3, <1>5, <1>6, <1>7, <1>8, OnlyOne

\* A timer that is stopped.
LEMMA StopKeeps ==
    ASSUME LookInv, NEW t \in Timers, TimerStop(t)
    PROVE  LookInv'
<1>1. /\ stack \in Seq(Frame) /\ StackInv(stack) /\ quiet \subseteq Timers /\ DTypes
      /\ t \in Task /\ list \in Lists /\ OneOn(list)
  BY TimersAreTasks DEF LookInv, DTypes
<1>2. /\ stopped' = (stopped \cup {t}) \cap AutoReset
      /\ quiet' = IF AboutToStart(t) THEN quiet ELSE quiet \cup {t}
      /\ armed' = armed /\ stack' = stack
  BY DEF TimerStop, TaskSuspend, vars
<1>3. LooksAt(t) <=> Looks(stack, t)
  BY <1>1 DEF LooksAt, Looks
<1>4. (\E i \in DOMAIN stack : stack[i].task = t) <=> Looks(stack, t) \/ Runs(stack, t)
  <2>1. DOMAIN stack = 1 .. Len(stack)
    BY <1>1
  <2>2. \A i \in 1 .. Len(stack) :
            stack[i].task = t <=> LookAt(stack[i], t) \/ RunAt(stack[i], t)
    <3>1. \A f \in Frame : f.task = t <=> LookAt(f, t) \/ RunAt(f, t)
      BY DEF LookAt, RunAt, TaskLevel
    <3> QED BY <1>1, <3>1
  <2> QED BY <2>1, <2>2 DEF Looks, Runs
<1>5. AboutToStart(t) <=> Looks(stack, t) \/ (t \in AutoReset /\ Runs(stack, t))
  BY <1>3, <1>4 DEF AboutToStart
<1>6. /\ DTypes' /\ t \in suspended'
      /\ \A u \in Task : Listed(list', u) => Listed(list, u)
      /\ \A u \in Task : u # t => (u \in suspended' <=> u \in suspended)
      /\ ~Listed(list', t)
  <2>1. CASE TaskSuspend(t)
    <3>1. DTypes'
      BY <1>1, <1>2, <2>1, TypesLeave DEF TaskSuspend
    <3> QED BY <1>1, <2>1, <3>1, UnlistedIs DEF TaskSuspend
  <2>2. CASE ~Stoppable(t) /\ UNCHANGED vars
    <3>1. DTypes'
      BY <1>1, <2>2, TypesStay DEF vars
    <3> QED BY <1>1, <2>2, <3>1 DEF vars, Stoppable, DTypes
  <2> QED BY <2>1, <2>2 DEF TimerStop
<1>7. StackInv(stack') /\ quiet' \subseteq Timers
  BY <1>1, <1>2
<1>8. ASSUME NEW u \in Timers, u # t PROVE SameFor(u)
  <2>1. stack' = stack /\ armed' = armed /\ (u \in quiet' <=> u \in quiet)
    BY <1>2, <1>8
  <2>2. u \in AutoReset /\ u \in stopped => u \in stopped'
    BY <1>2
  <2> QED BY <1>6, <1>8, <2>1, <2>2, TimersAreTasks DEF SameFor
<1>9. ASSUME Rests(t, quiet', armed') PROVE Idle(stack', list', suspended', t)
  <2>1. CASE ~AboutToStart(t)
    BY <1>2, <1>5, <1>6, <2>1 DEF Idle
  <2>2. CASE Rests(t, quiet, armed)
    <3>1. Idle(stack, list, suspended, t)
      BY <2>2 DEF LookInv, IdleInv
    <3> QED BY <1>2, <1>6, <3>1 DEF Idle
  <2> QED BY <1>2, <1>9, <2>1, <2>2 DEF Rests
<1>10. t \in AutoReset => t \in stopped'
  BY <1>2
<1> QED BY <1>6, <1>7, <1>8, <1>9, <1>10, OnlyOne

\* The timer's function begins: nobody looks at it, and it does not run.
LEMMA CallIs ==
    ASSUME LookInv, NEW t \in Task, CallTask(t)
    PROVE  /\ t \notin suspended /\ ~Listed(list, t)
           /\ \A i \in 1 .. Len(stack) :
                 TaskLevel(stack[i]) /\ Priority[stack[i].task] < Priority[t]
           /\ ~Looks(stack, t) /\ ~Runs(stack, t)
           /\ t \in Timers => ~Rests(t, quiet, armed)
<1> DEFINE s == stack
<1>1. /\ s \in Seq(Frame) /\ StackInv(s)
      /\ \A u \in Task : u \in Sleeping <=> Listed(list, u)
  BY OnListIs DEF LookInv, DTypes
<1>2. TaskStart(t)
  BY DEF CallTask
<1>3. t \notin suspended /\ ~Listed(list, t)
  BY <1>1, <1>2 DEF TaskStart, Ready
<1>4. s = <<>> \/ (/\ s # <<>> /\ Top.pc \in {"run", "read"}
                  /\ Priority[Top.task] < Priority[t])
  BY <1>2 DEF TaskStart, Executes
<1>5. \A i \in 1 .. Len(s) : TaskLevel(s[i]) /\ Priority[s[i].task] < Priority[t]
  <2>1. CASE s = <<>>
    BY <2>1
  <2>2. CASE s # <<>> /\ Top.pc \in {"run", "read"} /\ Priority[Top.task] < Priority[t]
    <3>1. /\ Top = s[Len(s)] /\ Len(s) \in 1 .. Len(s) /\ Len(s) \in Nat
          /\ Top.task \in Task
      BY <2>2, TopFrameIs DEF FrameOK, InHandler
    <3>2. TaskLevel(Top)
      BY <2>2, <3>1, <1>1 DEF StackInv, FrameKind, TaskLevel, InHandler
    <3> SUFFICES ASSUME NEW i \in 1 .. Len(s)
                 PROVE  TaskLevel(s[i]) /\ Priority[s[i].task] < Priority[t]
      OBVIOUS
    <3>3. CASE i = Len(s)
      BY <2>2, <3>1, <3>2, <3>3
    <3>4. CASE i # Len(s)
      <4>1. i < Len(s) /\ TaskLevel(s[Len(s)])
        BY <3>1, <3>2, <3>4
      <4>2. TaskLevel(s[i]) /\ Priority[s[i].task] < Priority[Top.task]
        BY <1>1, <3>1, <4>1 DEF StackInv, Rising
      <4>3. s[i] \in Frame /\ FrameOK(s[i])
        BY <1>1 DEF StackInv, FrameKind
      <4>4. s[i].task \in Task
        BY <4>2, <4>3 DEF FrameOK, TaskLevel
      <4>5. Priority[s[i].task] \in Nat /\ Priority[t] \in Nat /\ Priority[Top.task] \in Nat
        BY <3>1, <4>4, PriorityAssumption
      <4> QED BY <2>2, <4>2, <4>5
    <3> QED BY <3>3, <3>4
  <2> QED BY <1>4, <2>1, <2>2
<1>6. ~Looks(s, t) /\ ~Runs(s, t)
  <2>1. \A i \in 1 .. Len(s) : ~LookAt(s[i], t)
    BY <1>5 DEF LookAt, TaskLevel
  <2>2. ASSUME NEW i \in 1 .. Len(s), s[i].task = t PROVE FALSE
    BY <1>5, <2>2, PriorityAssumption
  <2> QED BY <2>1, <2>2 DEF Looks, Runs, RunAt
<1>7. t \in Timers => ~Rests(t, quiet, armed)
  BY <1>3, <1>6 DEF LookInv, IdleInv, Idle
<1> QED BY <1>3, <1>5, <1>6, <1>7

LEMMA CallKeeps ==
    ASSUME LookInv, NEW t \in Task, CallTask(t)
    PROVE  LookInv'
<1> DEFINE s == stack
           g == TaskFrame(t)
<1>1. s \in Seq(Frame) /\ StackInv(s) /\ quiet \subseteq Timers /\ DTypes
  BY DEF LookInv, DTypes
<1>2. /\ armed' = armed \ {t} /\ stopped' = stopped /\ quiet' = quiet
      /\ stack' = Append(s, g)
      /\ UNCHANGED <<tick, current, suspended, list, delay_until, sleep>>
  BY DEF CallTask, TaskStart
<1>3. g \in Frame /\ FrameOK(g) /\ g.pc = "run"
  BY FrameTypes
<1>4. stack' \in Seq(Frame) /\ DTypes'
  <2>1. stack' \in Seq(Frame)
    BY <1>1, <1>2, <1>3
  <2> QED BY <1>1, <1>2, <2>1, TypesStay
<1>5. g.task = t /\ ~g.timer
  BY DEF TaskFrame
<1> HIDE DEF g, s
<1>6. Pushed(stack', s, g) /\ FrameKind(g) /\ TaskLevel(g)
  <2>1. Pushed(stack', s, g)
    BY <1>1, <1>2, <1>3, PushedIs
  <2> QED BY <2>1, <1>3, <1>5 DEF FrameKind, TaskLevel, InHandler
<1>7. StackInv(stack')
  <2>1. \A i \in 1 .. Len(s) : TaskLevel(s[i]) /\ Priority[s[i].task] < Priority[g.task]
    BY <1>5, CallIs DEF s
  <2> QED BY <1>1, <1>6, <2>1, PushInv
<1>8. ASSUME NEW u \in Timers, u # t PROVE SameFor(u)
  BY <1>1, <1>2, <1>5, <1>6, <1>8, PushMarks DEF SameFor, LookAt, RunAt, s
<1>9. ASSUME t \in Timers, Rests(t, quiet', armed')
      PROVE  Idle(stack', list', suspended', t)
  <2>1. t \in OneShot /\ t \notin AutoReset
    BY <1>2, <1>9, CallIs, TimersAreTasks DEF Rests
  <2>2. Runs(stack', t) /\ ~Looks(stack', t)
    <3>1. ~Looks(s, t) /\ RunAt(g, t) /\ ~LookAt(g, t)
      BY <1>5, <1>6, CallIs DEF RunAt, LookAt, TaskLevel, s
    <3> QED BY <1>1, <1>6, <3>1, PushMarks
  <2> QED BY <1>2, <2>1, <2>2, CallIs DEF Idle
<1>10. t \notin suspended'
  BY <1>2, CallIs
<1> QED BY <1>1, <1>2, <1>4, <1>7, <1>8, <1>9, <1>10, OnlyOne

\* The timer's function has returned.
LEMMA NextStateKeeps ==
    ASSUME LookInv, TimerNextState
    PROVE  LookInv'
<1> DEFINE s == stack
<1>1. /\ stack # <<>> /\ Top.pc = "run" /\ Top.task \in Timers
      /\ armed' = armed /\ quiet' = quiet /\ stopped' = stopped \cap suspended'
  BY DEF TimerNextState, Executes, KeepsHistory
<1>2. PICK t \in Timers : t = Top.task
  BY <1>1
<1>3. /\ s \in Seq(Frame) /\ tick \in Tick /\ StackInv(s) /\ DTypes
      /\ quiet \subseteq Timers /\ list \in Lists /\ OneOn(list)
      /\ \A u \in Task : u \in Sleeping <=> Listed(list, u)
  BY OnListIs DEF LookInv, DTypes
<1>4. /\ Top = s[Len(s)] /\ Len(s) \in 1 .. Len(s) /\ s # <<>>
      /\ Front(s) \in Seq(Frame) /\ FrameKind(Top)
  BY <1>1, TopFrameIs
<1>5. TaskLevel(Top)
  BY <1>1, <1>4 DEF FrameKind, TaskLevel, InHandler
<1>6. t \in Task /\ RunAt(Top, t) /\ Runs(s, t)
  BY <1>2, <1>4, <1>5, TimersAreTasks DEF RunAt, Runs
<1>7. CASE /\ t \in AutoReset /\ Resume(t)
           /\ stack' = Append(Front(s), ResetFrame(t, tick))
  <2> DEFINE g == ResetFrame(t, tick)
  <2>1. g \in Frame /\ FrameKind(g) /\ ~TaskLevel(g) /\ g.task = t
    BY <1>3, ResetIs
  <2>2. stack' = Append(Front(s), g)
    BY <1>7
  <2>3. /\ suspended' = suspended \ {t} /\ list' = Unlisted(t) /\ sleep' = Awake(t)
        /\ UNCHANGED <<tick, current, delay_until>>
    BY <1>7 DEF Resume
  <2> HIDE DEF g, s
  <2>4. Replaced(stack', s, g)
    BY <1>3, <1>4, <2>1, <2>2, ReplacedIs
  <2>5. DTypes'
    <3>1. stack' \in Seq(Frame)
      BY <1>4, <2>1, <2>2
    <3> QED BY <1>3, <1>6, <2>3, <3>1, TypesLeave
  <2>6. StackInv(stack')
    BY <1>3, <2>1, <2>4, ReplaceInv
  <2>7. ASSUME NEW u \in Timers, u # t PROVE SameFor(u)
    <3>1. Listed(list', u) => Listed(list, u)
      BY <1>3, <1>6, <2>3, <2>7, TimersAreTasks, UnlistedIs
    <3>2. /\ Looks(stack', u) <=> Looks(s, u)
          /\ Runs(stack', u) <=> Runs(s, u)
      BY <1>2, <1>3, <1>4, <2>1, <2>4, <2>7, ReplaceOther
    <3> QED BY <1>1, <2>3, <2>7, <3>1, <3>2 DEF SameFor, s
  <2>8. ~Rests(t, quiet', armed')
    <3>1. ~Rests(t, quiet, armed)
      BY <1>6, <1>7 DEF LookInv, IdleInv, Idle, s
    <3> QED BY <1>1, <3>1 DEF Rests
  <2> QED BY <1>1, <1>3, <2>3, <2>5, <2>6, <2>7, <2>8, OnlyOne
<1>8. CASE /\ t \notin AutoReset /\ t \in Sleeping /\ stack' = Front(s)
           /\ UNCHANGED <<tick, current, suspended, list, delay_until, sleep>>
  <2> HIDE DEF s
  <2>1. Popped(stack', s)
    BY <1>3, <1>4, <1>8, PoppedIs
  <2>2. DTypes'
    <3>1. stack' \in Seq(Frame)
      BY <1>4, <1>8
    <3> QED BY <1>3, <1>8, <3>1, TypesStay
  <2>3. StackInv(stack')
    BY <1>3, <2>1, PopInv
  <2>4. ASSUME NEW u \in Timers, u # t PROVE SameFor(u)
    <3>1. /\ Looks(stack', u) <=> Looks(s, u)
          /\ Runs(stack', u) <=> Runs(s, u)
      BY <1>2, <1>3, <1>4, <2>1, <2>4, PopMarks DEF LookAt, RunAt
    <3> QED BY <1>1, <1>8, <3>1 DEF SameFor, s
  <2>5. ~Rests(t, quiet', armed')
    <3>1. ~Rests(t, quiet, armed)
      BY <1>3, <1>6, <1>8 DEF LookInv, IdleInv, Idle
    <3> QED BY <1>1, <3>1 DEF Rests
  <2> QED BY <1>1, <1>3, <1>8, <2>2, <2>3, <2>4, <2>5, OnlyOne
<1>9. CASE /\ t \notin AutoReset
           /\ stack' = Append(Front(s), [TaskFrame(t) EXCEPT !.pc = "stop"])
           /\ UNCHANGED <<tick, current, suspended, list, delay_until, sleep>>
  <2> DEFINE g == [TaskFrame(t) EXCEPT !.pc = "stop"]
  <2>1. TaskFrame(t) \in Frame /\ TaskFrame(t).task = t /\ ~TaskFrame(t).timer
    BY <1>6, FrameTypes DEF TaskFrame
  <2>2. /\ g \in Frame /\ g.pc = "stop" /\ g.task = t /\ ~g.timer
    BY <2>1 DEF Frame, PC
  <2>3. stack' = Append(Front(s), g)
    BY <1>9
  <2> HIDE DEF g, s
  <2>4. FrameKind(g) /\ TaskLevel(g)
    BY <1>6, <1>9, <2>2, TimersAreTasks DEF FrameOK, FrameKind, TaskLevel, InHandler
  <2>5. Replaced(stack', s, g)
    BY <1>3, <1>4, <2>2, <2>3, ReplacedIs
  <2>6. DTypes'
    <3>1. stack' \in Seq(Frame)
      BY <1>4, <2>2, <2>3
    <3> QED BY <1>3, <1>9, <3>1, TypesStay
  <2>7. StackInv(stack')
    BY <1>2, <1>3, <1>4, <1>5, <2>2, <2>4, <2>5, ReplaceInv
  <2>8. ASSUME NEW u \in Timers, u # t PROVE SameFor(u)
    <3>1. /\ Looks(stack', u) <=> Looks(s, u)
          /\ Runs(stack', u) <=> Runs(s, u)
      BY <1>2, <1>3, <1>4, <2>2, <2>5, <2>8, ReplaceOther
    <3> QED BY <1>1, <1>9, <3>1 DEF SameFor, s
  <2>9. ASSUME Rests(t, quiet', armed') PROVE Idle(stack', list', suspended', t)
    <3>1. Idle(s, list, suspended, t)
      BY <1>1, <2>9 DEF LookInv, IdleInv, Rests, s
    <3>2. Runs(stack', t) /\ ~Looks(stack', t)
      <4>1. RunAt(g, t) /\ ~LookAt(g, t)
        BY <2>2, <2>4 DEF RunAt, LookAt, TaskLevel
      <4> QED BY <1>3, <2>5, <3>1, <4>1, ReplaceMarks DEF Idle
    <3> QED BY <1>9, <3>1, <3>2 DEF Idle
  <2> QED BY <1>1, <1>3, <1>9, <2>6, <2>7, <2>8, <2>9, OnlyOne
<1> QED BY <1>2, <1>7, <1>8, <1>9 DEF TimerNextState, Restarts, KeepsRunning, Replace

\* A one-shot timer suspends itself.
LEMMA OneShotStopKeeps ==
    ASSUME LookInv, OneShotStop
    PROVE  LookInv'
<1> DEFINE s == stack
<1>1. /\ stack # <<>> /\ Top.pc = "stop"
      /\ armed' = armed /\ quiet' = quiet /\ stopped' = stopped \cap suspended'
  BY DEF OneShotStop, Executes, KeepsHistory
<1>2. /\ s \in Seq(Frame) /\ StackInv(s) /\ quiet \subseteq Timers /\ DTypes
      /\ list \in Lists /\ OneOn(list)
  BY DEF LookInv, DTypes
<1>3. /\ Top = s[Len(s)] /\ Len(s) \in 1 .. Len(s) /\ s # <<>>
      /\ Front(s) \in Seq(Frame)
  BY <1>1, TopFrameIs
<1>4. Top.task \in OneShot
  BY <1>1, <1>2, <1>3 DEF StackInv, FrameKind
<1>5. PICK t \in OneShot : t = Top.task
  BY <1>4
<1>6. t \in Task /\ t \in Timers /\ t \notin AutoReset
  BY TimersAreTasks
<1>7. /\ suspended' = suspended \cup {t} /\ list' = Unlisted(t) /\ sleep' = Awake(t)
      /\ UNCHANGED <<tick, current, delay_until>> /\ stack' = Front(s)
  BY <1>5 DEF OneShotStop
<1> HIDE DEF s
<1>8. Popped(stack', s)
  BY <1>2, <1>3, <1>7, PoppedIs
<1>9. DTypes'
  <2>1. stack' \in Seq(Frame)
    BY <1>3, <1>7
  <2> QED BY <1>2, <1>6, <1>7, <2>1, TypesLeave
<1>10. StackInv(stack')
  BY <1>2, <1>8, PopInv
<1>11. ~Listed(list', t) /\ \A u \in Task : Listed(list', u) => Listed(list, u)
  BY <1>2, <1>6, <1>7, UnlistedIs
<1>12. ASSUME NEW u \in Timers, u # t PROVE SameFor(u)
  <2>1. /\ Looks(stack', u) <=> Looks(s, u)
        /\ Runs(stack', u) <=> Runs(s, u)
    BY <1>2, <1>3, <1>5, <1>8, <1>12, PopMarks DEF LookAt, RunAt
  <2> QED BY <1>1, <1>7, <1>11, <1>12, <2>1, TimersAreTasks DEF SameFor, s
<1>13. ASSUME Rests(t, quiet', armed') PROVE Idle(stack', list', suspended', t)
  <2>1. Idle(s, list, suspended, t)
    BY <1>1, <1>6, <1>13 DEF LookInv, IdleInv, Rests, s
  <2>2. ~Looks(stack', t)
    BY <1>2, <1>8, <2>1, PopMarks DEF Idle
  <2> QED BY <1>6, <1>7, <1>11, <2>2 DEF Idle
<1> QED BY <1>1, <1>2, <1>6, <1>9, <1>10, <1>12, <1>13, OnlyOne

\* A task that is no timer is resumed, reads the tick or returns.
LEMMA TaskResumeKeeps ==
    ASSUME LookInv, NEW t \in Task \ Timers, TaskResume(t), KeepsHistory
    PROVE  LookInv'
<1>1. /\ list \in Lists /\ OneOn(list) /\ StackInv(stack) /\ quiet \subseteq Timers
      /\ DTypes /\ stack \in Seq(Frame)
  BY DEF LookInv, DTypes
<1>2. /\ stack' = stack /\ suspended' = suspended \ {t} /\ list' = Unlisted(t)
      /\ sleep' = Awake(t) /\ UNCHANGED <<tick, current, delay_until>>
      /\ armed' = armed /\ quiet' = quiet /\ stopped' = stopped \cap suspended'
  BY DEF TaskResume, Resume, KeepsHistory
<1>3. DTypes'
  BY <1>1, <1>2, TypesLeave
<1>4. ASSUME NEW u \in Timers, u # t PROVE SameFor(u)
  BY <1>1, <1>2, <1>4, TimersAreTasks, UnlistedIs DEF SameFor
<1>5. StackInv(stack')
  BY <1>1, <1>2
<1> QED BY <1>1, <1>2, <1>3, <1>4, <1>5, OnlyOne, TimersAreTasks

LEMMA TaskReturnKeeps ==
    ASSUME LookInv, TaskReturn, Top.task \notin Timers, KeepsHistory
    PROVE  LookInv'
<1> DEFINE s == stack
<1>1. /\ stack # <<>> /\ stack' = Front(s)
      /\ UNCHANGED <<tick, current, suspended, list, delay_until, sleep>>
      /\ armed' = armed /\ quiet' = quiet /\ stopped' = stopped \cap suspended'
  BY DEF TaskReturn, Executes, KeepsHistory
<1>2. /\ s \in Seq(Frame) /\ StackInv(s) /\ DTypes /\ Top = s[Len(s)]
      /\ Front(s) \in Seq(Frame) /\ quiet \subseteq Timers
  BY <1>1, TopFrameIs DEF LookInv
<1>3. DTypes'
  BY <1>1, <1>2, TypesStay
<1> HIDE DEF s
<1>4. Popped(stack', s)
  BY <1>1, <1>2, PoppedIs DEF s
<1>5. StackInv(stack')
  BY <1>2, <1>4, PopInv
<1>6. ASSUME NEW u \in Timers PROVE SameFor(u)
  <2>1. u # Top.task
    OBVIOUS
  <2>2. /\ Looks(stack', u) <=> Looks(s, u)
        /\ Runs(stack', u) <=> Runs(s, u)
    BY <1>2, <1>4, <2>1, PopMarks DEF LookAt, RunAt
  <2> QED BY <1>1, <2>2 DEF SameFor, s
<1>7. NULL \notin Timers /\ AutoReset \subseteq Timers
  BY TimersAreTasks, NullAssumption
<1> QED BY <1>1, <1>2, <1>3, <1>5, <1>6, <1>7, OnlyOne

\* The frame of a task_delay() that read the tick.
LEMMA ReadIs ==
    ASSUME LookInv, NEW d \in Delays, ReadTick(d)
    PROVE  /\ stack # <<>> /\ Top.pc = "run"
           /\ UNCHANGED <<tick, current, suspended, list, delay_until, sleep>>
           /\ \E g \in Frame : /\ stack' = Append(Front(stack), g)
                               /\ g.pc = "read" /\ g.task = Top.task
                               /\ g.timer = Top.timer /\ FrameOK(g)
<1> DEFINE wakeup == (tick + d) % TickMod
           g == [Top EXCEPT !.pc = "read", !.now = tick, !.wakeup = wakeup,
                            !.left = d, !.wrapped = FALSE]
<1>1. /\ stack # <<>> /\ Top.pc = "run" /\ stack' = Append(Front(stack), g)
      /\ UNCHANGED <<tick, current, suspended, list, delay_until, sleep>>
  BY DEF ReadTick, Executes, Replace
<1>2. Top \in Frame /\ FrameOK(Top)
  BY <1>1, TopFrameIs
<1>3. d \in Tick /\ wakeup \in Tick /\ tick \in Tick
  BY TickAssumption DEF LookInv, DTypes, Tick
<1> HIDE DEF wakeup
<1>4. g \in Frame /\ g.pc = "read" /\ g.task = Top.task /\ g.timer = Top.timer
  BY <1>2, <1>3 DEF Frame, PC
<1> HIDE DEF g
<1>5. FrameOK(g)
  BY <1>1, <1>2, <1>4 DEF FrameOK, InHandler
<1> QED BY <1>1, <1>4, <1>5

LEMMA TaskReadsKeeps ==
    ASSUME LookInv, NEW d \in Delays, ReadTick(d), Top.task \notin Timers, KeepsHistory
    PROVE  LookInv'
<1> DEFINE s == stack
<1>1. /\ stack # <<>> /\ Top.pc = "run"
      /\ UNCHANGED <<tick, current, suspended, list, delay_until, sleep>>
      /\ armed' = armed /\ quiet' = quiet /\ stopped' = stopped \cap suspended'
  BY ReadIs DEF KeepsHistory
<1>2. PICK g \in Frame : /\ stack' = Append(Front(s), g)
                         /\ g.pc = "read" /\ g.task = Top.task
                         /\ g.timer = Top.timer /\ FrameOK(g)
  BY ReadIs
<1>3. /\ s \in Seq(Frame) /\ StackInv(s) /\ DTypes /\ FrameKind(Top)
      /\ Top = s[Len(s)] /\ Len(s) \in 1 .. Len(s)
      /\ Front(s) \in Seq(Frame) /\ quiet \subseteq Timers
  BY <1>1, TopFrameIs DEF LookInv
<1>4. DTypes'
  <2>1. stack' \in Seq(Frame)
    BY <1>2, <1>3
  <2> QED BY <1>1, <1>3, <2>1, TypesStay
<1> HIDE DEF s
<1>5. Replaced(stack', s, g)
  BY <1>1, <1>2, <1>3, ReplacedIs DEF s
<1>6. FrameKind(g) /\ TaskLevel(Top)
  BY <1>1, <1>2, <1>3 DEF FrameKind, TaskLevel, InHandler
<1>7. StackInv(stack')
  BY <1>2, <1>3, <1>5, <1>6, ReplaceInv
<1>8. ASSUME NEW u \in Timers PROVE SameFor(u)
  <2>1. u # Top.task
    OBVIOUS
  <2>2. /\ Looks(stack', u) <=> Looks(s, u)
        /\ Runs(stack', u) <=> Runs(s, u)
    BY <1>2, <1>3, <1>5, <2>1, ReplaceOther
  <2> QED BY <1>1, <2>2 DEF SameFor, s
<1>9. NULL \notin Timers /\ AutoReset \subseteq Timers
  BY TimersAreTasks, NullAssumption
<1> QED BY <1>1, <1>3, <1>4, <1>7, <1>8, <1>9, OnlyOne

\* The steps of task_delay_now_until().
LEMMA DelayKeeps ==
    ASSUME LookInv, KeepsHistory, DelayUntil(Top), stack # <<>>,
           Top.pc \in {"reset", "read"}
    PROVE  LookInv'
<1>1. Top \in Frame /\ FrameOK(Top) /\ DTypes
  BY TopFrameIs
<1>2. Top.task \in Task
  BY <1>1 DEF FrameOK, InHandler
<1>3. Places(Top, DelayList(Top.now, Top.wakeup), list, suspended \cup {Top.task})
  BY <1>1, <1>2, DelayUntilPlaces
<1>4. UNCHANGED <<tick, current>> /\ delay_until' \in [Task -> Tick]
  BY <1>1 DEF DelayUntil, DTypes, Frame
<1> QED BY <1>3, <1>4, PlaceKeeps

LEMMA CompareKeeps ==
    ASSUME LookInv, KeepsHistory, ScanCompare
    PROVE  LookInv'
<1>1. stack # <<>> /\ Top.pc = "scan" /\ UNCHANGED <<tick, current, delay_until>>
  BY DEF ScanCompare, Executes
<1>2. Places(Top, Top.list, list, suspended)
  BY ScanComparePlaces
<1>3. delay_until' \in [Task -> Tick]
  BY <1>1 DEF LookInv, DTypes
<1> QED BY <1>1, <1>2, <1>3, PlaceKeeps

\* A handler looks at a task it has found on a list.
Looking(g) ==
    /\ g \in Frame /\ InHandler(g) /\ FrameOK(g)
    /\ g.task \in Task /\ Listed(list, g.task)

LEMMA HandlerLooks ==
    ASSUME DTypes, NEW f \in Frame, InHandler(f), FrameOK(f), NEW cur \in Delayed
    PROVE  \/ Handler(f, cur) = <<>>
           \/ \E g : Handler(f, cur) = <<g>> /\ Looking(g)
<1>1. ASSUME NEW l \in Delayed, NEW now, FirstDue(l, now) # NULL
      PROVE  FirstDue(l, now) \in Task /\ Listed(list, FirstDue(l, now))
  <2>1. list[l] \in Seq(Task) /\ list[l] # <<>> /\ FirstDue(l, now) = Head(list[l])
    BY <1>1 DEF DTypes, Lists, FirstDue
  <2>2. Head(list[l]) = list[l][1] /\ 1 \in 1 .. Len(list[l]) /\ Head(list[l]) \in Task
    BY <2>1
  <2> QED BY <2>1, <2>2 DEF Listed, Contains
<1> DEFINE due == FirstDue(f.list, IF f.pc = "overflow" THEN MAX_DELAY ELSE f.now)
           next == FirstDue(cur, f.now)
<1>2. /\ f.list \in Delayed /\ ~f.timer /\ f.pc = "overflow" => f.now = 0
      /\ due # NULL => due \in Task /\ Listed(list, due)
      /\ next # NULL => next \in Task /\ Listed(list, next)
  BY <1>1 DEF Frame, FrameOK
<1>3. Handler(f, cur) = IF due # NULL THEN <<[f EXCEPT !.task = due]>>
                        ELSE IF f.pc = "overflow" /\ next # NULL
                        THEN <<[f EXCEPT !.pc = "current", !.list = cur, !.task = next]>>
                        ELSE <<>>
  BY DEF Handler
<1> HIDE DEF due, next
<1>4. CASE due # NULL
  <2> DEFINE g == [f EXCEPT !.task = due]
  <2>1. /\ g \in Frame /\ g.pc = f.pc /\ g.now = f.now /\ g.task = due
        /\ g.timer = f.timer /\ g.pos = f.pos
    BY <1>2, <1>4 DEF Frame
  <2>2. Handler(f, cur) = <<g>>
    BY <1>3, <1>4
  <2> HIDE DEF g
  <2>3. Looking(g)
    BY <1>2, <1>4, <2>1 DEF Looking, FrameOK, InHandler
  <2> QED BY <2>2, <2>3
<1>5. CASE due = NULL /\ f.pc = "overflow" /\ next # NULL
  <2> DEFINE g == [f EXCEPT !.pc = "current", !.list = cur, !.task = next]
  <2>1. g \in Frame /\ g.pc = "current" /\ g.task = next /\ g.timer = f.timer
    BY <1>2, <1>5 DEF Frame, PC
  <2>2. Handler(f, cur) = <<g>>
    BY <1>3, <1>5
  <2> HIDE DEF g
  <2>3. Looking(g)
    BY <1>2, <1>5, <2>1 DEF Looking, FrameOK, InHandler
  <2> QED BY <2>2, <2>3
<1> QED BY <1>3, <1>4, <1>5

\* The tick interrupt.
LEMMA TickLooks ==
    ASSUME DTypes, TickInterrupt
    PROVE  /\ stack' \in Seq(Frame) /\ DTypes' /\ UNCHANGED <<suspended, list>>
           /\ \A i \in 1 .. Len(stack) :
                 i \in 1 .. Len(stack') /\ stack'[i] = TickedFrame(stack[i], tick')
           /\ \/ Len(stack') = Len(stack)
              \/ Len(stack') = Len(stack) + 1 /\ Looking(stack'[Len(stack) + 1])
<1> DEFINE now == (tick + 1) % TickMod
           s == TickedStack(now)
           f == TickHandler(now)
<1>1. /\ tick' = now /\ current' = CurrentAt(now)
      /\ stack' = s \o Handler(f, CurrentAt(now))
      /\ sleep' = [t \in Task |-> [Elapse(sleep[t]) EXCEPT !.fresh = FALSE]]
      /\ UNCHANGED <<suspended, list, delay_until>>
  BY Zenon DEF TickInterrupt, TickedStack, TickedFrame, TickHandler
<1>2. now \in Tick /\ CurrentAt(now) \in Delayed /\ current \in Delayed
  BY TickAssumption DEF DTypes, Tick, CurrentAt, Delayed
<1>3. stack \in Seq(Frame) /\ Len(stack) \in Nat
  BY DEF DTypes
<1>4. /\ s \in Seq(Frame) /\ Len(s) = Len(stack)
      /\ \A i \in 1 .. Len(stack) : s[i] = TickedFrame(stack[i], now)
  <2>1. \A i \in 1 .. Len(stack) : TickedFrame(stack[i], now) \in Frame
    BY <1>3, TickedFrameIs
  <2>2. s = [i \in 1 .. Len(stack) |-> TickedFrame(stack[i], now)]
    BY <1>3 DEF TickedStack
  <2> HIDE DEF s, now
  <2> QED BY <1>3, <2>1, <2>2
<1>5. f \in Frame /\ InHandler(f) /\ FrameOK(f)
  <2> DEFINE l == IF now = 0 THEN 1 - CurrentAt(now) ELSE CurrentAt(now)
             p == IF now = 0 THEN "overflow" ELSE "current"
             e == TaskFrame(NULL)
  <2>1. l \in Delayed
    BY <1>2 DEF Delayed
  <2>2. f = [e EXCEPT !.pc = p, !.now = now, !.list = l]
    BY DEF TickHandler
  <2>3. e \in Frame /\ e.timer = FALSE
    BY TickAssumption DEF TaskFrame, Frame, PC, Tick, Delayed
  <2>4. p \in {"overflow", "current"} /\ (p = "overflow" => now = 0)
    OBVIOUS
  <2> HIDE DEF f, e, l, p, now
  <2>5. f \in Frame /\ f.pc = p /\ f.now = now /\ f.timer = FALSE
    BY <1>2, <2>1, <2>2, <2>3, <2>4 DEF Frame, PC
  <2> QED BY <2>4, <2>5 DEF FrameOK, InHandler
<1>6. sleep' \in [Task -> Sleep]
  <2>1. ASSUME NEW t \in Task PROVE [Elapse(sleep[t]) EXCEPT !.fresh = FALSE] \in Sleep
    <3>1. sleep[t] \in Sleep
      BY DEF DTypes
    <3> DEFINE left == IF sleep[t].left = 0 THEN 0 ELSE sleep[t].left - 1
    <3>2. left \in Tick
      BY <3>1, TickAssumption DEF Sleep, Tick
    <3>3. Elapse(sleep[t]) = [sleep[t] EXCEPT !.left = left]
      BY DEF Elapse
    <3> HIDE DEF left
    <3> QED BY <3>1, <3>2, <3>3 DEF Sleep
  <2> QED BY <1>1, <2>1
<1> HIDE DEF s, f, now
<1>7. \/ stack' = s
      \/ \E g : stack' = Append(s, g) /\ Looking(g)
  <2>1. CASE Handler(f, CurrentAt(now)) = <<>>
    <3>1. s \o <<>> = s
      BY <1>4
    <3> QED BY <1>1, <2>1, <3>1
  <2>2. ASSUME NEW g, Handler(f, CurrentAt(now)) = <<g>>, Looking(g)
        PROVE  stack' = Append(s, g)
    <3>1. s \o <<g>> = Append(s, g)
      BY <1>4, <2>2 DEF Looking
    <3> QED BY <1>1, <2>2, <3>1
  <2> QED BY <1>2, <1>5, <2>1, <2>2, HandlerLooks
<1>8. /\ stack' \in Seq(Frame)
      /\ \A i \in 1 .. Len(stack) : i \in 1 .. Len(stack') /\ stack'[i] = s[i]
      /\ \/ Len(stack') = Len(stack)
         \/ Len(stack') = Len(stack) + 1 /\ Looking(stack'[Len(stack) + 1])
  <2>1. CASE stack' = s
    BY <1>3, <1>4, <2>1
  <2>2. ASSUME NEW g, stack' = Append(s, g), Looking(g)
        PROVE  /\ stack' \in Seq(Frame)
               /\ \A i \in 1 .. Len(stack) : i \in 1 .. Len(stack') /\ stack'[i] = s[i]
               /\ Len(stack') = Len(stack) + 1 /\ stack'[Len(stack) + 1] = g
    <3>1. g \in Frame
      BY <2>2 DEF Looking
    <3> QED BY <1>3, <1>4, <2>2, <3>1
  <2> QED BY <1>7, <2>1, <2>2
<1>9. DTypes'
  BY <1>1, <1>2, <1>6, <1>8 DEF DTypes
<1> QED BY <1>1, <1>4, <1>8, <1>9

LEMMA TickKeepsTimers ==
    ASSUME LookInv, KeepsHistory, TickInterrupt
    PROVE  LookInv'
<1> DEFINE s == stack
           n == Len(stack)
<1>1. /\ s \in Seq(Frame) /\ StackInv(s) /\ quiet \subseteq Timers /\ n \in Nat /\ DTypes
  BY DEF LookInv, DTypes
<1>2. /\ stack' \in Seq(Frame) /\ DTypes' /\ UNCHANGED <<suspended, list>>
      /\ \A i \in 1 .. n : i \in 1 .. Len(stack') /\ stack'[i] = TickedFrame(s[i], tick')
      /\ \/ Len(stack') = n
         \/ Len(stack') = n + 1 /\ Looking(stack'[n + 1])
  BY <1>1, TickLooks
<1>3. armed' = armed /\ quiet' = quiet /\ stopped' = stopped \cap suspended'
  BY DEF KeepsHistory
<1> HIDE DEF s, n
<1>4. ASSUME NEW i \in 1 .. n
      PROVE  /\ i \in 1 .. Len(stack') /\ s[i] \in Frame
             /\ stack'[i].task = s[i].task /\ stack'[i].timer = s[i].timer
             /\ TaskLevel(stack'[i]) <=> TaskLevel(s[i])
             /\ InHandler(stack'[i]) <=> InHandler(s[i])
             /\ FrameKind(stack'[i])
  <2>1. s[i] \in Frame /\ FrameKind(s[i]) /\ FrameOK(s[i])
    BY <1>1 DEF n, s, StackInv, FrameKind
  <2>2. stack'[i].task = s[i].task /\ stack'[i].timer = s[i].timer /\ stack'[i].pc = s[i].pc
    BY <1>2, <2>1, TickedFrameIs
  <2>3. FrameOK(stack'[i])
    BY <1>2, <2>1, TickedFrameOK
  <2> QED BY <1>2, <2>1, <2>2, <2>3 DEF TaskLevel, InHandler, FrameKind
<1>5. \A i \in 1 .. n, u \in Task :
         /\ LookAt(stack'[i], u) <=> LookAt(s[i], u)
         /\ RunAt(stack'[i], u) <=> RunAt(s[i], u)
  BY <1>4 DEF LookAt, RunAt
<1>6. CASE Len(stack') = n
  <2>1. StackInv(stack')
    BY <1>1, <1>4, <1>6 DEF StackInv, Rising, n, s
  <2>2. ASSUME NEW u \in Timers PROVE SameFor(u)
    BY <1>2, <1>3, <1>5, <1>6, TimersAreTasks DEF SameFor, Looks, Runs, n, s
  <2>3. NULL \notin Timers /\ AutoReset \subseteq Timers
    BY TimersAreTasks, NullAssumption
  <2> QED BY <1>1, <1>2, <1>3, <2>1, <2>2, <2>3, OnlyOne
<1>7. CASE Len(stack') = n + 1 /\ Looking(stack'[n + 1])
  <2>1. PICK g \in Frame : g = stack'[n + 1]
    BY <1>7 DEF Looking
  <2>2. InHandler(g) /\ FrameOK(g) /\ g.task \in Task /\ Listed(list, g.task)
    BY <1>7, <2>1 DEF Looking
  <2>3. FrameKind(g) /\ ~TaskLevel(g)
    BY <2>2 DEF FrameKind, FrameOK, TaskLevel, InHandler
  <2>4. \A i \in 1 .. Len(stack') : i = n + 1 \/ i \in 1 .. n
    BY <1>1, <1>7
  <2>5. StackInv(stack')
    <3>1. \A i \in 1 .. Len(stack') : FrameKind(stack'[i])
      BY <1>4, <2>1, <2>3, <2>4
    <3>2. ASSUME NEW i \in 1 .. Len(stack'), NEW j \in 1 .. Len(stack'), i < j,
                 TaskLevel(stack'[j])
          PROVE  TaskLevel(stack'[i]) /\ Priority[stack'[i].task] < Priority[stack'[j].task]
      <4>1. j \in 1 .. n /\ i \in 1 .. n
        BY <1>1, <2>1, <2>3, <2>4, <3>2
      <4>2. /\ TaskLevel(s[j]) /\ stack'[i].task = s[i].task /\ stack'[j].task = s[j].task
            /\ TaskLevel(stack'[i]) <=> TaskLevel(s[i])
        BY <1>4, <3>2, <4>1
      <4>3. TaskLevel(s[i]) /\ Priority[s[i].task] < Priority[s[j].task]
        BY <1>1, <3>2, <4>1, <4>2 DEF StackInv, Rising, n, s
      <4> QED BY <4>2, <4>3
    <3> QED BY <3>1, <3>2 DEF StackInv, Rising
  <2>6. ASSUME NEW u \in Timers, u # g.task PROVE SameFor(u)
    <3>1. ~LookAt(g, u) /\ ~RunAt(g, u)
      BY <2>6 DEF LookAt, RunAt
    <3>2. /\ Looks(stack', u) <=> Looks(s, u)
          /\ Runs(stack', u) <=> Runs(s, u)
      BY <1>4, <1>5, <2>1, <2>4, <3>1, TimersAreTasks DEF Looks, Runs, n, s
    <3> QED BY <1>2, <1>3, <3>2 DEF SameFor, s
  <2>7. g.task \in Timers => ~Rests(g.task, quiet', armed')
    <3>1. g.task \in Timers => ~Rests(g.task, quiet, armed)
      BY <2>2 DEF LookInv, IdleInv, Idle
    <3> QED BY <1>3, <3>1 DEF Rests
  <2>8. g.task \notin suspended'
    BY <1>1, <1>2, <2>2 DEF DTypes
  <2> QED BY <1>1, <1>2, <1>3, <2>5, <2>6, <2>7, <2>8, OnlyOne
<1> QED BY <1>2, <1>6, <1>7

\* A handler goes on.
LEMMA ResumeIs ==
    ASSUME LookInv, TickResume
    PROVE  /\ stack # <<>> /\ InHandler(Top) /\ Top.task \in Task /\ Resume(Top.task)
           /\ \E g \in Frame : /\ stack' = Append(Front(stack), g)
                               /\ InHandler(g) /\ FrameOK(g) /\ g.task = NULL
<1> DEFINE g == [Top EXCEPT !.task = NULL]
<1>1. /\ stack # <<>> /\ InHandler(Top) /\ Top.task # NULL /\ Resume(Top.task)
      /\ stack' = Append(Front(stack), g)
  BY DEF TickResume, Replace
<1>2. Top \in Frame /\ FrameOK(Top)
  BY <1>1, TopFrameIs
<1>3. Top.task \in Task
  BY <1>1, <1>2 DEF Frame
<1>4. /\ g \in Frame /\ g.task = NULL /\ g.pc = Top.pc
      /\ g.now = Top.now /\ g.timer = Top.timer /\ g.pos = Top.pos
  BY <1>2 DEF Frame
<1> HIDE DEF g
<1>5. InHandler(g) /\ FrameOK(g)
  BY <1>1, <1>2, <1>4 DEF FrameOK, InHandler
<1> QED BY <1>1, <1>3, <1>4, <1>5

LEMMA TickResumeKeepsTimers ==
    ASSUME LookInv, KeepsHistory, TickResume
    PROVE  LookInv'
<1> DEFINE s == stack
<1>1. /\ stack # <<>> /\ InHandler(Top) /\ Top.task \in Task
      /\ armed' = armed /\ quiet' = quiet /\ stopped' = stopped \cap suspended'
  BY ResumeIs DEF KeepsHistory
<1>2. PICK g \in Frame : /\ stack' = Append(Front(s), g)
                         /\ InHandler(g) /\ FrameOK(g) /\ g.task = NULL
  BY ResumeIs
<1>3. /\ s \in Seq(Frame) /\ StackInv(s) /\ quiet \subseteq Timers /\ DTypes
      /\ Top = s[Len(s)] /\ Len(s) \in 1 .. Len(s) /\ list \in Lists /\ OneOn(list)
      /\ Front(s) \in Seq(Frame)
  BY <1>1, TopFrameIs DEF LookInv, DTypes
<1>4. PICK t \in Task : t = Top.task
  BY <1>1
<1>5. /\ suspended' = suspended \ {t} /\ list' = Unlisted(t) /\ sleep' = Awake(t)
      /\ UNCHANGED <<tick, current, delay_until>>
  BY <1>4, ResumeIs DEF Resume
<1>6. DTypes'
  <2>1. stack' \in Seq(Frame)
    BY <1>2, <1>3
  <2> QED BY <1>3, <1>5, <2>1, TypesLeave
<1> HIDE DEF s
<1>7. Replaced(stack', s, g)
  BY <1>1, <1>2, <1>3, ReplacedIs DEF s
<1>8. FrameKind(g) /\ ~TaskLevel(g)
  BY <1>2 DEF FrameKind, FrameOK, TaskLevel, InHandler
<1>9. StackInv(stack')
  BY <1>3, <1>7, <1>8, ReplaceInv
<1>10. ASSUME NEW u \in Timers, u # t PROVE SameFor(u)
  <2>1. u # NULL
    BY TimersAreTasks, NullAssumption
  <2>2. /\ Looks(stack', u) <=> Looks(s, u)
        /\ Runs(stack', u) <=> Runs(s, u)
    BY <1>2, <1>3, <1>4, <1>7, <1>10, <2>1, ReplaceOther
  <2>3. Listed(list', u) => Listed(list, u)
    BY <1>3, <1>5, TimersAreTasks, UnlistedIs
  <2> QED BY <1>1, <1>5, <1>10, <2>2, <2>3 DEF SameFor, s
<1>11. t \in Timers => ~Rests(t, quiet', armed')
  <2>1. Looks(s, t)
    BY <1>1, <1>3, <1>4 DEF Looks, LookAt
  <2>2. t \in Timers => ~Rests(t, quiet, armed)
    BY <2>1 DEF LookInv, IdleInv, Idle, s
  <2> QED BY <1>1, <2>2 DEF Rests
<1> QED BY <1>1, <1>3, <1>5, <1>6, <1>9, <1>10, <1>11, OnlyOne

LEMMA LoopIs ==
    ASSUME LookInv, TickLoop
    PROVE  /\ stack # <<>> /\ InHandler(Top) /\ Top.task = NULL
           /\ UNCHANGED <<tick, current, suspended, list, delay_until, sleep>>
           /\ \/ stack' = Front(stack)
              \/ \E g : stack' = Append(Front(stack), g) /\ Looking(g)
<1>1. /\ stack # <<>> /\ InHandler(Top) /\ Top.task = NULL
      /\ UNCHANGED <<tick, current, suspended, list, delay_until, sleep>>
      /\ stack' = Front(stack) \o Handler(Top, current)
  BY DEF TickLoop
<1>2. /\ Top \in Frame /\ FrameOK(Top) /\ Front(stack) \in Seq(Frame)
      /\ DTypes /\ current \in Delayed
  BY <1>1, TopFrameIs DEF DTypes
<1>3. \/ Handler(Top, current) = <<>>
      \/ \E g : Handler(Top, current) = <<g>> /\ Looking(g)
  BY <1>1, <1>2, HandlerLooks
<1> DEFINE s == Front(stack)
<1> HIDE DEF s
<1>4. s \in Seq(Frame) /\ stack' = s \o Handler(Top, current)
  BY <1>1, <1>2 DEF s
<1>5. s \o <<>> = s /\ \A g \in Frame : s \o <<g>> = Append(s, g)
  BY <1>4
<1>6. \A g : Looking(g) => g \in Frame
  BY DEF Looking
<1> QED BY <1>1, <1>3, <1>4, <1>5, <1>6 DEF s

LEMMA TickLoopKeepsTimers ==
    ASSUME LookInv, KeepsHistory, TickLoop
    PROVE  LookInv'
<1> DEFINE s == stack
<1>1. /\ stack # <<>> /\ Top.task = NULL
      /\ UNCHANGED <<tick, current, suspended, list, delay_until, sleep>>
      /\ \/ stack' = Front(s)
         \/ \E g : stack' = Append(Front(s), g) /\ Looking(g)
      /\ armed' = armed /\ quiet' = quiet /\ stopped' = stopped \cap suspended'
  BY LoopIs DEF KeepsHistory
<1>2. /\ s \in Seq(Frame) /\ StackInv(s) /\ quiet \subseteq Timers /\ DTypes
      /\ Top = s[Len(s)] /\ Len(s) \in 1 .. Len(s) /\ Front(s) \in Seq(Frame)
  BY <1>1, TopFrameIs DEF LookInv
<1>3. DTypes'
  <2>1. stack' \in Seq(Frame)
    BY <1>1, <1>2 DEF Looking
  <2> QED BY <1>1, <1>2, <2>1, TypesStay
<1>4. NULL \notin Timers /\ AutoReset \subseteq Timers
  BY TimersAreTasks, NullAssumption
<1> HIDE DEF s
<1>5. CASE stack' = Front(s)
  <2>1. Popped(stack', s)
    BY <1>1, <1>2, <1>5, PoppedIs DEF s
  <2>2. StackInv(stack')
    BY <1>2, <2>1, PopInv
  <2>3. ASSUME NEW u \in Timers PROVE SameFor(u)
    <3>1. /\ Looks(stack', u) <=> Looks(s, u)
          /\ Runs(stack', u) <=> Runs(s, u)
      BY <1>1, <1>2, <1>4, <2>1, PopMarks DEF LookAt, RunAt
    <3> QED BY <1>1, <3>1 DEF SameFor, s
  <2> QED BY <1>1, <1>2, <1>3, <1>4, <2>2, <2>3, OnlyOne
<1>6. ASSUME NEW g, stack' = Append(Front(s), g), Looking(g) PROVE LookInv'
  <2>1. g \in Frame /\ InHandler(g) /\ FrameOK(g) /\ g.task \in Task /\ Listed(list, g.task)
    BY <1>6 DEF Looking
  <2>2. FrameKind(g) /\ ~TaskLevel(g)
    BY <2>1 DEF FrameKind, FrameOK, TaskLevel, InHandler
  <2>3. Replaced(stack', s, g)
    BY <1>1, <1>2, <1>6, <2>1, ReplacedIs DEF s
  <2>4. StackInv(stack')
    BY <1>2, <2>2, <2>3, ReplaceInv
  <2>5. ASSUME NEW u \in Timers, u # g.task PROVE SameFor(u)
    <3>1. /\ Looks(stack', u) <=> Looks(s, u)
          /\ Runs(stack', u) <=> Runs(s, u)
      BY <1>1, <1>2, <1>4, <2>3, <2>5, ReplaceOther
    <3> QED BY <1>1, <3>1 DEF SameFor, s
  <2>6. g.task \in Timers => ~Rests(g.task, quiet', armed')
    <3>1. g.task \in Timers => ~Rests(g.task, quiet, armed)
      BY <2>1 DEF LookInv, IdleInv, Idle
    <3> QED BY <1>1, <3>1 DEF Rests
  <2>7. g.task \notin suspended'
    BY <1>1, <1>2, <2>1 DEF DTypes
  <2> QED BY <1>1, <1>2, <1>3, <2>4, <2>5, <2>6, <2>7, OnlyOne
<1> QED BY <1>1, <1>5, <1>6

-----------------------------------------------------------------------------
(* The invariant holds.                                                      *)

LEMMA AutoTimers ==
    /\ Cardinality(AutoReset) \in Nat
    /\ SetToSeq(AutoReset) \in [1 .. Cardinality(AutoReset) -> AutoReset]
<1> DEFINE n == Cardinality(AutoReset)
<1>1. n \in Nat /\ ExistsBijection(1 .. n, AutoReset)
  BY TimerAssumption, FS_CardinalityType
<1>2. \E f \in [1 .. n -> AutoReset] : IsInjective(f)
  BY <1>1 DEF ExistsBijection, Bijection, Injection, IsInjective
<1> HIDE DEF n
<1>3. (CHOOSE f \in [1 .. n -> AutoReset] : IsInjective(f)) \in [1 .. n -> AutoReset]
  BY <1>2
<1> QED BY <1>1, <1>3 DEF SetToSeq, n

LEMMA TimerInvInit == TimerInit => TimerInv
<1> SUFFICES ASSUME TimerInit PROVE TimerInv
  OBVIOUS
<1> DEFINE n == Cardinality(AutoReset)
           a == SetToSeq(AutoReset)
<1>1. n \in Nat /\ a \in [1 .. n -> AutoReset]
  BY AutoTimers
<1>2. 0 \in Tick
  BY TickAssumption DEF Tick
<1>3. /\ tick = 0 /\ current = 0 /\ suspended = OneShot
      /\ list = [l \in Delayed |-> <<>>] /\ delay_until = [t \in Task |-> 0]
      /\ sleep = [t \in Task |-> NoSleep]
      /\ armed = {} /\ quiet = OneShot
      /\ stack = [i \in 1 .. n |-> ResetFrame(a[i], 0)]
  BY DEF TimerInit
<1> HIDE DEF n, a
<1>4. ASSUME NEW i \in 1 .. n
      PROVE  /\ stack[i] \in Frame /\ FrameOK(stack[i]) /\ stack[i].pc = "reset"
             /\ FrameKind(stack[i]) /\ ~TaskLevel(stack[i])
             /\ stack[i].task \in AutoReset
  <2>1. a[i] \in AutoReset /\ a[i] \in Timers
    BY <1>1, TimersAreTasks
  <2>2. stack[i] = ResetFrame(a[i], 0)
    BY <1>3
  <2> QED BY <1>2, <2>1, <2>2, ResetIs
<1>5. stack \in Seq(Frame) /\ Len(stack) = n
  BY <1>1, <1>3, <1>4
<1>6. \A l \in Delayed : list[l] = <<>> /\ Len(list[l]) = 0
  BY <1>3
<1>7. OneOn(list) /\ ByTick(list, delay_until)
  BY <1>6 DEF OneOn, ByTick, Injective, Contains, Before
<1>8. DTypes
  <2>1. list \in Lists
    BY <1>3 DEF Lists
  <2>2. \A t : ~Listed(list, t)
    BY <1>6 DEF Listed, Contains
  <2>3. sleep \in [Task -> Sleep]
    BY <1>2, <1>3 DEF Sleep, NoSleep
  <2>4. current \in Delayed /\ tick \in Tick /\ delay_until \in [Task -> Tick]
    BY <1>2, <1>3 DEF Delayed
  <2> QED BY <1>3, <1>5, <1>7, <2>1, <2>2, <2>3, <2>4, TimersAreTasks DEF DTypes
<1>9. ListInv(Scan)
  BY <1>4, <1>5, <1>7, <1>8 DEF ListInv, Nested, Scanned, Scan
<1>10. StackInv(stack)
  BY <1>4, <1>5 DEF StackInv, Rising
<1>11. IdleInv
  <2> SUFFICES ASSUME NEW t \in Timers, Rests(t, quiet, armed)
               PROVE  Idle(stack, list, suspended, t)
    BY DEF IdleInv
  <2>1. t \in OneShot /\ t \notin AutoReset
    BY <1>3, TimersAreTasks DEF Rests
  <2>2. ~Looks(stack, t)
    BY <1>4, <1>5, <2>1 DEF Looks, LookAt
  <2>3. ~Listed(list, t)
    BY <1>6 DEF Listed, Contains
  <2> QED BY <1>3, <2>1, <2>2, <2>3 DEF Idle
<1>12. ContinuesInv
  BY <1>3, TimersAreTasks DEF ContinuesInv
<1> QED BY <1>3, <1>8, <1>9, <1>10, <1>11, <1>12, TimersAreTasks DEF TimerInv, LookInv

LEMMA LookInvNext ==
    ASSUME LookInv, [TimerNext]_allVars
    PROVE  LookInv'
<1>1. ASSUME NEW t \in Timers, TimerReset(t) \/ TimerStart(t) \/ TimerStop(t)
      PROVE  LookInv'
  BY <1>1, ResetKeeps, StopKeeps DEF TimerStart
<1>2. CASE TimerDelay
  BY <1>2, DelayKeeps DEF TimerDelay, Executes
<1>3. ASSUME NEW t \in Task, CallTask(t) PROVE LookInv'
  BY <1>3, CallKeeps
<1>4. CASE TimerNextState
  BY <1>4, NextStateKeeps
<1>5. CASE OneShotStop
  BY <1>5, OneShotStopKeeps
<1>6. CASE OtherTask
  <2>1. ASSUME NEW t \in Task \ Timers, TaskResume(t) PROVE LookInv'
    BY <1>6, <2>1, TaskResumeKeeps DEF OtherTask
  <2>2. CASE Top.task \notin Timers /\ TaskReturn
    BY <1>6, <2>2, TaskReturnKeeps DEF OtherTask
  <2>3. ASSUME Top.task \notin Timers, NEW d \in Delays, ReadTick(d) PROVE LookInv'
    BY <1>6, <2>3, TaskReadsKeeps DEF OtherTask
  <2>4. CASE TaskDelay
    BY <1>6, <2>4, DelayKeeps DEF OtherTask, TaskDelay, Executes
  <2> QED BY <1>6, <2>1, <2>2, <2>3, <2>4 DEF OtherTask
<1>7. CASE Time
  BY <1>7, CompareKeeps, TickKeepsTimers, TickResumeKeepsTimers, TickLoopKeepsTimers DEF Time
<1>8. CASE UNCHANGED allVars
  <2>1. UNCHANGED <<vars, armed, stopped, quiet>>
    BY <1>8 DEF allVars, timerVars
  <2>2. DTypes'
    BY <2>1 DEF LookInv, DTypes, vars
  <2> QED BY <2>1, <2>2 DEF LookInv, StackInv, Rising, IdleInv, Idle, ContinuesInv, Looks,
                           Runs, vars
<1> QED BY <1>1, <1>2, <1>3, <1>4, <1>5, <1>6, <1>7, <1>8 DEF TimerNext

\* Who looks at which timer: the invariant holds wherever resets come.
THEOREM LookInvariantHolds == TimerSpec => []LookInv
<1>1. TimerInit => LookInv
  BY TimerInvInit DEF TimerInv
<1>2. LookInv /\ [TimerNext]_allVars => LookInv'
  BY LookInvNext
<1> QED BY <1>1, <1>2, PTL DEF TimerSpec

\* What becomes of a timer whose function returned.
LEMMA NextStateIs ==
    ASSUME LookInv, TimerNextState
    PROVE  /\ stack # <<>> /\ Top.pc = "run" /\ Top.task \in Task
           /\ \/ \E t \in Timers :
                    /\ Resume(t) /\ Leaves(t) /\ ResetFrame(t, tick) \in Frame
                    /\ stack' = Append(Front(stack), ResetFrame(t, tick))
              \/ /\ UNCHANGED <<tick, current, suspended, list, delay_until, sleep>>
                 /\ \/ stack' = Front(stack)
                    \/ \E g \in Frame : g.pc = "stop" /\ stack' = Append(Front(stack), g)
<1>1. stack # <<>> /\ Top.pc = "run" /\ Top.task \in Timers /\ Top.task \in Task
  BY TimersAreTasks DEF TimerNextState, Executes
<1>2. tick \in Tick
  BY DEF LookInv, DTypes
<1>3. ResetFrame(Top.task, tick) \in Frame
  BY <1>1, <1>2, ResetIs
<1>4. [TaskFrame(Top.task) EXCEPT !.pc = "stop"] \in Frame
  BY <1>1, FrameTypes DEF Frame, PC
<1>5. [TaskFrame(Top.task) EXCEPT !.pc = "stop"].pc = "stop"
  BY DEF TaskFrame
<1>6. CASE /\ Resume(Top.task)
           /\ stack' = Append(Front(stack), ResetFrame(Top.task, tick))
  BY <1>1, <1>3, <1>6 DEF Resume, Leaves
<1>7. CASE /\ UNCHANGED <<tick, current, suspended, list, delay_until, sleep>>
           /\ \/ stack' = Front(stack)
              \/ stack' = Append(Front(stack), [TaskFrame(Top.task) EXCEPT !.pc = "stop"])
  BY <1>1, <1>4, <1>5, <1>7
<1> QED BY <1>6, <1>7 DEF TimerNextState, Replace

\* The lists, if no reset comes into a scan.
LEMMA ListsAfterReset ==
    ASSUME ListInv(Scan), ~ResetInScan, NEW t \in Timers, TimerReset(t)
    PROVE  ListInv(Scan)'
<1> DEFINE s == stack
           g == ResetFrame(t, tick)
<1>1. s \in Seq(Frame) /\ Nested(s, Scan) /\ tick \in Tick /\ t \in Task
  BY TimersAreTasks DEF ListInv, DTypes
<1>2. g \in Frame /\ FrameOK(g) /\ g.pc # "scan"
  BY <1>1, ResetIs
<1>3. /\ suspended' = suspended \ {t} /\ list' = Unlisted(t) /\ sleep' = Awake(t)
      /\ UNCHANGED <<tick, current, delay_until>>
      /\ stack' = Append(s, g) /\ \A i \in DOMAIN s : s[i].pc # "scan"
  BY DEF TimerReset, Resume
<1>4. \A i \in 1 .. Len(s) : s[i].pc \notin Scan
  BY <1>1, <1>3 DEF Scan
<1> HIDE DEF g, s
<1>5. /\ stack' \in Seq(Frame) /\ Nested(stack', Scan) /\ FromFrames(stack', s, g)
  BY <1>1, <1>2, <1>3, <1>4, PushIs
<1> QED BY <1>1, <1>2, <1>3, <1>5, TaskLeaves DEF s

LEMMA ListsAfterNextState ==
    ASSUME ListInv(Scan), LookInv, TimerNextState
    PROVE  ListInv(Scan)'
<1> DEFINE s == stack
<1>1. /\ stack # <<>> /\ Top.pc = "run"
      /\ \/ \E t \in Timers :
               /\ Resume(t) /\ ResetFrame(t, tick) \in Frame
               /\ stack' = Append(Front(stack), ResetFrame(t, tick))
         \/ /\ UNCHANGED <<tick, current, suspended, list, delay_until, sleep>>
            /\ \/ stack' = Front(stack)
               \/ \E g \in Frame : g.pc = "stop" /\ stack' = Append(Front(stack), g)
  BY NextStateIs
<1>2. /\ s \in Seq(Frame) /\ s # <<>> /\ Nested(s, Scan) /\ ~InHandler(Last(s))
      /\ FrameOK(Top) /\ Top.pc # "scan"
  BY <1>1, StackIs DEF InHandler
<1>3. ASSUME NEW g \in Frame, stack' = Append(Front(s), g)
      PROVE  /\ stack' \in Seq(Frame) /\ Nested(stack', Scan) /\ FromFrames(stack', s, g)
             /\ Len(stack') \in 1 .. Len(stack') /\ stack'[Len(stack')] = g
  <2> HIDE DEF s
  <2> QED BY <1>2, <1>3, ReplaceIs, TopIs
<1>4. ASSUME NEW t \in Timers, Resume(t), stack' = Append(Front(s), ResetFrame(t, tick))
      PROVE  ListInv(Scan)'
  <2> DEFINE g == ResetFrame(t, tick)
  <2>1. g \in Frame /\ FrameOK(g) /\ g.pc # "scan" /\ t \in Task
    BY ResetIs, TimersAreTasks DEF ListInv, DTypes
  <2> HIDE DEF g
  <2>2. /\ stack' \in Seq(Frame) /\ Nested(stack', Scan) /\ FromFrames(stack', s, g)
    BY <1>3, <1>4, <2>1 DEF g
  <2> QED BY <1>4, <2>1, <2>2, TaskLeaves DEF Resume
<1>5. ASSUME UNCHANGED <<tick, current, suspended, list, delay_until, sleep>>,
             stack' = Front(s)
      PROVE  ListInv(Scan)'
  <2> DEFINE f == Top
  <2>1. stack' \in Seq(Frame) /\ Nested(stack', Scan) /\ FromFrames(stack', s, f)
    BY <1>2, <1>5, PopIs
  <2>2. FrameOK(f) /\ f.pc # "scan"
    BY <1>2
  <2> HIDE DEF f
  <2> QED BY <1>5, <2>1, <2>2, OnlyFrames
<1>6. ASSUME UNCHANGED <<tick, current, suspended, list, delay_until, sleep>>,
             NEW g \in Frame, g.pc = "stop", stack' = Append(Front(s), g)
      PROVE  ListInv(Scan)'
  <2>1. FrameOK(g)
    <3>1. StackInv(stack)'
      BY LookInvNext DEF LookInv, TimerNext
    <3> QED BY <1>3, <1>6, <3>1 DEF StackInv, FrameKind
  <2> QED BY <1>3, <1>6, <2>1, OnlyFrames
<1> QED BY <1>1, <1>4, <1>5, <1>6

LEMMA ListsAfterOneShotStop ==
    ASSUME ListInv(Scan), OneShotStop
    PROVE  ListInv(Scan)'
<1> DEFINE s == stack
           f == Top
<1>1. /\ stack # <<>> /\ Top.pc = "stop"
      /\ suspended' = suspended \cup {Top.task} /\ list' = Unlisted(Top.task)
      /\ sleep' = Awake(Top.task)
      /\ UNCHANGED <<tick, current, delay_until>> /\ stack' = Front(s)
  BY DEF OneShotStop, Executes
<1>2. /\ s \in Seq(Frame) /\ s # <<>> /\ Nested(s, Scan)
      /\ FrameOK(f) /\ f.pc # "scan" /\ Top.task \in Task
  BY <1>1, StackIs DEF FrameOK, InHandler
<1>3. stack' \in Seq(Frame) /\ Nested(stack', Scan) /\ FromFrames(stack', s, f)
  BY <1>1, <1>2, PopIs
<1> HIDE DEF f
<1> QED BY <1>1, <1>2, <1>3, TaskLeaves

LEMMA ListInvNext ==
    ASSUME ~ResetInScan, TimerInv, [TimerNext]_allVars
    PROVE  ListInv(Scan)'
<1>1. ListInv(Scan) /\ LookInv /\ "run" \notin Scan /\ "read" \notin Scan /\ "scan" \in Scan
  BY DEF TimerInv, Scan
<1>2. ASSUME NEW t \in Timers, TimerReset(t) \/ TimerStart(t) PROVE ListInv(Scan)'
  BY <1>1, <1>2, ListsAfterReset DEF TimerStart
<1>3. ASSUME NEW t \in Timers, TimerStop(t) PROVE ListInv(Scan)'
  <2>1. CASE TaskSuspend(t)
    BY <1>1, <2>1, SuspendKeeps, TimersAreTasks
  <2>2. CASE UNCHANGED vars
    BY <1>1, <2>2 DEF ListInv, DTypes, vars
  <2> QED BY <1>3, <2>1, <2>2 DEF TimerStop
<1>4. ASSUME DelayUntil(Top), stack # <<>>, Top.pc \in {"reset", "read"}
      PROVE  ListInv(Scan)'
  <2>1. Top \in Frame /\ Top.task \in Task /\ ~InHandler(Top) /\ Top.pc # "scan"
    BY <1>1, <1>4, StackIs DEF FrameOK, InHandler
  <2> QED BY <1>1, <1>4, <2>1, DelayUntilKeeps
<1>5. CASE TimerDelay
  BY <1>4, <1>5 DEF TimerDelay, Executes
<1>6. ASSUME NEW t \in Task, CallTask(t) PROVE ListInv(Scan)'
  BY <1>1, <1>6, StartKeeps DEF CallTask
<1>7. CASE TimerNextState
  BY <1>1, <1>7, ListsAfterNextState
<1>8. CASE OneShotStop
  BY <1>1, <1>8, ListsAfterOneShotStop
<1>9. CASE OtherTask
  <2>1. CASE TaskDelay
    BY <1>4, <2>1 DEF TaskDelay, Executes
  <2> QED BY <1>1, <1>9, <2>1, ResumeKeeps, ReturnKeeps, ReadTickKeeps DEF OtherTask
<1>10. CASE Time
  BY <1>1, <1>10, ScanCompareKeeps, TickKeeps, TickResumeKeeps, TickLoopKeeps DEF Time
<1>11. CASE UNCHANGED allVars
  BY <1>1, <1>11 DEF ListInv, DTypes, vars, allVars
<1> QED BY <1>2, <1>3, <1>5, <1>6, <1>7, <1>8, <1>9, <1>10, <1>11 DEF TimerNext

LEMMA TimerInvNext ==
    ASSUME ~ResetInScan, TimerInv, [TimerNext]_allVars
    PROVE  TimerInv'
BY ListInvNext, LookInvNext DEF TimerInv

\* The invariant of the timers and of the lists holds, as long as no reset
\* comes into a scan.
THEOREM TimerInvariantHolds ==
    ASSUME ~ResetInScan
    PROVE  TimerSpec => []TimerInv
<1>1. TimerInit => TimerInv
  BY TimerInvInit
<1>2. TimerInv /\ [TimerNext]_allVars => TimerInv'
  BY TimerInvNext
<1> QED BY <1>1, <1>2, PTL DEF TimerSpec

\* The variables have their types, and no timer is on two lists, however the
\* resets are nested and wherever they come (lines 770-784).
THEOREM TimerTypesHold == TimerSpec => []TypeOK
<1>1. LookInv => TypeOK
  BY TypesFollow DEF LookInv
<1> QED BY <1>1, LookInvariantHolds, PTL

\* The delayed lists stay sorted, although timers are put on them by tasks and
\* by handlers (lines 489-505), as long as no handler resets a timer while a
\* scan is under way: with such resets they do not (timer_reset_in_scan).
THEOREM TimerListsStaySorted ==
    ASSUME ~ResetInScan
    PROVE  TimerSpec => []SortedByTick
<1>1. TimerInv => SortedByTick
  BY SortedFollows DEF TimerInv
<1> QED BY <1>1, TimerInvariantHolds, PTL

\* An auto-reset timer goes on unless it is stopped (lines 632-634), wherever
\* it is reset: it is suspended only while somebody is about to delay it, or
\* because it was stopped and not resumed or delayed since.
THEOREM AutoTimersContinue == TimerSpec => []AutoContinues
<1>1. LookInv => AutoContinues
  <2> SUFFICES ASSUME LookInv, NEW t \in AutoReset \ stopped, t \in suspended
               PROVE  \E i \in DOMAIN stack : stack[i].task = t
    BY DEF AutoContinues
  <2>1. Looks(stack, t) \/ Runs(stack, t)
    BY DEF LookInv, ContinuesInv
  <2>2. stack \in Seq(Frame)
    BY DEF LookInv, DTypes
  <2> QED BY <2>1, <2>2 DEF Looks, Runs, LookAt, RunAt
<1> QED BY <1>1, LookInvariantHolds, PTL

-----------------------------------------------------------------------------
(* When a timer's function begins.                                           *)

\* Only a call begins a function.
LEMMA BeginsIsCall ==
    ASSUME LookInv, [TimerNext]_allVars, NEW t \in Task, Begins(t)
    PROVE  CallTask(t)
<1> DEFINE s == stack
           n == Len(stack)
<1>1. s \in Seq(Frame) /\ n \in Nat /\ TaskFrame(t) \in Frame /\ tick \in Tick
  BY FrameTypes DEF LookInv, DTypes
<1>2. Len(stack') = n + 1 /\ stack'[n + 1] = TaskFrame(t)
  BY <1>1 DEF Begins
<1>3. TaskFrame(t).pc = "run" /\ TaskFrame(t).task = t
  BY DEF TaskFrame
<1>4. stack' # stack
  BY <1>1, <1>2
<1>5. ASSUME stack # <<>>, stack' = Front(s) \/ \E g \in Frame : stack' = Append(Front(s), g)
      PROVE  FALSE
  <2>1. CASE stack' = Front(s)
    BY <1>1, <1>2, <1>5, <2>1, PoppedIs DEF Popped
  <2>2. ASSUME NEW g \in Frame, stack' = Append(Front(s), g) PROVE FALSE
    BY <1>1, <1>2, <1>5, <2>2, ReplacedIs DEF Replaced
  <2> QED BY <1>5, <2>1, <2>2
<1>6. ASSUME NEW u \in Timers, TimerReset(u) PROVE FALSE
  <2> DEFINE g == ResetFrame(u, tick)
  <2>1. g \in Frame /\ g.pc = "reset" /\ stack' = Append(s, g)
    BY <1>1, <1>6, ResetIs DEF TimerReset
  <2> HIDE DEF g
  <2>2. stack'[n + 1] = g
    BY <1>1, <2>1
  <2> QED BY <1>2, <1>3, <2>1, <2>2
<1>7. ASSUME NEW f, NEW l, NEW lists, NEW asleep, Places(f, l, lists, asleep), stack # <<>>,
             f.task \in Task
      PROVE  FALSE
  <2>1. TaskFrame(f.task) \in Frame
    BY <1>7, FrameTypes
  <2> QED BY <1>5, <1>7, <2>1 DEF Places, DelayReturn, Replace
<1>8. ASSUME DelayUntil(Top), stack # <<>>, Top.pc \in {"reset", "read"} PROVE FALSE
  <2>1. Top \in Frame /\ Top.task \in Task /\ DTypes
    BY <1>8, TopFrameIs DEF FrameOK, InHandler
  <2> QED BY <1>7, <1>8, <2>1, DelayUntilPlaces
<1>9. ~ScanCompare
  <2> SUFFICES ASSUME ScanCompare PROVE FALSE
    OBVIOUS
  <2>1. stack # <<>> /\ Top.pc = "scan"
    BY DEF ScanCompare, Executes
  <2>2. Top.task \in Task
    BY <2>1, TopFrameIs DEF FrameOK, InHandler
  <2> QED BY <1>7, <2>1, <2>2, ScanComparePlaces
<1>10. ~TimerNextState
  <2> SUFFICES ASSUME TimerNextState PROVE FALSE
    OBVIOUS
  <2>1. stack # <<>> /\ Top.task \in Timers /\ Top.task \in Task
    BY TimersAreTasks DEF TimerNextState, Executes
  <2>2. ResetFrame(Top.task, tick) \in Frame
    BY <1>1, <2>1, ResetIs
  <2>3. [TaskFrame(Top.task) EXCEPT !.pc = "stop"] \in Frame
    BY <2>1, FrameTypes DEF Frame, PC
  <2> QED BY <1>5, <2>1, <2>2, <2>3 DEF TimerNextState, Replace
<1>11. ~OneShotStop
  BY <1>5 DEF OneShotStop, Executes
<1>12. ~OtherTask
  <2>1. \A u \in Task \ Timers : ~TaskResume(u)
    BY <1>4 DEF TaskResume
  <2>2. ~TaskReturn
    BY <1>5 DEF TaskReturn, Executes
  <2>3. \A d \in Delays : ~ReadTick(d)
    BY <1>5, ReadIs
  <2>4. ~TaskDelay
    BY <1>8 DEF TaskDelay, Executes
  <2> QED BY <2>1, <2>2, <2>3, <2>4 DEF OtherTask
<1>13. ~TickInterrupt
  <2> SUFFICES ASSUME TickInterrupt PROVE FALSE
    OBVIOUS
  <2>1. \/ Len(stack') = n
        \/ Looking(stack'[n + 1])
    BY TickLooks DEF LookInv
  <2> QED BY <1>1, <1>2, <1>3, <2>1 DEF Looking, InHandler
<1>14. ~TickResume
  BY <1>5, ResumeIs
<1>15. ~TickLoop
  <2> SUFFICES ASSUME TickLoop PROVE FALSE
    OBVIOUS
  <2>1. /\ stack # <<>>
        /\ \/ stack' = Front(stack)
           \/ \E g : stack' = Append(Front(stack), g) /\ Looking(g)
    BY LoopIs
  <2> QED BY <1>5, <2>1 DEF Looking
<1>16. \A u \in Timers : ~TimerStop(u)
  BY <1>4 DEF TimerStop, TaskSuspend, vars
<1>17. ~TimerDelay
  BY <1>8 DEF TimerDelay, Executes
<1>18. \E u \in Task : CallTask(u)
  BY <1>4, <1>6, <1>9, <1>10, <1>11, <1>12, <1>13, <1>14, <1>15, <1>16, <1>17
     DEF TimerNext, TimerStart, Time, allVars, vars
<1>19. PICK u \in Task : CallTask(u)
  BY <1>18
<1>20. stack'[n + 1].task = u
  <2>1. stack' = Append(s, TaskFrame(u)) /\ TaskFrame(u) \in Frame
    BY <1>19, FrameTypes DEF CallTask, TaskStart
  <2>2. TaskFrame(u).task = u
    BY DEF TaskFrame
  <2> QED BY <1>1, <2>1, <2>2
<1> QED BY <1>2, <1>3, <1>19, <1>20

LEMMA RestedIsNotCalled ==
    ASSUME LookInv, [TimerNext]_allVars, NEW t \in Timers, Rests(t, quiet, armed)
    PROVE  ~Begins(t)
<1>1. t \in Task
  BY TimersAreTasks
<1>2. ~CallTask(t)
  BY <1>1, CallIs
<1> QED BY <1>1, <1>2, BeginsIsCall

\* Between two runs of a one-shot timer's function there is a start or a reset
\* (lines 695-696), whoever stops or resets it meanwhile.
THEOREM OneShotTimersRunOnce == TimerSpec => OneShotRunsOnce
<1>1. LookInv /\ [TimerNext]_allVars => [\A t \in OneShot \ armed : ~Begins(t)]_allVars
  <2>1. ASSUME LookInv, [TimerNext]_allVars, NEW t \in OneShot \ armed PROVE ~Begins(t)
    BY <2>1, RestedIsNotCalled, TimersAreTasks DEF Rests
  <2> QED BY <2>1
<1> QED BY <1>1, LookInvariantHolds, PTL DEF TimerSpec, OneShotRunsOnce

\* A timer that was stopped while no tick handler had found it due, no reset of
\* it was under way and (auto-reset) its function was not running does not begin
\* before a start or a reset of it, wherever those come (line 791).
THEOREM StoppedTimersDoNotRun == TimerSpec => StoppedNeverRuns
<1>1. LookInv /\ [TimerNext]_allVars => [\A t \in quiet : ~Begins(t)]_allVars
  <2>1. ASSUME LookInv, [TimerNext]_allVars, NEW t \in quiet PROVE ~Begins(t)
    <3>1. t \in Timers /\ Rests(t, quiet, armed)
      BY <2>1 DEF LookInv, Rests
    <3> QED BY <2>1, <3>1, RestedIsNotCalled
  <2> QED BY <2>1
<1> QED BY <1>1, LookInvariantHolds, PTL DEF TimerSpec, StoppedNeverRuns

\* A resume is kept (line 531).
LEMMA AwakeNow ==
    ASSUME LookInv
    PROVE  \A t \in Task : t \in Ready <=> t \notin suspended /\ ~Listed(list, t)
<1>1. \A t \in Task : t \in Sleeping <=> Listed(list, t)
  BY OnListIs DEF LookInv, DTypes
<1> QED BY <1>1 DEF Ready

LEMMA AwakeThen ==
    ASSUME LookInv'
    PROVE  \A t \in Task : t \in Ready' <=> t \notin suspended' /\ ~Listed(list', t)
<1>1. list' \in [Delayed -> Seq(Task)]
  BY DEF LookInv, DTypes, Lists
<1>2. ASSUME NEW t \in Task, NEW l \in Delayed
      PROVE  OnList(t, l)' <=> Contains(list'[l], t)
  BY <1>1 DEF OnList, ToSet, Contains
<1> QED BY <1>2 DEF Ready, Sleeping, Listed

LEMMA ResumesKept ==
    ASSUME LookInv, TimerNext, NEW t \in Ready, t \notin Ready'
    PROVE  TimerStop(t) \/ (Top.task = t /\ (TaskDelay \/ TimerDelay \/ OneShotStop))
<1>1. LookInv' /\ list \in Lists /\ OneOn(list)
  BY LookInvNext DEF LookInv, DTypes
<1>2. /\ t \in Task /\ t \notin suspended /\ ~Listed(list, t)
      /\ t \in suspended' \/ Listed(list', t)
  BY <1>1, AwakeNow, AwakeThen DEF Ready
<1>3. ~UNCHANGED <<suspended, list>>
  BY <1>2
<1>4. ASSUME NEW u \in Task, Resume(u) PROVE FALSE
  BY <1>1, <1>2, <1>4, UnlistedIs DEF Resume
<1>5. ASSUME NEW u \in Task, suspended' = suspended \cup {u}, list' = Unlisted(u)
      PROVE  u = t
  BY <1>1, <1>2, <1>5, UnlistedIs
<1>6. ASSUME NEW u \in Timers, TimerReset(u) PROVE FALSE
  BY <1>4, <1>6, TimersAreTasks DEF TimerReset
<1>7. ASSUME NEW u \in Timers, TimerStop(u) PROVE u = t
  BY <1>3, <1>5, <1>7, TimersAreTasks DEF TimerStop, TaskSuspend, vars
<1>8. ASSUME DelayUntil(Top), stack # <<>>, Top.pc \in {"reset", "read"} PROVE Top.task = t
  <2>1. Top \in Frame /\ Top.task \in Task /\ DTypes
    BY <1>8, TopFrameIs DEF FrameOK, InHandler
  <2>2. Places(Top, DelayList(Top.now, Top.wakeup), list, suspended \cup {Top.task})
    BY <1>8, <2>1, DelayUntilPlaces
  <2> QED BY <1>2, <2>2 DEF Places
<1>9. ~ScanCompare
  <2> SUFFICES ASSUME ScanCompare PROVE FALSE
    OBVIOUS
  <2>1. Places(Top, Top.list, list, suspended)
    BY ScanComparePlaces
  <2> QED BY <1>2, <2>1 DEF Places
<1>10. ~TimerNextState
  <2> SUFFICES ASSUME TimerNextState PROVE FALSE
    OBVIOUS
  <2>1. Top.task \in Task
    BY TimersAreTasks DEF TimerNextState
  <2> QED BY <1>3, <1>4, <2>1 DEF TimerNextState
<1>11. ASSUME OneShotStop PROVE Top.task = t
  <2>1. stack # <<>> /\ Top.pc = "stop"
    BY <1>11 DEF OneShotStop, Executes
  <2>2. Top.task \in Task
    BY <2>1, TopFrameIs DEF FrameOK, InHandler
  <2> QED BY <1>5, <1>11, <2>2 DEF OneShotStop
<1>12. ASSUME OtherTask PROVE TaskDelay /\ Top.task = t
  <2>1. \A u \in Task \ Timers : ~TaskResume(u)
    BY <1>4 DEF TaskResume
  <2>2. ~TaskReturn /\ \A d \in Delays : ~ReadTick(d)
    BY <1>3 DEF TaskReturn, ReadTick
  <2>3. TaskDelay
    BY <1>12, <2>1, <2>2 DEF OtherTask
  <2> QED BY <1>8, <2>3 DEF TaskDelay, Executes
<1>13. ~Time
  <2>1. ~TickResume
    BY <1>4, ResumeIs
  <2>2. ~TickInterrupt /\ ~TickLoop
    BY <1>3 DEF TickInterrupt, TickLoop
  <2> QED BY <1>9, <2>1, <2>2 DEF Time
<1>14. \A u \in Task : ~CallTask(u)
  BY <1>3 DEF CallTask, TaskStart
<1>15. TimerDelay => Top.task = t
  BY <1>8 DEF TimerDelay, Executes
<1> QED BY <1>6, <1>7, <1>10, <1>11, <1>12, <1>13, <1>14, <1>15 DEF TimerNext, TimerStart

\* A resume of a task or timer holds, also of one that is being delayed (line
\* 531): only a later call puts it to sleep again.
THEOREM ResumesAreKept == TimerSpec => ResumeKept
<1> DEFINE Step ==
      \A t \in Ready :
          t \notin Ready' =>
             \/ TimerStop(t)
             \/ Top.task = t /\ (TaskDelay \/ TimerDelay \/ OneShotStop)
<1>1. LookInv /\ [TimerNext]_allVars => [Step]_allVars
  BY ResumesKept
<1>2. TimerSpec => [][Step]_allVars
  BY <1>1, LookInvariantHolds, PTL DEF TimerSpec
<1> QED BY <1>2 DEF ResumeKept

-----------------------------------------------------------------------------
(* The time left, with one tick handler at a time.                           *)

\* A handler at work is that of the present tick.
AtWork(h, now, cur) ==
    /\ h.now = now
    /\ h.list = IF h.pc = "overflow" THEN 1 - cur ELSE cur
    /\ h.pc = "overflow" => now = 0

\* No timer that is delayed above a handler gets in its way.
Over(s, now, cur) ==
    /\ \A i \in 1 .. Len(s) : InHandler(s[i]) => AtWork(s[i], now, cur)
    /\ \A i, j \in 1 .. Len(s) :
          i < j /\ InHandler(s[i]) /\ s[j].pc \in Delaying => Passes(s[i], s[j], cur)
OverInv == Over(stack, tick, current)

LEMMA OverPushed ==
    ASSUME NEW s \in Seq(Frame), NEW now, NEW cur, Over(s, now, cur),
           NEW new, NEW g, Pushed(new, s, g),
           InHandler(g) => AtWork(g, now, cur),
           g.pc \in Delaying =>
              \A i \in 1 .. Len(s) : InHandler(s[i]) => Passes(s[i], g, cur)
    PROVE  Over(new, now, cur)
<1>1. /\ Len(s) \in Nat /\ Len(new) = Len(s) + 1 /\ new[Len(s) + 1] = g
      /\ \A i \in 1 .. Len(s) : new[i] = s[i]
  BY DEF Pushed
<1>2. \A i \in 1 .. Len(new) : i = Len(s) + 1 \/ i \in 1 .. Len(s)
  BY <1>1
<1>3. ASSUME NEW i \in 1 .. Len(new), InHandler(new[i]) PROVE AtWork(new[i], now, cur)
  BY <1>1, <1>2, <1>3 DEF Over
<1>4. ASSUME NEW i \in 1 .. Len(new), NEW j \in 1 .. Len(new), i < j,
             InHandler(new[i]), new[j].pc \in Delaying
      PROVE  Passes(new[i], new[j], cur)
  <2>1. i \in 1 .. Len(s) /\ new[i] = s[i]
    BY <1>1, <1>4
  <2>2. CASE j = Len(s) + 1
    BY <1>1, <1>4, <2>1, <2>2
  <2>3. CASE j \in 1 .. Len(s)
    BY <1>1, <1>4, <2>1, <2>3 DEF Over
  <2> QED BY <1>2, <2>2, <2>3
<1> QED BY <1>3, <1>4 DEF Over

LEMMA OverPopped ==
    ASSUME NEW s \in Seq(Frame), NEW now, NEW cur, Over(s, now, cur),
           NEW new, Popped(new, s)
    PROVE  Over(new, now, cur)
<1>1. \A i \in 1 .. Len(new) : i \in 1 .. Len(s) /\ new[i] = s[i]
  BY DEF Popped
<1> QED BY <1>1 DEF Over

LEMMA OverReplaced ==
    ASSUME NEW s \in Seq(Frame), NEW now, NEW cur, Over(s, now, cur),
           NEW new, NEW g, Replaced(new, s, g),
           InHandler(g) => AtWork(g, now, cur),
           g.pc \in Delaying =>
              \A i \in 1 .. Len(s) - 1 : InHandler(s[i]) => Passes(s[i], g, cur)
    PROVE  Over(new, now, cur)
<1>1. /\ Len(s) \in 1 .. Len(s) /\ Len(new) = Len(s) /\ new[Len(s)] = g /\ Len(s) \in Nat
      /\ \A i \in 1 .. Len(s) - 1 : new[i] = s[i]
  BY DEF Replaced
<1>2. \A i \in 1 .. Len(new) : i = Len(s) \/ i \in 1 .. Len(s) - 1
  BY <1>1
<1>3. ASSUME NEW i \in 1 .. Len(new), InHandler(new[i]) PROVE AtWork(new[i], now, cur)
  BY <1>1, <1>2, <1>3 DEF Over
<1>4. ASSUME NEW i \in 1 .. Len(new), NEW j \in 1 .. Len(new), i < j,
             InHandler(new[i]), new[j].pc \in Delaying
      PROVE  Passes(new[i], new[j], cur)
  <2>1. i \in 1 .. Len(s) - 1 /\ new[i] = s[i]
    BY <1>1, <1>4
  <2>2. CASE j = Len(s)
    BY <1>1, <1>4, <2>1, <2>2
  <2>3. CASE j \in 1 .. Len(s) - 1
    BY <1>1, <1>4, <2>1, <2>3 DEF Over
  <2> QED BY <1>2, <2>2, <2>3
<1> QED BY <1>3, <1>4 DEF Over

\* Under a task function there are no handlers.
LEMMA NoHandlersUnder ==
    ASSUME TimerInv, stack # <<>>, TaskLevel(Top)
    PROVE  \A i \in 1 .. Len(stack) : ~InHandler(stack[i])
<1>1. /\ Len(stack) \in Nat /\ Len(stack) \in 1 .. Len(stack) /\ Top = stack[Len(stack)]
  BY StackIs DEF TimerInv
<1>2. \A i \in 1 .. Len(stack) : i = Len(stack) \/ i < Len(stack)
  BY <1>1
<1> QED BY <1>1, <1>2 DEF TimerInv, LookInv, StackInv, Rising, TaskLevel

\* A reset is not for the timer that a handler below is about to resume, and
\* the timer does not go where that handler still meets it.
LEMMA ResetPasses ==
    ASSUME ListInv(Scan), NEW t \in Timers, NEW h \in Frame, InHandler(h),
           h.task # t, AtWork(h, tick, current)
    PROVE  Passes(h, ResetFrame(t, tick), current)
<1> DEFINE g == ResetFrame(t, tick)
           p == period[t]
<1>1. /\ tick \in 0 .. TickMod - 1 /\ p \in 0 .. TickMod - 1 /\ TickMod \in Nat /\ TickMod > 1
      /\ current \in {0, 1} /\ tick \in Tick
  BY TimersAreTasks, TickAssumption DEF ListInv, DTypes, Tick, Delayed
<1>2. /\ g.task = t /\ g.pc = "reset" /\ g.now = tick /\ g.left = p
      /\ g.wakeup = (tick + p) % TickMod
  BY <1>1, ResetIs
<1> HIDE DEF g, p
<1>3. \/ tick + p < TickMod /\ g.wakeup = tick + p
      \/ tick + p >= TickMod /\ g.wakeup = tick + p - TickMod
  BY <1>1, <1>2, WakeupIs
<1>4. Goes(g, current) = IF tick < g.wakeup THEN current ELSE 1 - current
  BY <1>2 DEF Goes
<1>5. ASSUME h.list = Goes(g, current), h.pc = "overflow" \/ g.wakeup <= h.now
      PROVE  g.left = 0
  <2>1. CASE h.pc = "overflow"
    <3>1. tick = 0 /\ h.list = 1 - current
      BY <2>1 DEF AtWork
    <3> QED BY <1>1, <1>2, <1>3, <1>4, <1>5, <3>1
  <2>2. CASE h.pc # "overflow"
    <3>1. h.now = tick /\ h.list = current
      BY <2>2 DEF AtWork
    <3> QED BY <1>1, <1>3, <1>4, <1>5, <2>2, <3>1
  <2> QED BY <2>1, <2>2
<1>6. h.task # g.task
  BY <1>2
<1> QED BY <1>5, <1>6 DEF Passes, g

\* The frame that delays a task is passed by the handlers below.
LEMMA TopPasses ==
    ASSUME TimerInv, OverInv, stack # <<>>, Top.pc \in Delaying
    PROVE  \A i \in 1 .. Len(stack) : InHandler(stack[i]) => Passes(stack[i], Top, current)
<1>1. /\ Len(stack) \in Nat /\ Len(stack) \in 1 .. Len(stack) /\ Top = stack[Len(stack)]
  BY StackIs DEF TimerInv
<1>2. \A i \in 1 .. Len(stack) : i = Len(stack) \/ i < Len(stack)
  BY <1>1
<1>3. ~InHandler(Top)
  BY DEF Delaying, InHandler
<1> QED BY <1>1, <1>2, <1>3 DEF OverInv, Over

LEMMA OverDelays ==
    ASSUME TimerInv, OverInv, UNCHANGED <<tick, current>>, stack # <<>>,
           Top.pc \in Delaying, NEW lists, NEW asleep,
           Places(Top, Goes(Top, current), lists, asleep)
    PROVE  OverInv'
<1> DEFINE s == stack
<1>1. /\ s \in Seq(Frame) /\ Len(s) \in Nat /\ Over(s, tick, current) /\ s # <<>>
      /\ Top \in Frame /\ FrameOK(Top)
  BY StackIs DEF TimerInv, OverInv
<1>2. TaskFrame(Top.task) \in Frame /\ TaskFrame(Top.task).pc = "run"
  BY <1>1, FrameTypes DEF FrameOK, Delaying, InHandler
<1>3. \A i \in 1 .. Len(s) : InHandler(s[i]) => Passes(s[i], Top, current)
  BY TopPasses
<1> HIDE DEF s
<1>4. ASSUME NEW g \in Frame, g.pc = "run" \/ ScanOf(g, Top, Goes(Top, current)),
             stack' = Append(Front(s), g)
      PROVE  Over(stack', tick, current)
  <2>1. Replaced(stack', s, g)
    BY <1>1, <1>4, ReplacedIs
  <2>2. ~InHandler(g)
    BY <1>4 DEF ScanOf, InHandler
  <2>3. g.pc \in Delaying
           => \A i \in 1 .. Len(s) - 1 : InHandler(s[i]) => Passes(s[i], g, current)
    <3> SUFFICES ASSUME g.pc \in Delaying, NEW i \in 1 .. Len(s) - 1, InHandler(s[i])
                 PROVE  Passes(s[i], g, current)
      OBVIOUS
    <3>1. /\ g.task = Top.task /\ g.wakeup = Top.wakeup /\ g.left = Top.left
          /\ Goes(g, current) = Goes(Top, current)
      BY <1>4 DEF ScanOf, Delaying, Goes
    <3>2. Passes(s[i], Top, current)
      BY <1>1, <1>3
    <3> QED BY <3>1, <3>2 DEF Passes
  <2> QED BY <1>1, <2>1, <2>2, <2>3, OverReplaced
<1>5. ASSUME stack' = Front(s) PROVE Over(stack', tick, current)
  BY <1>1, <1>5, PoppedIs, OverPopped
<1>6. Over(stack', tick, current)
  BY <1>2, <1>4, <1>5 DEF Places, DelayReturn, Replace, s
<1> QED BY <1>6 DEF OverInv

\* A step that pushes, pops or replaces a frame that is no handler.
LEMMA OverFrames ==
    ASSUME TimerInv, OverInv, UNCHANGED <<tick, current>>,
           \/ stack' = stack
           \/ stack # <<>> /\ stack' = Front(stack)
           \/ \E g \in Frame :
                 /\ ~InHandler(g) /\ g.pc \notin Delaying
                 /\ \/ stack' = Append(stack, g)
                    \/ stack # <<>> /\ stack' = Append(Front(stack), g)
    PROVE  OverInv'
<1> DEFINE s == stack
<1>1. s \in Seq(Frame) /\ Over(s, tick, current)
  BY DEF TimerInv, OverInv, ListInv, DTypes
<1> HIDE DEF s
<1>2. ASSUME stack' = s PROVE Over(stack', tick, current)
  BY <1>1, <1>2
<1>3. ASSUME s # <<>>, stack' = Front(s) PROVE Over(stack', tick, current)
  BY <1>1, <1>3, PoppedIs, OverPopped
<1>4. ASSUME NEW g \in Frame, ~InHandler(g), g.pc \notin Delaying, stack' = Append(s, g)
      PROVE  Over(stack', tick, current)
  BY <1>1, <1>4, PushedIs, OverPushed
<1>5. ASSUME NEW g \in Frame, ~InHandler(g), g.pc \notin Delaying,
             s # <<>>, stack' = Append(Front(s), g)
      PROVE  Over(stack', tick, current)
  BY <1>1, <1>5, ReplacedIs, OverReplaced
<1>6. Over(stack', tick, current)
  BY <1>1, <1>2, <1>3, <1>4, <1>5 DEF s
<1> QED BY <1>6 DEF OverInv

LEMMA OverReset ==
    ASSUME TimerInv, OverInv, ~ResetInScan, NEW t \in Timers, TimerReset(t)
    PROVE  OverInv'
<1> DEFINE s == stack
           g == ResetFrame(t, tick)
<1>1. /\ s \in Seq(Frame) /\ Over(s, tick, current) /\ tick \in Tick /\ ListInv(Scan)
      /\ \A i \in 1 .. Len(s) : i \in DOMAIN s /\ s[i] \in Frame
  BY DEF TimerInv, OverInv, ListInv, DTypes
<1>2. g \in Frame /\ ~InHandler(g)
  BY <1>1, ResetIs
<1>3. /\ stack' = Append(s, g) /\ UNCHANGED <<tick, current>>
      /\ \A i \in DOMAIN s : InHandler(s[i]) => s[i].task # t
  BY DEF TimerReset, Resume
<1> HIDE DEF s
<1>4. \A i \in 1 .. Len(s) : InHandler(s[i]) => Passes(s[i], g, current)
  BY <1>1, <1>3, ResetPasses DEF Over
<1> HIDE DEF g
<1>5. Pushed(stack', s, g)
  BY <1>1, <1>2, <1>3, PushedIs
<1>6. Over(stack', tick, current)
  BY <1>1, <1>2, <1>4, <1>5, OverPushed
<1> QED BY <1>3, <1>6 DEF OverInv

\* A task function reads the tick, or becomes the reset of its timer.
LEMMA OverAsks ==
    ASSUME TimerInv, OverInv, UNCHANGED <<tick, current>>, stack # <<>>, Top.pc = "run",
           NEW g \in Frame, ~InHandler(g), stack' = Append(Front(stack), g)
    PROVE  OverInv'
<1> DEFINE s == stack
<1>1. s \in Seq(Frame) /\ Over(s, tick, current) /\ s # <<>> /\ Len(s) \in 1 .. Len(s)
      /\ Top = s[Len(s)] /\ Len(s) \in Nat
  BY StackIs DEF TimerInv, OverInv
<1>2. TaskLevel(Top)
  BY <1>1 DEF TimerInv, LookInv, StackInv, FrameKind, TaskLevel, InHandler
<1>3. \A i \in 1 .. Len(s) - 1 : ~InHandler(s[i])
  BY <1>1, <1>2, NoHandlersUnder
<1> HIDE DEF s
<1>4. Replaced(stack', s, g)
  BY <1>1, ReplacedIs DEF s
<1>5. Over(stack', tick, current)
  BY <1>1, <1>3, <1>4, OverReplaced
<1> QED BY <1>5 DEF OverInv

\* The tick comes when no handler is at work, and starts one at most.
LEMMA OverTick ==
    ASSUME TimerInv, MaxIsr <= 1, TickInterrupt
    PROVE  OverInv'
<1> DEFINE n == Len(stack)
           f == TickHandler(tick')
           busy == {i \in DOMAIN stack : InHandler(stack[i])}
<1>1. /\ stack \in Seq(Frame) /\ n \in Nat /\ ListInv(Scan) /\ DOMAIN stack = 1 .. n
  BY DEF TimerInv, ListInv, DTypes
<1>2. Cardinality(busy) < MaxIsr /\ MaxIsr \in Nat
  BY BoundAssumption DEF TickInterrupt
<1>3. \A i \in 1 .. n : ~InHandler(stack[i])
  <2>1. IsFiniteSet(1 .. n)
    BY <1>1, FS_Interval
  <2>2. IsFiniteSet(busy)
    BY <1>1, <2>1, FS_Subset
  <2>3. Cardinality(busy) \in Nat
    BY <2>2, FS_CardinalityType
  <2>4. Cardinality(busy) = 0
    BY <1>2, <2>3
  <2>5. busy = {}
    BY <2>2, <2>4, FS_EmptySet
  <2> QED BY <1>1, <2>5
<1> HIDE DEF busy
<1>4. /\ \A i \in 1 .. n : i \in 1 .. Len(stack') /\ stack'[i] = TickedFrame(stack[i], tick')
      /\ \/ Len(stack') = n
         \/ Len(stack') = n + 1 /\ Found(stack'[n + 1], f, current')
  BY <1>1, TickedStackIs
<1>5. /\ tick' \in Tick /\ current' = CurrentAt(tick') /\ current' \in {0, 1}
      /\ f.now = tick' /\ f.pc = (IF tick' = 0 THEN "overflow" ELSE "current")
      /\ f.list = (IF tick' = 0 THEN 1 - CurrentAt(tick') ELSE CurrentAt(tick'))
  <2>1. tick' \in Tick /\ current' = CurrentAt(tick') /\ current' \in Delayed
    BY <1>1, TickIs
  <2>2. \A now : /\ TickHandler(now).now = now
                 /\ TickHandler(now).pc = (IF now = 0 THEN "overflow" ELSE "current")
                 /\ TickHandler(now).list
                       = (IF now = 0 THEN 1 - CurrentAt(now) ELSE CurrentAt(now))
    BY DEF TickHandler, TaskFrame
  <2> QED BY <2>1, <2>2 DEF Delayed
<1>6. \A i \in 1 .. n : ~InHandler(stack'[i])
  <2> SUFFICES ASSUME NEW i \in 1 .. n PROVE ~InHandler(stack'[i])
    OBVIOUS
  <2>1. stack[i] \in Frame /\ stack'[i] = TickedFrame(stack[i], tick')
    BY <1>1, <1>4
  <2>2. stack'[i].pc = stack[i].pc
    BY <2>1, TickedFrameIs
  <2> QED BY <1>3, <2>2 DEF InHandler
<1>7. ASSUME NEW g, Found(g, f, current')
      PROVE  AtWork(g, tick', current') /\ g.pc \notin Delaying
  BY <1>5, <1>7 DEF Found, AtWork, InHandler, Delaying
<1> HIDE DEF n, f
<1>8. \A i \in 1 .. Len(stack') : i \in 1 .. n \/ (i = n + 1 /\ Len(stack') = n + 1)
  BY <1>1, <1>4 DEF n
<1>9. \A i, j \in 1 .. Len(stack') : i < j => i \in 1 .. n
  BY <1>1, <1>8
<1>10. Over(stack', tick', current')
  BY <1>4, <1>6, <1>7, <1>8, <1>9 DEF Over
<1> QED BY <1>10 DEF OverInv

\* A handler goes on.
LEMMA OverHandler ==
    ASSUME TimerInv, OverInv, TickResume \/ TickLoop
    PROVE  OverInv'
<1> DEFINE s == stack
<1>1. stack # <<>> /\ InHandler(Top)
  BY DEF TickResume, TickLoop
<1>2. /\ s \in Seq(Frame) /\ Over(s, tick, current) /\ s # <<>> /\ Len(s) \in 1 .. Len(s)
      /\ Top = s[Len(s)] /\ ListInv(Scan)
  BY <1>1, StackIs DEF TimerInv, OverInv
<1>3. AtWork(Top, tick, current)
  BY <1>1, <1>2 DEF Over
<1>4. /\ UNCHANGED <<tick, current>>
      /\ \/ stack' = Front(s)
         \/ \E g \in Frame : /\ InHandler(g) /\ AtWork(g, tick, current)
                             /\ stack' = Append(Front(s), g)
  <2>1. CASE TickResume
    <3> DEFINE g == [Top EXCEPT !.task = NULL]
    <3>1. /\ g \in Frame /\ InHandler(g) /\ g.pc = Top.pc /\ g.list = Top.list
          /\ g.now = Top.now /\ stack' = Append(Front(s), g) /\ Resume(Top.task)
      BY <1>2, <2>1, TickResumeIs
    <3> HIDE DEF g
    <3>2. AtWork(g, tick, current)
      BY <1>3, <3>1 DEF AtWork
    <3> QED BY <3>1, <3>2 DEF Resume
  <2>2. CASE TickLoop
    <3>1. /\ UNCHANGED <<tick, current>>
          /\ \/ stack' = Front(s)
             \/ \E g : stack' = Append(Front(s), g) /\ Found(g, Top, current)
      BY <1>2, <2>2, TickLoopIs
    <3>2. ASSUME NEW g, Found(g, Top, current)
          PROVE  g \in Frame /\ InHandler(g) /\ AtWork(g, tick, current)
      BY <1>3, <3>2 DEF Found, AtWork
    <3> QED BY <3>1, <3>2
  <2> QED BY <2>1, <2>2
<1> HIDE DEF s
<1>5. ASSUME stack' = Front(s) PROVE Over(stack', tick, current)
  BY <1>2, <1>5, PoppedIs, OverPopped
<1>6. ASSUME NEW g \in Frame, InHandler(g), AtWork(g, tick, current),
             stack' = Append(Front(s), g)
      PROVE  Over(stack', tick, current)
  <2>1. g.pc \notin Delaying
    BY <1>6 DEF InHandler, Delaying
  <2> QED BY <1>2, <1>6, <2>1, ReplacedIs, OverReplaced
<1>7. Over(stack', tick, current)
  BY <1>4, <1>5, <1>6
<1> QED BY <1>4, <1>7 DEF OverInv

\* The steps of task_delay_now_until().
LEMMA DelaysAre ==
    ASSUME TimerInv, \/ Executes("reset") /\ DelayUntil(Top)
                     \/ TaskDelay
                     \/ ScanCompare
    PROVE  /\ stack # <<>> /\ Top.pc \in Delaying /\ DelayStep(Top)
           /\ \E asleep : Places(Top, Goes(Top, current), list, asleep)
<1>1. "scan" \in Scan /\ ListInv(Scan)
  BY DEF Scan, TimerInv
<1>2. CASE (Executes("reset") /\ DelayUntil(Top)) \/ TaskDelay
  <2>1. /\ stack # <<>> /\ Top.pc \in {"read", "reset"} /\ DelayUntil(Top)
    BY <1>2 DEF Executes, TaskDelay
  <2>2. Top \in Frame /\ Top.task \in Task /\ DTypes
    BY <2>1, StackIs DEF TimerInv, ListInv, FrameOK, InHandler
  <2>3. DelayList(Top.now, Top.wakeup) = Goes(Top, current)
    BY <2>1 DEF DelayList, Goes, overflow
  <2>4. Places(Top, Goes(Top, current), list, suspended \cup {Top.task})
    BY <2>1, <2>2, <2>3, DelayUntilPlaces
  <2>5. DelayStep(Top)
    BY <1>1, <2>1, DelayUntilIs
  <2> QED BY <2>1, <2>4, <2>5 DEF Delaying
<1>3. CASE ScanCompare
  <2>1. DelayStep(Top) /\ stack # <<>> /\ Top.pc = "scan"
    BY <1>1, <1>3, ScanCompareIs
  <2>2. Places(Top, Top.list, list, suspended) /\ Top.list = Goes(Top, current)
    BY <1>3, <2>1, ScanComparePlaces DEF Goes, TimerInv
  <2> QED BY <2>1, <2>2 DEF Delaying
<1> QED BY <1>2, <1>3

LEMMA OverInvNext ==
    ASSUME ~ResetInScan, MaxIsr <= 1, TimerInv, OverInv, [TimerNext]_allVars
    PROVE  OverInv'
<1>1. ASSUME NEW t \in Timers, TimerReset(t) \/ TimerStart(t) PROVE OverInv'
  BY <1>1, OverReset DEF TimerStart
<1>2. ASSUME NEW t \in Timers, TimerStop(t) PROVE OverInv'
  BY <1>2 DEF TimerStop, TaskSuspend, vars, OverInv
<1>3. ASSUME \/ Executes("reset") /\ DelayUntil(Top)
             \/ TaskDelay
             \/ ScanCompare
      PROVE  OverInv'
  <2>1. UNCHANGED <<tick, current>>
    BY <1>3 DEF DelayUntil, TaskDelay, ScanCompare
  <2> QED BY <1>3, <2>1, DelaysAre, OverDelays
<1>4. ASSUME NEW t \in Task, CallTask(t) PROVE OverInv'
  <2>1. /\ stack' = Append(stack, TaskFrame(t)) /\ UNCHANGED <<tick, current>>
    BY <1>4 DEF CallTask, TaskStart
  <2>2. /\ TaskFrame(t) \in Frame /\ ~InHandler(TaskFrame(t))
        /\ TaskFrame(t).pc \notin Delaying
    BY FrameTypes DEF InHandler, Delaying
  <2> QED BY <2>1, <2>2, OverFrames
<1>5. CASE TimerNextState
  <2>1. CASE /\ UNCHANGED <<tick, current, suspended, list, delay_until, sleep>>
             /\ \/ stack' = Front(stack)
                \/ \E g \in Frame : g.pc = "stop" /\ stack' = Append(Front(stack), g)
    BY <1>5, <2>1, NextStateIs, OverFrames DEF TimerInv, InHandler, Delaying
  <2>2. ASSUME NEW t \in Timers, Leaves(t), ResetFrame(t, tick) \in Frame,
               stack' = Append(Front(stack), ResetFrame(t, tick))
        PROVE  OverInv'
    <3>1. tick \in Tick
      BY DEF TimerInv, ListInv, DTypes
    <3>2. ~InHandler(ResetFrame(t, tick))
      BY <3>1, ResetIs
    <3> QED BY <1>5, <2>2, <3>2, NextStateIs, OverAsks DEF TimerInv, Leaves
  <2> QED BY <1>5, <2>1, <2>2, NextStateIs DEF TimerInv
<1>6. CASE OneShotStop
  BY <1>6, OverFrames DEF OneShotStop, Executes
<1>7. CASE OtherTask
  <2>1. ASSUME NEW t \in Task, TaskResume(t) PROVE OverInv'
    BY <2>1 DEF TaskResume, Resume, OverInv
  <2>2. CASE TaskReturn
    BY <2>2, OverFrames DEF TaskReturn, Executes
  <2>3. ASSUME NEW d \in Delays, ReadTick(d) PROVE OverInv'
    <3> DEFINE g == [Top EXCEPT !.pc = "read", !.now = tick,
                                !.wakeup = (tick + d) % TickMod,
                                !.left = d, !.wrapped = FALSE]
    <3>1. /\ stack # <<>> /\ Top.pc = "run" /\ stack' = Append(Front(stack), g)
          /\ g \in Frame /\ g.pc = "read" /\ UNCHANGED <<tick, current>>
      BY <2>3, ReadTickIs DEF TimerInv
    <3> HIDE DEF g
    <3> QED BY <3>1, OverAsks DEF InHandler
  <2> QED BY <1>3, <1>7, <2>1, <2>2, <2>3 DEF OtherTask
<1>8. CASE Time
  BY <1>3, <1>8, OverTick, OverHandler DEF Time
<1>9. CASE UNCHANGED allVars
  BY <1>9 DEF allVars, vars, OverInv
<1> QED BY <1>1, <1>2, <1>3, <1>4, <1>5, <1>6, <1>7, <1>8, <1>9 DEF TimerNext, TimerDelay

-----------------------------------------------------------------------------
(* TimeInv and LateInv of DelayProofs, of the timers.                        *)

\* A timer is reset: it leaves its list, and a frame asks for its delay.
LEMMA ResetAsks ==
    ASSUME TimerInv, NEW t \in Timers,
           \/ stack' = Append(stack, ResetFrame(t, tick))
           \/ stack # <<>> /\ stack' = Append(Front(stack), ResetFrame(t, tick))
    PROVE  \A i \in 1 .. Len(stack') :
              \/ \E j \in 1 .. Len(stack) : stack'[i] = stack[j]
              \/ /\ ~InHandler(stack'[i]) /\ FrameFits(stack'[i], tick, current)
                 /\ period[t] # 0 => FrameLate(stack'[i], tick, current)
<1> DEFINE g == ResetFrame(t, tick)
<1>1. ListInv(Scan) /\ stack \in Seq(Frame) /\ tick \in Tick
  BY DEF TimerInv, ListInv, DTypes
<1>2. g \in Frame /\ ~InHandler(g) /\ g.pc # "scan" /\ Asks(g, period[t])
  BY <1>1, ResetIs DEF Asks
<1>3. FrameFits(g, tick, current) /\ (period[t] # 0 => FrameLate(g, tick, current))
  BY <1>1, <1>2, AskedFits, TimersAreTasks
<1> HIDE DEF g
<1>4. CASE stack' = Append(stack, g)
  BY <1>1, <1>2, <1>3, <1>4, PushedIs DEF Pushed
<1>5. CASE stack # <<>> /\ stack' = Append(Front(stack), g)
  BY <1>1, <1>2, <1>3, <1>5, FrontIs
<1> QED BY <1>4, <1>5 DEF g

LEMMA TimersTimeNext ==
    ASSUME TimerInv, OverInv, TimeInv, [TimerNext]_allVars
    PROVE  TimeInv'
<1>1. ListInv(Scan) /\ "run" \notin Scan /\ "read" \notin Scan
  BY DEF TimerInv, Scan
<1>2. ASSUME UNCHANGED stack
      PROVE  \A i \in 1 .. Len(stack') : \E j \in 1 .. Len(stack) : stack'[i] = stack[j]
  BY <1>2
<1>3. ASSUME NEW t \in Timers, Leaves(t),
             \/ stack' = Append(stack, ResetFrame(t, tick))
             \/ stack # <<>> /\ stack' = Append(Front(stack), ResetFrame(t, tick))
      PROVE  TimeInv'
  <2>1. \A i \in 1 .. Len(stack') :
           \/ \E j \in 1 .. Len(stack) : stack'[i] = stack[j]
           \/ /\ FrameFits(stack'[i], tick, current)
              /\ HandlerFits(stack'[i], list', delay_until, sleep')
    BY <1>3, ResetAsks DEF HandlerFits
  <2> QED BY <1>1, <1>3, <2>1, TimersAreTasks, TimeLeaves
<1>4. ASSUME NEW t \in Timers, TimerReset(t) \/ TimerStart(t) PROVE TimeInv'
  BY <1>3, <1>4 DEF TimerStart, TimerReset, Resume, Leaves
<1>5. ASSUME NEW t \in Timers, TimerStop(t) PROVE TimeInv'
  <2>1. CASE TaskSuspend(t)
    BY <1>1, <1>2, <2>1, TimersAreTasks, TimeLeaves DEF TaskSuspend, Leaves
  <2>2. CASE UNCHANGED vars
    BY <2>2 DEF vars, TimeInv
  <2> QED BY <1>5, <2>1, <2>2 DEF TimerStop
<1>6. ASSUME \/ Executes("reset") /\ DelayUntil(Top)
             \/ TaskDelay
             \/ ScanCompare
      PROVE  TimeInv'
  <2>1. /\ stack # <<>> /\ Top.pc \in Delaying /\ DelayStep(Top)
    BY <1>6, DelaysAre
  <2>2. FrameFits(Top, tick, current)
    BY <1>1, <2>1, StackIs DEF TimeInv
  <2>3. \A i \in 1 .. Len(stack) : InHandler(stack[i]) => Passes(stack[i], Top, current)
    BY <2>1, TopPasses
  <2> QED BY <1>1, <2>1, <2>2, <2>3, TimeInsert
<1>7. ASSUME NEW t \in Task, CallTask(t) PROVE TimeInv'
  BY <1>1, <1>7, TimeStart DEF CallTask
<1>8. ASSUME UNCHANGED <<tick, current, suspended, list, delay_until, sleep>>,
             stack # <<>>,
             \/ stack' = Front(stack)
             \/ \E g \in Frame : g.pc = "stop" /\ stack' = Append(Front(stack), g)
      PROVE  TimeInv'
  <2>1. \A i \in 1 .. Len(stack') :
           \/ \E j \in 1 .. Len(stack) : stack'[i] = stack[j]
           \/ stack'[i].pc = "stop"
    <3>1. CASE stack' = Front(stack)
      BY <1>1, <1>8, <3>1, FrontIs
    <3>2. ASSUME NEW g \in Frame, g.pc = "stop", stack' = Append(Front(stack), g)
          PROVE  \A i \in 1 .. Len(stack') :
                    \/ \E j \in 1 .. Len(stack) : stack'[i] = stack[j]
                    \/ stack'[i].pc = "stop"
      BY <1>1, <1>8, <3>2, FrontIs
    <3> QED BY <1>8, <3>1, <3>2
  <2>2. ASSUME NEW f, f.pc = "stop"
        PROVE  FrameFits(f, tick, current) /\ HandlerFits(f, list, delay_until, sleep)
    BY <2>2 DEF FrameFits, Delaying, HandlerFits, InHandler
  <2> QED BY <1>1, <1>8, <2>1, <2>2, TimeFrames
<1>9. CASE TimerNextState
  BY <1>3, <1>8, <1>9, NextStateIs DEF TimerInv
<1>10. CASE OneShotStop
  <2>1. stack # <<>> /\ Top.pc = "stop" /\ Leaves(Top.task) /\ stack' = Front(stack)
    BY <1>10 DEF OneShotStop, Executes, Leaves
  <2>2. Top.task \in Task
    BY <1>1, <2>1, StackIs DEF FrameOK, InHandler
  <2>3. \A i \in 1 .. Len(stack') : \E j \in 1 .. Len(stack) : stack'[i] = stack[j]
    BY <1>1, <2>1, FrontIs
  <2> QED BY <1>1, <2>1, <2>2, <2>3, TimeLeaves
<1>11. CASE OtherTask
  <2>1. ASSUME NEW t \in Task, TaskResume(t) PROVE TimeInv'
    BY <1>1, <1>2, <2>1, TimeLeaves DEF TaskResume, Resume, Leaves
  <2> QED BY <1>1, <1>6, <1>11, <2>1, TimeReturn, TimeReadTick DEF OtherTask
<1>12. CASE Time
  BY <1>1, <1>6, <1>12, TimeTick, TimeTickResume, TimeTickLoop DEF Time
<1>13. CASE UNCHANGED allVars
  BY <1>13 DEF allVars, vars, TimeInv
<1> QED BY <1>4, <1>5, <1>6, <1>7, <1>9, <1>10, <1>11, <1>12, <1>13 DEF TimerNext, TimerDelay

\* The handlers are where they were, or one level up.
LEMMA TimersHandlersStay ==
    ASSUME TimerInv,
           \/ stack' = stack
           \/ \E g \in Frame : stack' = Append(stack, g)
           \/ stack # <<>> /\ ~InHandler(Top) /\ stack' = Front(stack)
           \/ /\ stack # <<>> /\ ~InHandler(Top)
              /\ \E g \in Frame : ~InHandler(g) /\ stack' = Append(Front(stack), g)
    PROVE  SameHandlers
<1>1. ListInv(Scan) /\ stack \in Seq(Frame)
  BY DEF TimerInv, ListInv, DTypes
<1>2. CASE stack' = stack
  BY <1>2 DEF SameHandlers, SameHandler
<1>3. ASSUME NEW g \in Frame, stack' = Append(stack, g) PROVE SameHandlers
  <2>1. \A j \in 1 .. Len(stack) : j \in 1 .. Len(stack') /\ stack'[j] = stack[j]
    BY <1>1, <1>3
  <2> QED BY <2>1 DEF SameHandlers, SameHandler
<1>4. CASE stack # <<>> /\ ~InHandler(Top) /\ stack' = Front(stack)
  BY <1>1, <1>4, HandlersKept
<1>5. ASSUME stack # <<>>, ~InHandler(Top),
             NEW g \in Frame, ~InHandler(g), stack' = Append(Front(stack), g)
      PROVE  SameHandlers
  BY <1>1, <1>5, HandlersKept
<1> QED BY <1>2, <1>3, <1>4, <1>5

LEMMA TimersLateNext ==
    ASSUME 0 \notin Delays, \A t \in Timers : period[t] # 0, ~ResetInScan,
           TimerInv, LateInv, [TimerNext]_allVars
    PROVE  LateInv'
<1>1. ListInv(Scan) /\ "run" \notin Scan /\ "read" \notin Scan
  BY DEF TimerInv, Scan
<1>2. ASSUME UNCHANGED stack
      PROVE  /\ \A i \in 1 .. Len(stack') : \E j \in 1 .. Len(stack) : stack'[i] = stack[j]
             /\ SameHandlers
  BY <1>2, TimersHandlersStay
<1>3. ASSUME NEW t \in Timers, Leaves(t),
             \/ stack' = Append(stack, ResetFrame(t, tick))
             \/ /\ stack # <<>> /\ Top.pc = "run"
                /\ stack' = Append(Front(stack), ResetFrame(t, tick))
      PROVE  LateInv'
  <2>1. \A i \in 1 .. Len(stack') :
           \/ \E j \in 1 .. Len(stack) : stack'[i] = stack[j]
           \/ FrameLate(stack'[i], tick, current)
    BY <1>3, ResetAsks
  <2>2. tick \in Tick
    BY <1>1 DEF ListInv, DTypes
  <2>3. ResetFrame(t, tick) \in Frame /\ ~InHandler(ResetFrame(t, tick))
    BY <2>2, ResetIs
  <2>4. SameHandlers
    BY <1>3, <2>3, TimersHandlersStay DEF InHandler
  <2> QED BY <1>1, <1>3, <2>1, <2>4, TimersAreTasks, LateLeaves
<1>4. ASSUME NEW t \in Timers, TimerReset(t) \/ TimerStart(t) PROVE LateInv'
  BY <1>3, <1>4 DEF TimerStart, TimerReset, Resume, Leaves
<1>5. ASSUME NEW t \in Timers, TimerStop(t) PROVE LateInv'
  <2>1. CASE TaskSuspend(t)
    BY <1>1, <1>2, <2>1, TimersAreTasks, LateLeaves DEF TaskSuspend, Leaves
  <2>2. CASE UNCHANGED vars
    BY <2>2 DEF vars, LateInv, SleepLate, SleepDue
  <2> QED BY <1>5, <2>1, <2>2 DEF TimerStop
<1>6. ASSUME \/ Executes("reset") /\ DelayUntil(Top)
             \/ TaskDelay
             \/ ScanCompare
      PROVE  LateInv'
  <2>1. /\ stack # <<>> /\ Top.pc \in Delaying /\ DelayStep(Top)
        /\ \E asleep : Places(Top, Goes(Top, current), list, asleep)
    BY <1>6, DelaysAre
  <2>2. FrameLate(Top, tick, current) /\ ~InHandler(Top) /\ Top.task \in Task
    BY <1>1, <2>1, StackIs DEF LateInv, Delaying, InHandler, FrameOK
  <2>3. SameHandlers
    <3>1. TaskFrame(Top.task) \in Frame /\ ~InHandler(TaskFrame(Top.task))
      BY <2>2, FrameTypes DEF InHandler
    <3>2. \A g : ScanOf(g, Top, Goes(Top, current)) => ~InHandler(g)
      BY DEF ScanOf, InHandler
    <3> QED BY <2>1, <2>2, <3>1, <3>2, TimersHandlersStay DEF Places, DelayReturn, Replace
  <2> QED BY <1>1, <2>1, <2>2, <2>3, LateInsert
<1>7. ASSUME NEW t \in Task, CallTask(t) PROVE LateInv'
  BY <1>1, <1>7, LateStart DEF CallTask
<1>8. ASSUME UNCHANGED <<tick, current, suspended, list, delay_until, sleep>>,
             stack # <<>>, Top.pc = "run",
             \/ stack' = Front(stack)
             \/ \E g \in Frame : g.pc = "stop" /\ stack' = Append(Front(stack), g)
      PROVE  LateInv'
  <2>1. \A i \in 1 .. Len(stack') :
           \/ \E j \in 1 .. Len(stack) : stack'[i] = stack[j]
           \/ stack'[i].pc = "stop"
    <3>1. CASE stack' = Front(stack)
      BY <1>1, <1>8, <3>1, FrontIs
    <3>2. ASSUME NEW g \in Frame, g.pc = "stop", stack' = Append(Front(stack), g)
          PROVE  \A i \in 1 .. Len(stack') :
                    \/ \E j \in 1 .. Len(stack) : stack'[i] = stack[j]
                    \/ stack'[i].pc = "stop"
      BY <1>1, <1>8, <3>2, FrontIs
    <3> QED BY <1>8, <3>1, <3>2
  <2>2. \A f : f.pc = "stop" => FrameLate(f, tick, current) /\ ~InHandler(f)
    BY DEF FrameLate, Delaying, InHandler
  <2>3. SameHandlers
    BY <1>8, <2>2, TimersHandlersStay DEF InHandler
  <2> QED BY <1>1, <1>8, <2>1, <2>2, <2>3, LateFrames
<1>9. CASE TimerNextState
  BY <1>3, <1>8, <1>9, NextStateIs DEF TimerInv
<1>10. CASE OneShotStop
  <2>1. stack # <<>> /\ Top.pc = "stop" /\ Leaves(Top.task) /\ stack' = Front(stack)
    BY <1>10 DEF OneShotStop, Executes, Leaves
  <2>2. Top.task \in Task
    BY <1>1, <2>1, StackIs DEF FrameOK, InHandler
  <2>3. \A i \in 1 .. Len(stack') : \E j \in 1 .. Len(stack) : stack'[i] = stack[j]
    BY <1>1, <2>1, FrontIs
  <2>4. SameHandlers
    BY <2>1, TimersHandlersStay DEF InHandler
  <2> QED BY <1>1, <2>1, <2>2, <2>3, <2>4, LateLeaves
<1>11. CASE OtherTask
  <2>1. ASSUME NEW t \in Task, TaskResume(t) PROVE LateInv'
    BY <1>1, <1>2, <2>1, LateLeaves DEF TaskResume, Resume, Leaves
  <2>2. ASSUME NEW d \in Delays, ReadTick(d) PROVE LateInv'
    BY <1>1, <2>2, LateReadTick
  <2> QED BY <1>1, <1>6, <1>11, <2>1, <2>2, LateReturn DEF OtherTask
<1>12. CASE Time
  BY <1>1, <1>6, <1>12, LateTick, LateTickResume, LateTickLoop DEF Time
<1>13. CASE UNCHANGED allVars
  BY <1>13 DEF allVars, vars, LateInv, SleepLate, SleepDue
<1> QED BY <1>4, <1>5, <1>6, <1>7, <1>9, <1>10, <1>11, <1>12, <1>13 DEF TimerNext, TimerDelay

LEMMA TimersTimeInit ==
    ASSUME TimerInit
    PROVE  /\ OverInv /\ TimeInv
           /\ (\A t \in Timers : period[t] # 0) => LateInv
<1>1. TimerInv /\ ListInv(Scan)
  BY TimerInvInit DEF TimerInv
<1>2. \A l \in Delayed : Len(list[l]) = 0
  BY DEF TimerInit
<1>3. ASSUME NEW i \in 1 .. Len(stack)
      PROVE  /\ ~InHandler(stack[i]) /\ FrameFits(stack[i], tick, current)
             /\ (\A t \in Timers : period[t] # 0) => FrameLate(stack[i], tick, current)
  <2> DEFINE n == Cardinality(AutoReset)
             a == SetToSeq(AutoReset)
  <2>1. n \in Nat /\ a \in [1 .. n -> AutoReset]
    BY AutoTimers
  <2>2. /\ tick = 0 /\ tick \in Tick
        /\ stack = [k \in 1 .. n |-> ResetFrame(a[k], 0)]
    BY TickAssumption DEF TimerInit, Tick
  <2> HIDE DEF n, a
  <2>3. i \in 1 .. n
    BY <1>1, <2>1, <2>2 DEF ListInv, DTypes
  <2>4. PICK t \in Timers : stack[i] = ResetFrame(t, tick)
    BY <2>1, <2>2, <2>3, TimersAreTasks
  <2>5. ~InHandler(stack[i]) /\ stack[i].pc # "scan" /\ Asks(stack[i], period[t])
    BY <2>2, <2>4, ResetIs DEF Asks
  <2> QED BY <1>1, <2>5, AskedFits, TimersAreTasks
<1>4. OverInv
  BY <1>3 DEF OverInv, Over
<1>5. TimeInv
  BY <1>2, <1>3 DEF TimeInv, HandlerFits, Contains
<1>6. (\A t \in Timers : period[t] # 0) => LateInv
  BY <1>1, <1>2, <1>3 DEF LateInv, SleepLate, SleepDue, Contains, ListInv, DTypes
<1> QED BY <1>4, <1>5, <1>6

\* No tick handler runs a timer, or resumes a task, before its time is over
\* (lines 368, 378-385), if tick handlers do not nest and as long as no handler
\* resets a timer in the middle of a scan, which leaves the lists out of order.
THEOREM TimersAreNotEarly ==
    ASSUME ~ResetInScan, MaxIsr <= 1
    PROVE  TimerSpec => NeverEarly
<1>1. TimerInit => OverInv /\ TimeInv
  BY TimersTimeInit
<1>2. TimerInv /\ OverInv /\ TimeInv /\ [TimerNext]_allVars => OverInv' /\ TimeInv'
  BY OverInvNext, TimersTimeNext
<1>3. TimerInv /\ TimeInv
         => [\A t \in Sleeping : sleep[t].left > 0 => ~(TickResume /\ Top.task = t)]_vars
  BY NobodyEarly DEF TimerInv
<1> QED BY <1>1, <1>2, <1>3, TimerInvariantHolds, PTL DEF TimerSpec, NeverEarly

\* A timer does not sleep on when its period is over (line 619), unless the
\* tick wrapped while it was being delayed, as long as no handler resets a timer
\* in the middle of a scan, which leaves the lists out of order.
THEOREM TimersAreNotOverdue ==
    ASSUME ~ResetInScan, 0 \notin Delays, \A t \in Timers : period[t] # 0
    PROVE  TimerSpec => []NeverOverdueUnlessWrapped
<1>1. TimerInit => LateInv
  BY TimersTimeInit
<1>2. TimerInv /\ LateInv /\ [TimerNext]_allVars => LateInv'
  BY TimersLateNext
<1>3. TimerInv /\ LateInv => NeverOverdueUnlessWrapped
  BY NobodyOverdue DEF TimerInv
<1> QED BY <1>1, <1>2, <1>3, TimerInvariantHolds, PTL DEF TimerSpec

=============================================================================
