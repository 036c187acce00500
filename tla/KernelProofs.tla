---------------------------- MODULE KernelProofs ----------------------------
(***************************************************************************)
(* Proofs about Kernel, for any number of tasks, priorities, nested        *)
(* interrupts and locks: first what the lists and the stack keep, then     *)
(* what the scheduler promises on top of that.  A cooperative kernel runs  *)
(* one task at a time, a preemptive one never runs a task while one of     *)
(* higher priority is ready and nothing is locked, and both implement      *)
(* PriorityScheduler.                                                      *)
(***************************************************************************)
EXTENDS Kernel, TaskListProofs, WellFoundedInduction

-----------------------------------------------------------------------------
(* Lists.                                                                    *)

\* EachTaskOnOneList and OnList of any lists ls.
OneList(ls, prio) ==
    \A k, l \in ListId :
        \A i \in 1 .. Len(ls[k]), j \in 1 .. Len(ls[l]) :
            /\ ls[k][i] = ls[l][j] => k = l /\ i = j
            /\ k \in Priority => prio[ls[k][i]] = k

Holds(ls, l, u) == \E i \in 1 .. Len(ls[l]) : ls[l][i] = u

LEMMA OneListInjective ==
    ASSUME NEW ls, NEW prio, OneList(ls, prio), NEW l \in ListId
    PROVE  Injective(ls[l])
BY DEF OneList, Injective

Moves(new, ls, t, l) == new = LastOn(ls, t, l) \/ new = FirstOn(ls, t, l)
AgreeBut(prio, old, t) == \A u \in Task : u # t => prio[u] = old[u]

\* list_remove and list_insert_last or _first: t moves to l, the others stay;
\* its priority may have changed from old to prio.
LEMMA MoveKeepsLists ==
    ASSUME NEW ls, NEW old, NEW new, NEW prio, NEW t \in Task, NEW l \in ListId,
           ls \in [ListId -> Seq(Task)],
           OneList(ls, old),
           AgreeBut(prio, old, t),
           l \in Priority => prio[t] = l,
           Moves(new, ls, t, l)
    PROVE  /\ new \in [ListId -> Seq(Task)]
           /\ OneList(new, prio)
           /\ \A u \in Task, k \in ListId :
                 Holds(new, k, u) <=> IF u = t THEN k = l ELSE Holds(ls, k, u)
<1>1. ASSUME NEW k \in ListId
      PROVE  /\ Without(ls[k], t) \in Seq(Task)
             /\ Injective(Without(ls[k], t))
             /\ \A u \in Task :
                   (\E i \in 1 .. Len(Without(ls[k], t)) :
                       Without(ls[k], t)[i] = u)
                      <=> u # t /\ Holds(ls, k, u)
  <2>1. ls[k] \in Seq(Task) /\ Injective(ls[k])
    BY OneListInjective
  <2> DEFINE q == ls[k]
  <2>2. \A u \in Task : Holds(ls, k, u) <=> \E i \in 1 .. Len(q) : q[i] = u
    BY DEF Holds
  <2>3. q \in Seq(Task) /\ Injective(q)
    BY <2>1
  <2> HIDE DEF q
  <2>4. /\ Without(q, t) \in Seq(Task)
        /\ Injective(Without(q, t))
        /\ \A u \in Task :
              (\E i \in 1 .. Len(Without(q, t)) : Without(q, t)[i] = u)
                 <=> u # t /\ \E i \in 1 .. Len(q) : q[i] = u
    BY <2>3, WithoutIsRemoval
  <2> QED BY <2>2, <2>4 DEF q
<1>2. \A k \in ListId :
         new[k] = IF k # l THEN Without(ls[k], t)
                  ELSE IF new = LastOn(ls, t, l) THEN Append(Without(ls[k], t), t)
                  ELSE <<t>> \o Without(ls[k], t)
  BY DEF Moves, LastOn, FirstOn
<1>3. new = [k \in ListId |-> new[k]]
  BY DEF Moves, LastOn, FirstOn
<1>4. ASSUME NEW k \in ListId
      PROVE  /\ new[k] \in Seq(Task)
             /\ Injective(new[k])
             /\ \A u \in Task :
                   (\E i \in 1 .. Len(new[k]) : new[k][i] = u)
                      <=> IF u = t THEN k = l ELSE Holds(ls, k, u)
  <2> DEFINE w == Without(ls[k], t)
  <2>1. /\ w \in Seq(Task) /\ Injective(w)
        /\ \A u \in Task : (\E i \in 1 .. Len(w) : w[i] = u)
                              <=> u # t /\ Holds(ls, k, u)
    BY <1>1
  <2>2. new[k] = IF k # l THEN w ELSE IF new = LastOn(ls, t, l) THEN Append(w, t)
                 ELSE <<t>> \o w
    BY <1>2
  <2> HIDE DEF w
  <2>3. ~ \E i \in 1 .. Len(w) : w[i] = t
    BY <2>1
  <2>4. CASE k # l
    BY <2>1, <2>2, <2>4
  <2>5. CASE k = l /\ new = LastOn(ls, t, l)
    <3>1. new[k] = Append(w, t)
      BY <2>2, <2>5
    <3> QED BY <2>1, <2>3, <2>5, <3>1, AppendAdds
  <2>6. CASE k = l /\ new # LastOn(ls, t, l)
    <3>1. new[k] = <<t>> \o w
      BY <2>2, <2>6
    <3> QED BY <2>1, <2>3, <2>6, <3>1, PrependAdds
  <2> QED BY <2>4, <2>5, <2>6
<1>5. new \in [ListId -> Seq(Task)]
  BY <1>3, <1>4
<1>6. \A u \in Task, k \in ListId :
         Holds(new, k, u) <=> IF u = t THEN k = l ELSE Holds(ls, k, u)
  BY <1>4 DEF Holds
<1>7. OneList(new, prio)
  <2> SUFFICES ASSUME NEW k \in ListId, NEW m \in ListId,
                      NEW i \in 1 .. Len(new[k]), NEW j \in 1 .. Len(new[m])
               PROVE  /\ new[k][i] = new[m][j] => k = m /\ i = j
                      /\ k \in Priority => prio[new[k][i]] = k
    BY DEF OneList
  <2> DEFINE u == new[k][i]
  <2>1. u \in Task /\ Holds(new, k, u) /\ new[m][j] \in Task
    BY <1>5 DEF Holds
  <2>2. IF u = t THEN k = l ELSE Holds(ls, k, u)
    BY <1>6, <2>1
  <2>3. k \in Priority => prio[u] = k
    BY <2>2 DEF Holds, OneList, AgreeBut
  <2>4. ASSUME u = new[m][j]
        PROVE  k = m /\ i = j
    <3>1. Holds(new, m, u)
      BY <2>4 DEF Holds
    <3>2. IF u = t THEN m = l ELSE Holds(ls, m, u)
      BY <1>6, <2>1, <3>1
    <3>3. k = m
      BY <2>2, <3>2 DEF Holds, OneList
    <3>4. Injective(new[k])
      BY <1>4
    <3> QED BY <2>4, <3>3, <3>4 DEF Injective
  <2> QED BY <2>3, <2>4
<1> QED BY <1>5, <1>6, <1>7

-----------------------------------------------------------------------------
(* The call stack.  Its invariant is stated of any stack s, so that the      *)
(* lemmas about pushing, popping and moving on can be chained: a dispatch is *)
(* a move and a push, a return with a next task is a pop and a push.         *)

\* What is true of a frame by itself.
FrameOK(f) ==
    /\ f.kind = "task" => f.task \in Task /\ f.base = 0
    /\ f.kind \in {"init", "main"}
          => f.task = NULL /\ f.saved = NULL /\ f.base = 0
    /\ f.pc \in {"create", "resume"} => f.arg \in Task
    /\ f.pc \in {"create", "resume", "unlock"}
          => f.locks > LocksOfFrame(f.kind)
    /\ f.pc = "run" => f.locks >= LocksOfFrame(f.kind)
    /\ f.pc = "exit" => f.kind = "isr" /\ f.locks = 1
    /\ f.pc = "sched" => f.kind # "init" /\ f.locks = 0 /\ f.base = 0
    /\ f.pc = "iret" => f.kind = "isr" /\ f.locks = 0

\* Main is at the bottom, handlers and tasks are above it.
Shape(s) ==
    \A i \in 1 .. Len(s) :
        /\ FrameOK(s[i])
        /\ s[i].kind \in {"init", "main"} <=> i = 1

\* The depths that frames found grow by the locks of the frames below.
Grows(s) ==
    \A i, j \in 1 .. Len(s) :
        i < j => s[j].base >= s[i].base + s[i].locks

Balanced(s, depth) ==
    /\ depth = s[Len(s)].base + s[Len(s)].locks
    /\ \A i \in 2 .. Len(s) : s[i].base = s[i - 1].base + s[i - 1].locks

SavedOK(s, cur) ==
    /\ cur = CurrentTaskOf(s[Len(s)])
    /\ \A i \in 2 .. Len(s) : s[i].saved = CurrentTaskOf(s[i - 1])

Unlocked(f) == f.base = 0 /\ f.locks = 0

\* When nothing is locked up to frame j, the task that frame j has for
\* current_task is one of those up to j, and none of them outranks it.
Dominates(s, prio) ==
    \A i, j \in 1 .. Len(s) :
        i <= j /\ s[i].kind = "task" /\ Unlocked(s[j])
           => \E k \in 1 .. j : /\ s[k].kind = "task"
                                /\ s[k].task = CurrentTaskOf(s[j])
                                /\ prio[s[i].task] <= prio[s[k].task]

Nesting(s, prio) ==
    \A i, j \in 1 .. Len(s) :
        i < j /\ s[i].kind = "task" /\ s[j].kind = "task"
           => prio[s[i].task] < prio[s[j].task]

OnStack(s, run) ==
    \A t \in Task :
        t \in run <=> \E i \in 1 .. Len(s) : s[i].kind = "task" /\ s[i].task = t

StackOK(s, depth, cur, prio, run) ==
    /\ s \in Seq(Frame) /\ s # <<>>
    /\ Shape(s)
    /\ Grows(s)
    /\ Balanced(s, depth)
    /\ SavedOK(s, cur)
    /\ Dominates(s, prio)
    /\ Nesting(s, prio)
    /\ OnStack(s, run)

\* The inductive invariant.
IInv ==
    /\ TypeOK
    /\ EachTaskOnOneList
    /\ running \subseteq Created
    /\ StackOK(stack, scheduler_depth, current_task, priority, running)

\* Interrupts and scheduler calls nest: a new frame f finds the depth and the
\* current_task of the frame below, and a task has to outrank that one.
LEMMA PushKeepsStack ==
    ASSUME NEW s, NEW depth, NEW cur, NEW prio \in [Task -> Priority],
           NEW run \in SUBSET Task,
           StackOK(s, depth, cur, prio, run),
           NEW f \in Frame, FrameOK(f), f.kind \in {"task", "isr"},
           f.base = depth, f.saved = cur,
           f.kind = "task" =>
              /\ f.locks = 0 /\ f.task \notin run
              /\ cur # NULL => prio[f.task] > prio[cur],
           f.kind = "isr" => f.locks > 0
    PROVE  StackOK(Push(s, f), depth + f.locks, CurrentTaskOf(f), prio,
                   IF f.kind = "task" THEN run \cup {f.task} ELSE run)
<1> DEFINE r == Push(s, f)
<1> DEFINE n == Len(s)
<1>1. s \in Seq(Frame) /\ n \in Nat /\ n >= 1
  BY DEF StackOK
<1>2. /\ r \in Seq(Frame) /\ r # <<>> /\ Len(r) = n + 1
      /\ r[n + 1] = f
      /\ \A i \in 1 .. n : r[i] = s[i]
  BY <1>1 DEF Push
<1>3. \A i \in 1 .. Len(r) : \/ i \in 1 .. n /\ r[i] = s[i]
                             \/ i = n + 1 /\ r[i] = f
  BY <1>1, <1>2
<1>4. \A i \in 1 .. n : s[i] \in Frame
  BY <1>1
<1> HIDE DEF r
<1>5. Shape(r)
  BY <1>1, <1>2, <1>3 DEF StackOK, Shape
<1>6. \A i \in 1 .. n : depth >= s[i].base + s[i].locks
  <2> SUFFICES ASSUME NEW i \in 1 .. n
               PROVE  depth >= s[i].base + s[i].locks
    OBVIOUS
  <2>1. /\ s[i].base \in Nat /\ s[i].locks \in Nat
        /\ s[n].base \in Nat /\ s[n].locks \in Nat
    BY <1>1, <1>4 DEF Frame
  <2>2. depth = s[n].base + s[n].locks
    BY DEF StackOK, Balanced
  <2>3. i < n => s[n].base >= s[i].base + s[i].locks
    BY <1>1 DEF StackOK, Grows
  <2> QED BY <1>1, <2>1, <2>2, <2>3
<1>7. Grows(r)
  BY <1>1, <1>2, <1>3, <1>6 DEF StackOK, Grows
<1>8. Balanced(r, depth + f.locks)
  <2>1. \A i \in 2 .. Len(r) : r[i].base = r[i - 1].base + r[i - 1].locks
    <3> SUFFICES ASSUME NEW i \in 2 .. Len(r)
                 PROVE  r[i].base = r[i - 1].base + r[i - 1].locks
      OBVIOUS
    <3>1. i - 1 \in 1 .. n /\ r[i - 1] = s[i - 1]
      BY <1>1, <1>2
    <3>2. CASE i = n + 1
      BY <1>1, <1>2, <3>1, <3>2 DEF StackOK, Balanced
    <3>3. CASE i # n + 1
      BY <1>1, <1>2, <3>1, <3>3 DEF StackOK, Balanced
    <3> QED BY <3>2, <3>3
  <2> QED BY <1>2, <2>1 DEF Balanced
<1>9. SavedOK(r, CurrentTaskOf(f))
  <2>1. \A i \in 2 .. Len(r) : r[i].saved = CurrentTaskOf(r[i - 1])
    <3> SUFFICES ASSUME NEW i \in 2 .. Len(r)
                 PROVE  r[i].saved = CurrentTaskOf(r[i - 1])
      OBVIOUS
    <3>1. i - 1 \in 1 .. n /\ r[i - 1] = s[i - 1]
      BY <1>1, <1>2
    <3>2. CASE i = n + 1
      BY <1>1, <1>2, <3>1, <3>2 DEF StackOK, SavedOK
    <3>3. CASE i # n + 1
      BY <1>1, <1>2, <3>1, <3>3 DEF StackOK, SavedOK
    <3> QED BY <3>2, <3>3
  <2> QED BY <1>2, <2>1 DEF SavedOK
<1>10. ASSUME f.kind = "task", NEW i \in 1 .. n, s[i].kind = "task"
       PROVE  prio[s[i].task] < prio[f.task]
  <2>1. cur = CurrentTaskOf(s[n]) /\ depth = s[n].base + s[n].locks
    BY DEF StackOK, SavedOK, Balanced
  <2>2. s[n].base \in Nat /\ s[n].locks \in Nat /\ depth = 0
    BY <1>1, <1>4, <1>10 DEF FrameOK, Frame
  <2>3. Unlocked(s[n])
    BY <2>1, <2>2 DEF Unlocked
  <2>4. PICK k \in 1 .. n : /\ s[k].kind = "task" /\ s[k].task = cur
                             /\ prio[s[i].task] <= prio[s[k].task]
    BY <1>1, <1>10, <2>1, <2>3 DEF StackOK, Dominates
  <2>6. cur \in Task
    BY <2>4 DEF StackOK, Shape, FrameOK
  <2>5. s[i].task \in Task /\ f.task \in Task
    BY <1>10 DEF StackOK, Shape, FrameOK
  <2> QED BY <1>10, <2>4, <2>5, <2>6, NullAssumption, PriorityAssumption
          DEF Priority
<1>11. Nesting(r, prio)
  BY <1>1, <1>2, <1>3, <1>10 DEF StackOK, Nesting
<1>12. Dominates(r, prio)
  <2> SUFFICES ASSUME NEW i \in 1 .. Len(r), NEW j \in 1 .. Len(r), i <= j,
                      r[i].kind = "task", Unlocked(r[j])
               PROVE  \E k \in 1 .. j : /\ r[k].kind = "task"
                                        /\ r[k].task = CurrentTaskOf(r[j])
                                        /\ prio[r[i].task] <= prio[r[k].task]
    BY DEF Dominates
  <2>1. CASE j \in 1 .. n
    <3>1. i \in 1 .. n /\ \A k \in 1 .. j : k \in 1 .. n
      BY <1>1, <2>1
    <3>2. r[i] = s[i] /\ r[j] = s[j]
      BY <1>2, <2>1, <3>1
    <3>3. PICK k \in 1 .. j : /\ s[k].kind = "task"
                             /\ s[k].task = CurrentTaskOf(s[j])
                             /\ prio[s[i].task] <= prio[s[k].task]
      BY <2>1, <3>1, <3>2 DEF StackOK, Dominates
    <3> QED BY <1>2, <3>1, <3>2, <3>3
  <2>2. CASE j = n + 1
    <3>1. r[j] = f /\ f.kind = "task" /\ CurrentTaskOf(f) = f.task /\ f.task \in Task
      BY <1>2, <2>2 DEF Unlocked, CurrentTaskOf, FrameOK, Frame
    <3>2. prio[r[i].task] <= prio[f.task]
      <4>1. CASE i = n + 1
        BY <1>2, <3>1, <4>1, PriorityAssumption DEF Priority
      <4>2. CASE i \in 1 .. n
        <5>1. prio[s[i].task] < prio[f.task] /\ s[i].task \in Task
          BY <1>2, <1>10, <3>1, <4>2 DEF StackOK, Shape, FrameOK
        <5> QED BY <1>2, <3>1, <4>2, <5>1, PriorityAssumption DEF Priority
      <4> QED BY <1>3, <4>1, <4>2
    <3> QED BY <3>1, <3>2
  <2> QED BY <1>3, <2>1, <2>2
<1>13. OnStack(r, IF f.kind = "task" THEN run \cup {f.task} ELSE run)
  <2> SUFFICES ASSUME NEW t \in Task
               PROVE  t \in (IF f.kind = "task" THEN run \cup {f.task} ELSE run)
                        <=> \E i \in 1 .. Len(r) :
                               r[i].kind = "task" /\ r[i].task = t
    BY DEF OnStack
  <2>1. t \in run <=> \E i \in 1 .. n : r[i].kind = "task" /\ r[i].task = t
    BY SMTT(30), <1>2 DEF StackOK, OnStack
  <2>2. (\E i \in 1 .. Len(r) : r[i].kind = "task" /\ r[i].task = t)
          <=> \/ \E i \in 1 .. n : r[i].kind = "task" /\ r[i].task = t
              \/ f.kind = "task" /\ f.task = t
    BY <1>1, <1>2, <1>3
  <2> QED BY <2>1, <2>2
<1> QED BY <1>2, <1>5, <1>7, <1>8, <1>9, <1>11, <1>12, <1>13 DEF StackOK, r

\* The top frame goes on, as f: what is below does not notice.
LEMMA ReplaceKeepsStack ==
    ASSUME NEW s, NEW depth, NEW cur, NEW prio \in [Task -> Priority],
           NEW run \in SUBSET Task,
           StackOK(s, depth, cur, prio, run),
           NEW f \in Frame, FrameOK(f),
           f.kind \in {"init", "main"} <=> Last(s).kind \in {"init", "main"},
           f.kind = "task" <=> Last(s).kind = "task",
           f.task = Last(s).task, f.saved = Last(s).saved, f.base = Last(s).base
    PROVE  StackOK([s EXCEPT ![Len(s)] = f], f.base + f.locks,
                   CurrentTaskOf(f), prio, run)
<1> DEFINE r == [s EXCEPT ![Len(s)] = f]
<1> DEFINE n == Len(s)
<1>1. /\ s \in Seq(Frame) /\ n \in Nat /\ n >= 1 /\ Last(s) = s[n]
      /\ \A i \in 1 .. n : s[i] \in Frame
  BY DEF StackOK, Last
<1>2. /\ r \in Seq(Frame) /\ r # <<>> /\ Len(r) = n
      /\ r[n] = f
      /\ \A i \in 1 .. n : i # n => r[i] = s[i]
      /\ \A i \in 1 .. n : /\ r[i].base = s[i].base /\ r[i].saved = s[i].saved
                           /\ r[i].task = s[i].task
                           /\ (r[i].kind = "task") <=> (s[i].kind = "task")
  BY <1>1
<1> HIDE DEF r
<1>3. \A i \in 1 .. n : i # 1 => i - 1 \in 1 .. n /\ r[i - 1] = s[i - 1]
  BY <1>1, <1>2
<1>4. Shape(r)
  BY <1>1, <1>2 DEF StackOK, Shape
<1>5. Grows(r)
  BY <1>1, <1>2 DEF StackOK, Grows
<1>6. Balanced(r, f.base + f.locks)
  <2>1. ASSUME NEW i \in 2 .. Len(r)
        PROVE  r[i].base = r[i - 1].base + r[i - 1].locks
    BY <1>1, <1>2, <1>3 DEF StackOK, Balanced
  <2> QED BY <1>2, <2>1 DEF Balanced
<1>7. SavedOK(r, CurrentTaskOf(f))
  <2>1. ASSUME NEW i \in 2 .. Len(r)
        PROVE  r[i].saved = CurrentTaskOf(r[i - 1])
    BY <1>1, <1>2, <1>3 DEF StackOK, SavedOK
  <2> QED BY <1>2, <2>1 DEF SavedOK
<1>8. Nesting(r, prio)
  BY <1>1, <1>2 DEF StackOK, Nesting
<1>9. OnStack(r, run)
  BY <1>1, <1>2 DEF StackOK, OnStack
<1>10. Dominates(r, prio)
  <2> SUFFICES ASSUME NEW i \in 1 .. Len(r), NEW j \in 1 .. Len(r), i <= j,
                      r[i].kind = "task", Unlocked(r[j])
               PROVE  \E k \in 1 .. j : /\ r[k].kind = "task"
                                        /\ r[k].task = CurrentTaskOf(r[j])
                                        /\ prio[r[i].task] <= prio[r[k].task]
    BY DEF Dominates
  <2>1. i \in 1 .. n /\ j \in 1 .. n /\ \A k \in 1 .. j : k \in 1 .. n
    BY <1>1, <1>2
  <2>2. s[i].kind = "task" /\ r[i].task = s[i].task
    BY <1>2, <2>1
  <2>3. s[i].task \in Task
    BY <2>1, <2>2 DEF StackOK, Shape, FrameOK
  <2>4. CASE j # n
    <3>1. PICK k \in 1 .. j : /\ s[k].kind = "task"
                             /\ s[k].task = CurrentTaskOf(s[j])
                             /\ prio[s[i].task] <= prio[s[k].task]
      BY <1>2, <2>1, <2>2, <2>4 DEF StackOK, Dominates
    <3> QED BY <1>2, <2>1, <2>2, <2>4, <3>1
  <2>5. CASE j = n /\ f.kind = "task"
    <3>1. CurrentTaskOf(r[j]) = f.task /\ f.task \in Task
      BY <1>2, <2>5 DEF CurrentTaskOf, FrameOK
    <3>2. i < n => prio[s[i].task] < prio[s[n].task]
      BY <1>1, <1>2, <2>1, <2>2, <2>5 DEF StackOK, Nesting
    <3>3. r[j].kind = "task" /\ r[j].task = f.task /\ s[n].task = f.task
      BY <1>1, <1>2, <2>5
    <3>4. prio[r[i].task] <= prio[r[j].task]
      BY <1>1, <2>1, <2>2, <2>3, <2>5, <3>1, <3>2, <3>3, PriorityAssumption
      DEF Priority
    <3> QED BY <2>1, <3>1, <3>3, <3>4
  <2>6. CASE j = n /\ f.kind # "task"
    <3>1. n # 1 /\ i # n
      BY <1>1, <1>2, <2>1, <2>2, <2>6 DEF StackOK, Shape
    <3>2. n - 1 \in 1 .. n /\ i <= n - 1 /\ n \in 2 .. n
      BY <1>1, <2>1, <3>1
    <3>3. f.kind = "isr"
      BY <1>1, <2>6, <3>1 DEF StackOK, Shape, Frame, Kind
    <3>4. CurrentTaskOf(f) = f.saved
      BY <1>2, <2>6, <3>3
      DEF Unlocked, FrameOK, CurrentTaskOf, LocksOfFrame, Frame, PC
    <3>5. /\ f.saved = CurrentTaskOf(s[n - 1])
          /\ f.base = s[n - 1].base + s[n - 1].locks
      BY <1>1, <3>2 DEF StackOK, SavedOK, Balanced
    <3>6. Unlocked(s[n - 1])
      <4>1. s[n - 1] \in Frame /\ f.base = 0
        BY <1>1, <1>2, <2>6, <3>2 DEF Unlocked
      <4>2. s[n - 1].base \in Nat /\ s[n - 1].locks \in Nat
        BY <4>1 DEF Frame
      <4> QED BY <3>5, <4>1, <4>2 DEF Unlocked
    <3>7. PICK k \in 1 .. n - 1 : /\ s[k].kind = "task"
                                 /\ s[k].task = CurrentTaskOf(s[n - 1])
                                 /\ prio[s[i].task] <= prio[s[k].task]
      BY <2>1, <2>2, <3>2, <3>6 DEF StackOK, Dominates
    <3>8. k \in 1 .. j /\ k \in 1 .. n /\ k # n
      BY <1>1, <2>6
    <3> QED BY <1>2, <2>2, <2>6, <3>4, <3>5, <3>7, <3>8
  <2> QED BY <2>4, <2>5, <2>6
<1> QED BY <1>2, <1>4, <1>5, <1>6, <1>7, <1>8, <1>9, <1>10 DEF StackOK, r

\* A handler or task that holds no lock any more leaves the stack: the frame
\* below finds its depth, and finds its current_task in what f saved.
LEMMA PopKeepsStack ==
    ASSUME NEW s, NEW depth, NEW cur, NEW prio \in [Task -> Priority],
           NEW run \in SUBSET Task,
           StackOK(s, depth, cur, prio, run),
           Last(s).kind \in {"task", "isr"}, Last(s).locks = 0
    PROVE  StackOK(Pop(s), depth, Last(s).saved, prio,
                   IF Last(s).kind = "task" THEN run \ {Last(s).task} ELSE run)
<1> DEFINE r == Pop(s)
<1> DEFINE n == Len(s)
<1> DEFINE f == s[n]
<1>1. /\ s \in Seq(Frame) /\ n \in Nat /\ n >= 1 /\ Last(s) = f
      /\ \A i \in 1 .. n : s[i] \in Frame
  BY DEF StackOK, Last
<1>2. n \in Nat /\ n # 1 /\ n - 1 \in Nat /\ n - 1 >= 1
  <2>1. n \in Nat /\ n >= 1
    BY <1>1
  <2>2. n # 1
    BY <1>1 DEF StackOK, Shape
  <2> HIDE DEF n
  <2> QED BY <2>1, <2>2
<1>3. /\ r \in Seq(Frame) /\ r # <<>> /\ Len(r) = n - 1
      /\ \A i \in 1 .. n - 1 : r[i] = s[i]
  <2>1. r = SubSeq(s, 1, n - 1)
    BY DEF Pop, Front
  <2> HIDE DEF r
  <2>2. r \in Seq(Frame) /\ Len(r) = n - 1 /\ \A i \in 1 .. n - 1 : r[i] = s[i]
    BY <1>1, <1>2, <2>1
  <2> QED BY <1>2, <2>2
<1> HIDE DEF r
<1>4. Shape(r) /\ Grows(r) /\ Nesting(r, prio)
  BY <1>1, <1>3 DEF StackOK, Shape, Grows, Nesting
<1>8. Dominates(r, prio)
  <2> SUFFICES ASSUME NEW i \in 1 .. Len(r), NEW j \in 1 .. Len(r), i <= j,
                      r[i].kind = "task", Unlocked(r[j])
               PROVE  \E k \in 1 .. j : /\ r[k].kind = "task"
                                        /\ r[k].task = CurrentTaskOf(r[j])
                                        /\ prio[r[i].task] <= prio[r[k].task]
    BY DEF Dominates
  <2>1. /\ i \in 1 .. n - 1 /\ j \in 1 .. n - 1 /\ i \in 1 .. n /\ j \in 1 .. n
        /\ \A k \in 1 .. j : k \in 1 .. n - 1
    BY <1>1, <1>3
  <2>2. r[i] = s[i] /\ r[j] = s[j]
    BY <1>3, <2>1
  <2>3. PICK k \in 1 .. j : /\ s[k].kind = "task"
                           /\ s[k].task = CurrentTaskOf(s[j])
                           /\ prio[s[i].task] <= prio[s[k].task]
    BY <2>1, <2>2 DEF StackOK, Dominates
  <2> QED BY <1>3, <2>1, <2>2, <2>3
<1>5. Balanced(r, depth)
  <2>0. f \in Frame /\ f.locks = 0 /\ r[n - 1] = s[n - 1] /\ n \in 2 .. n
    BY <1>1, <1>2, <1>3
  <2>1. depth = f.base /\ f.base = r[n - 1].base + r[n - 1].locks
    BY <2>0 DEF StackOK, Balanced, Frame
  <2>2. ASSUME NEW i \in 2 .. n - 1
        PROVE  r[i].base = r[i - 1].base + r[i - 1].locks
    <3>1. i \in 1 .. n - 1 /\ i - 1 \in 1 .. n - 1 /\ i \in 2 .. n
      BY <1>1
    <3> QED BY <1>3, <3>1 DEF StackOK, Balanced
  <2> QED BY <1>3, <2>1, <2>2 DEF Balanced
<1>6. SavedOK(r, f.saved)
  <2>0. r[n - 1] = s[n - 1] /\ n \in 2 .. n
    BY <1>2, <1>3
  <2>1. f.saved = CurrentTaskOf(r[n - 1])
    BY <2>0 DEF StackOK, SavedOK
  <2>2. ASSUME NEW i \in 2 .. n - 1
        PROVE  r[i].saved = CurrentTaskOf(r[i - 1])
    <3>1. i \in 1 .. n - 1 /\ i - 1 \in 1 .. n - 1 /\ i \in 2 .. n
      BY <1>1
    <3> QED BY <1>3, <3>1 DEF StackOK, SavedOK
  <2> QED BY <1>3, <2>1, <2>2 DEF SavedOK
<1>7. OnStack(r, IF f.kind = "task" THEN run \ {f.task} ELSE run)
  <2> SUFFICES ASSUME NEW t \in Task
               PROVE  t \in (IF f.kind = "task" THEN run \ {f.task} ELSE run)
                        <=> \E i \in 1 .. n - 1 : s[i].kind = "task" /\ s[i].task = t
    BY <1>3 DEF OnStack
  <2>1. t \in run <=> \E i \in 1 .. n : s[i].kind = "task" /\ s[i].task = t
    BY DEF StackOK, OnStack
  <2>2. ASSUME f.kind = "task", NEW i \in 1 .. n - 1, s[i].kind = "task"
        PROVE  s[i].task # f.task
    <3>1. i \in 1 .. n /\ i < n /\ n \in 1 .. n
      BY <1>1
    <3>2. prio[s[i].task] < prio[f.task] /\ s[i].task \in Task
      BY <2>2, <3>1 DEF StackOK, Nesting, Shape, FrameOK
    <3> QED BY <3>2, PriorityAssumption DEF Priority
  <2>3. \A i \in 1 .. n : i \in 1 .. n - 1 \/ i = n
    BY <1>1
  <2>4. \A i \in 1 .. n - 1 : i \in 1 .. n
    BY <1>1
  <2> QED BY <1>1, <2>1, <2>2, <2>3, <2>4
<1> QED BY <1>1, <1>3, <1>4, <1>5, <1>6, <1>7, <1>8 DEF StackOK, r

\* What the stack invariant says of the variables it describes.
LEMMA StackTypes ==
    ASSUME NEW s, NEW depth, NEW cur, NEW prio, NEW run,
           StackOK(s, depth, cur, prio, run)
    PROVE  /\ depth \in Nat
           /\ cur \in Task \cup {NULL}
           /\ Len(s) \in Nat /\ Len(s) >= 1
           /\ Last(s) = s[Len(s)] /\ Last(s) \in Frame
           /\ FrameOK(Last(s))
           /\ cur = CurrentTaskOf(Last(s))
           /\ depth = Last(s).base + Last(s).locks
<1>1. Len(s) \in Nat /\ Len(s) >= 1 /\ s[Len(s)] \in Frame /\ Last(s) = s[Len(s)]
  BY DEF StackOK, Last
<1>2. FrameOK(Last(s)) /\ cur = CurrentTaskOf(Last(s))
  BY <1>1 DEF StackOK, Shape, SavedOK
<1>3. depth = Last(s).base + Last(s).locks
  BY <1>1 DEF StackOK, Balanced
<1> QED BY <1>1, <1>2, <1>3 DEF Frame, CurrentTaskOf

\* A step of the top frame that only moves it on.
LEMMA GotoKeepsStack ==
    ASSUME IInv, NEW pc \in PC, NEW t \in Task \cup {NULL}, NEW n \in Int,
           Top.locks + n >= 0,
           FrameOK(Moved(Top, pc, t, n))
    PROVE  StackOK(Goto(stack, pc, t, n), scheduler_depth + n,
                   CurrentTaskOf(Moved(Top, pc, t, n)), priority, running)
<1> DEFINE f == Moved(Top, pc, t, n)
<1>1. StackOK(stack, scheduler_depth, current_task, priority, running)
      /\ priority \in [Task -> Priority] /\ running \in SUBSET Task
  BY DEF IInv, TypeOK
<1>2. /\ Top \in Frame /\ scheduler_depth = Top.base + Top.locks
      /\ Len(stack) \in 1 .. Len(stack) /\ Top = stack[Len(stack)]
  BY <1>1, StackTypes DEF Top
<1>3. /\ f \in Frame /\ f.locks = Top.locks + n
      /\ f.kind = Top.kind /\ f.task = Top.task /\ f.saved = Top.saved
      /\ f.base = Top.base
  BY <1>2 DEF Moved, Frame
<1>4. Goto(stack, pc, t, n) = [stack EXCEPT ![Len(stack)] = f]
  BY DEF Goto, Top
<1>5. f.base + f.locks = scheduler_depth + n
  BY <1>2, <1>3 DEF Frame
<1> HIDE DEF f
<1>6. StackOK([stack EXCEPT ![Len(stack)] = f], f.base + f.locks,
              CurrentTaskOf(f), priority, running)
  BY <1>1, <1>3, ReplaceKeepsStack DEF f, Top
<1> QED BY <1>4, <1>5, <1>6 DEF f

\* Only the priorities of active tasks matter to the stack.
LEMMA PriorityKeepsStack ==
    ASSUME NEW s, NEW depth, NEW cur, NEW prio, NEW run, NEW new,
           StackOK(s, depth, cur, prio, run),
           \A t \in run : new[t] = prio[t]
    PROVE  StackOK(s, depth, cur, new, run)
<1>1. \A i \in 1 .. Len(s) : s[i].kind = "task" => new[s[i].task] = prio[s[i].task]
  BY DEF StackOK, Shape, FrameOK, OnStack
<1>2. Nesting(s, new)
  BY <1>1 DEF StackOK, Nesting
<1>3. Dominates(s, new)
  <2> SUFFICES ASSUME NEW i \in 1 .. Len(s), NEW j \in 1 .. Len(s), i <= j,
                      s[i].kind = "task", Unlocked(s[j])
               PROVE  \E k \in 1 .. j : /\ s[k].kind = "task"
                                        /\ s[k].task = CurrentTaskOf(s[j])
                                        /\ new[s[i].task] <= new[s[k].task]
    BY DEF Dominates
  <2>1. PICK k \in 1 .. j : /\ s[k].kind = "task"
                           /\ s[k].task = CurrentTaskOf(s[j])
                           /\ prio[s[i].task] <= prio[s[k].task]
    BY DEF StackOK, Dominates
  <2>2. k \in 1 .. Len(s)
    BY DEF StackOK
  <2> QED BY <1>1, <2>1, <2>2
<1> QED BY <1>2, <1>3 DEF StackOK

-----------------------------------------------------------------------------
(* The scheduler's choice and the steps on the lists.                        *)

\* get_higher_priority_task() returns a task that is ready, on the list of its
\* priority, not running, and above the current task.
LEMMA HigherPriorityTaskIsReady ==
    ASSUME IInv, NEW run \in SUBSET Task, NEW cur \in Task \cup {NULL},
           HigherPriorityTask(list, run, cur) # NULL
    PROVE  LET t == HigherPriorityTask(list, run, cur)
           IN  /\ t \in Task /\ t \notin run
               /\ priority[t] \in Priority /\ OnList(t, priority[t])
               /\ priority[t] > PriorityOf(cur)
<1> DEFINE above == NonEmptyAbove(list, cur)
<1> DEFINE p == CHOOSE q \in above : \A o \in above : o <= q
<1>1. PICK q \in above : (\A o \in above : o <= q) /\ Head(list[q]) \notin run
  BY DEF HigherPriorityTask
<1>2. p = q
  <2>1. p \in above /\ \A o \in above : o <= p
    BY <1>1
  <2>2. p \in Int /\ q \in Int
    BY <1>1, <2>1, PriorityAssumption DEF NonEmptyAbove, Priority
  <2> HIDE DEF p
  <2> QED BY <1>1, <2>1, <2>2
<1>3. HigherPriorityTask(list, run, cur) = Head(list[p])
  BY <1>1 DEF HigherPriorityTask
<1> HIDE DEF p
<1>4. q \in Priority /\ q \in ListId /\ q > PriorityOf(cur) /\ list[q] # <<>>
  BY <1>1 DEF NonEmptyAbove, ListId
<1>5. list[q] \in Seq(Task)
  BY <1>4 DEF IInv, TypeOK
<1>6. /\ Head(list[q]) = list[q][1] /\ 1 \in 1 .. Len(list[q])
      /\ list[q][1] \in Task
  BY <1>4, <1>5
<1>7. priority[list[q][1]] = q
  BY <1>4, <1>6 DEF IInv, EachTaskOnOneList
<1> QED BY <1>1, <1>2, <1>3, <1>4, <1>6, <1>7 DEF OnList

\* A step that moves a task between lists keeps the lists in order.
LEMMA MoveStep ==
    ASSUME IInv, NEW t \in Task, NEW l \in ListId,
           l \in Priority => priority[t] = l,
           list' = MoveLast(t, l) \/ list' = MoveFirst(t, l),
           priority' = priority
    PROVE  /\ list' \in [ListId -> Seq(Task)]
           /\ EachTaskOnOneList'
           /\ Created' = Created \cup {t}
<1>1. OneList(list, priority) /\ list \in [ListId -> Seq(Task)]
  BY DEF IInv, TypeOK, EachTaskOnOneList, OneList
<1> DEFINE new == list'
<1>2. /\ new \in [ListId -> Seq(Task)]
      /\ OneList(new, priority)
      /\ \A u \in Task, k \in ListId :
            Holds(new, k, u) <=> IF u = t THEN k = l ELSE OnList(u, k)
  <2>1. Moves(new, list, t, l) /\ AgreeBut(priority, priority, t)
    BY DEF MoveLast, MoveFirst, Moves, AgreeBut
  <2> HIDE DEF new
  <2>2. \A u \in Task, k \in ListId : OnList(u, k) <=> Holds(list, k, u)
    BY DEF OnList, Holds
  <2>3. /\ new \in [ListId -> Seq(Task)]
        /\ OneList(new, priority)
        /\ \A u \in Task, k \in ListId :
              Holds(new, k, u) <=> IF u = t THEN k = l ELSE Holds(list, k, u)
    BY <1>1, <2>1, MoveKeepsLists
  <2> QED BY <2>2, <2>3
<1>3. EachTaskOnOneList'
  BY <1>2 DEF EachTaskOnOneList, OneList
<1>4. Created' = Created \cup {t}
  <2>1. ASSUME NEW u \in Task
        PROVE  (\E k \in ListId : OnList(u, k)')
                  <=> u = t \/ \E k \in ListId : OnList(u, k)
    <3>1. \A k \in ListId : OnList(u, k)' <=> Holds(new, k, u)
      BY DEF OnList, Holds
    <3> QED BY <1>2, <3>1
  <2> QED BY <2>1 DEF Created
<1> QED BY <1>2, <1>3, <1>4

LEMMA ListsUnchanged ==
    ASSUME UNCHANGED list, UNCHANGED priority
    PROVE  /\ Created' = Created
           /\ EachTaskOnOneList' <=> EachTaskOnOneList
BY DEF Created, OnList, EachTaskOnOneList

LEMMA InitHolds == Init => IInv
<1> SUFFICES ASSUME Init PROVE IInv
  OBVIOUS
<1> DEFINE f == MainFrame("init", 1)
<1>1. f \in Frame /\ FrameOK(f) /\ f.kind = "init" /\ f.locks = 1 /\ f.base = 0
  BY DEF MainFrame, Frame, Kind, PC, FrameOK, LocksOfFrame
<1>2. CurrentTaskOf(f) = NULL
  BY DEF MainFrame, CurrentTaskOf
<1> HIDE DEF f
<1>3. /\ stack = <<f>> /\ stack \in Seq(Frame) /\ stack # <<>> /\ Len(stack) = 1
      /\ stack[1] = f
  BY <1>1 DEF Init, f
<1>4. StackOK(stack, scheduler_depth, current_task, priority, running)
  BY <1>1, <1>2, <1>3
  DEF Init, StackOK, Shape, Grows, Balanced, SavedOK, Dominates, Nesting, OnStack
<1>5. list \in [ListId -> Seq(Task)] /\ \A l \in ListId : list[l] = <<>>
  BY DEF Init
<1>6. EachTaskOnOneList
  BY <1>5 DEF EachTaskOnOneList
<1>7. priority \in [Task -> Priority]
  BY PriorityAssumption DEF Init, Priority
<1>8. TypeOK
  BY <1>4, <1>5, <1>7, StackTypes DEF Init, TypeOK, StackOK
<1> QED BY <1>4, <1>6, <1>8 DEF Init, IInv

\* What an action has to establish.
LEMMA StepCloses ==
    ASSUME higher_priority_task_ready' \in BOOLEAN,
           list' \in [ListId -> Seq(Task)],
           priority' \in [Task -> Priority],
           running' \subseteq Created',
           EachTaskOnOneList',
           StackOK(stack', scheduler_depth', current_task', priority', running')
    PROVE  IInv'
<1>1. scheduler_depth' \in Nat /\ current_task' \in Task \cup {NULL}
  BY StackTypes
<1>2. stack' \in Seq(Frame) /\ stack' # <<>>
  BY DEF StackOK
<1>3. running' \subseteq Task
  BY DEF Created
<1> QED BY <1>1, <1>2, <1>3 DEF IInv, TypeOK

\* What the invariant says of the frame that executes.
LEMMA TopFrame ==
    ASSUME IInv
    PROVE  /\ Top \in Frame /\ FrameOK(Top)
           /\ current_task = CurrentTaskOf(Top)
           /\ scheduler_depth = Top.base + Top.locks
           /\ Top.locks \in Nat /\ Top.base \in Nat
           /\ Top.kind \in Kind /\ Top.pc \in PC
           /\ Top.saved \in Task \cup {NULL}
           /\ scheduler_depth \in Nat /\ current_task \in Task \cup {NULL}
           /\ running \in SUBSET Task /\ priority \in [Task -> Priority]
           /\ Top = stack[Len(stack)]
BY StackTypes DEF IInv, TypeOK, Top, Frame

\* scheduler_lock(), by an operation or by the application.
LEMMA LockKeepsStack ==
    ASSUME IInv, InUserCode, NEW pc, NEW t, LockFor(pc, t),
           \/ pc \in {"create", "resume"} /\ t \in Task
           \/ pc = "run" /\ t = NULL
    PROVE  StackOK(stack', scheduler_depth', current_task', priority, running')
<1> DEFINE f == Moved(Top, pc, t, 1)
<1>1. pc \in PC /\ t \in Task \cup {NULL} /\ Top.locks + 1 >= 0
  BY TopFrame DEF PC
<1>2. FrameOK(f) /\ CurrentTaskOf(f) = current_task
  BY TopFrame DEF Moved, FrameOK, LocksOfFrame, CurrentTaskOf, InUserCode
<1> HIDE DEF f
<1>3. StackOK(Goto(stack, pc, t, 1), scheduler_depth + 1, CurrentTaskOf(f),
              priority, running)
  BY <1>1, <1>2, GotoKeepsStack DEF f
<1> QED BY <1>2, <1>3 DEF LockFor

\* The critical section of an operation: only the frame's place changes.
LEMMA InsertKeepsStack ==
    ASSUME IInv, NEW pc, NEW t,
           \/ Top.pc = "create" /\ pc = "resume" /\ t = Top.arg
           \/ Top.pc = "resume" /\ pc = "unlock" /\ t = NULL
    PROVE  StackOK(Goto(stack, pc, t, 0), scheduler_depth, current_task,
                   priority, running)
<1> DEFINE f == Moved(Top, pc, t, 0)
<1>1. pc \in PC /\ t \in Task \cup {NULL} /\ Top.locks + 0 >= 0
  BY TopFrame DEF PC, FrameOK
<1>2. FrameOK(f) /\ CurrentTaskOf(f) = current_task
  BY TopFrame DEF Moved, FrameOK, LocksOfFrame, CurrentTaskOf
<1> HIDE DEF f
<1>3. StackOK(Goto(stack, pc, t, 0), scheduler_depth + 0, CurrentTaskOf(f),
              priority, running)
  BY <1>1, <1>2, GotoKeepsStack DEF f
<1>4. scheduler_depth + 0 = scheduler_depth
  BY TopFrame
<1> QED BY <1>2, <1>3, <1>4

\* scheduler_unlock(): the scheduler is entered only with nothing locked.
LEMMA UnlockKeepsStack ==
    ASSUME IInv, SchedulerUnlock \/ OperationUnlock
    PROVE  StackOK(stack', scheduler_depth', current_task', priority, running')
<1>0. /\ Unlock
      /\ \/ Top.pc = "run" /\ Top.locks > LocksOfFrame(Top.kind)
         \/ Top.pc \in {"unlock", "exit"}
  BY DEF SchedulerUnlock, OperationUnlock, InUserCode
<1> DEFINE pc == IF Preemptive /\ scheduler_depth = 1 /\ higher_priority_task_ready
                 THEN "sched" ELSE AfterUnlock
<1> DEFINE f == Moved(Top, pc, NULL, -1)
<1>1. Top.locks >= 1
  BY <1>0, TopFrame DEF FrameOK, LocksOfFrame
<1>2. pc \in PC /\ NULL \in Task \cup {NULL} /\ -1 \in Int /\ Top.locks + (-1) >= 0
  BY <1>0, <1>1, TopFrame DEF PC, AfterUnlock
<1>3. f.locks = Top.locks - 1 /\ f.kind = Top.kind /\ f.base = Top.base
      /\ f.pc = pc /\ f.task = Top.task /\ f.saved = Top.saved
  BY <1>1, TopFrame DEF Moved
<1>4. CASE pc = "sched"
  <2>1. Top.locks = 1 /\ Top.base = 0
    BY <1>0, <1>1, <1>4, TopFrame DEF AfterUnlock
  <2>2. FrameOK(f)
    BY <1>0, <1>3, <1>4, <2>1, TopFrame DEF FrameOK, LocksOfFrame
  <2>3. CurrentTaskOf(f) = current_task
    BY <1>0, <1>3, <1>4, <2>1, TopFrame DEF FrameOK, LocksOfFrame, CurrentTaskOf
  <2> HIDE DEF f, pc
  <2>4. StackOK(Goto(stack, pc, NULL, -1), scheduler_depth + (-1),
                CurrentTaskOf(f), priority, running)
    BY <1>2, <2>2, GotoKeepsStack DEF f
  <2>5. stack' = Goto(stack, pc, NULL, -1)
    BY <1>0 DEF Unlock, pc
  <2>6. scheduler_depth' = scheduler_depth + (-1)
    BY <1>0, TopFrame DEF Unlock
  <2> QED BY <1>0, <2>3, <2>4, <2>5, <2>6 DEF Unlock
<1>5. CASE pc # "sched"
  <2>1. pc = IF Top.pc = "exit" THEN "iret" ELSE "run"
    BY <1>0, <1>5, TopFrame DEF AfterUnlock, FrameOK
  <2>2. FrameOK(f)
    BY <1>0, <1>1, <1>3, <2>1, TopFrame DEF FrameOK, LocksOfFrame
  <2>3. CurrentTaskOf(f) = current_task
    BY <1>0, <1>3, <2>1, TopFrame DEF CurrentTaskOf
  <2> HIDE DEF f, pc
  <2>4. StackOK(Goto(stack, pc, NULL, -1), scheduler_depth + (-1),
                CurrentTaskOf(f), priority, running)
    BY <1>2, <2>2, GotoKeepsStack DEF f
  <2>5. stack' = Goto(stack, pc, NULL, -1)
    BY <1>0 DEF Unlock, pc
  <2>6. scheduler_depth' = scheduler_depth + (-1)
    BY <1>0, TopFrame DEF Unlock
  <2> QED BY <1>0, <2>3, <2>4, <2>5, <2>6 DEF Unlock
<1> QED BY <1>4, <1>5

\* A dispatch pushes a task that outranks the current one.
LEMMA DispatchKeepsStack ==
    ASSUME IInv, NEW s, NEW cur, NEW run \in SUBSET Task, NEW t \in Task,
           StackOK(s, scheduler_depth, cur, priority, run), cur \in Task \cup {NULL},
           scheduler_depth = 0,
           t \notin run, priority[t] > PriorityOf(cur)
    PROVE  StackOK(Push(s, TaskFrame(t, cur)), 0, t, priority, run \cup {t})
<1> DEFINE f == TaskFrame(t, cur)
<1>1. /\ f \in Frame /\ FrameOK(f)
      /\ f.kind = "task" /\ f.base = scheduler_depth /\ f.saved = cur
      /\ f.locks = 0 /\ f.task = t /\ CurrentTaskOf(f) = t
  BY DEF TaskFrame, Frame, Kind, PC, FrameOK, LocksOfFrame, CurrentTaskOf
<1>2. cur # NULL => priority[f.task] > priority[cur]
  BY <1>1 DEF PriorityOf
<1> HIDE DEF f
<1>3. StackOK(Push(s, f), scheduler_depth + f.locks, CurrentTaskOf(f), priority,
              IF f.kind = "task" THEN run \cup {f.task} ELSE run)
  BY <1>1, <1>2, TopFrame, PushKeepsStack
<1> QED BY <1>1, <1>3 DEF f

\* librertos_sched() goes back to the code that called it.
LEMMA SchedReturns ==
    ASSUME IInv, Top.pc = "sched"
    PROVE  StackOK(Goto(stack, AfterUnlock, NULL, 0), scheduler_depth,
                   current_task, priority, running)
<1> DEFINE pc == AfterUnlock
<1> DEFINE g == Moved(Top, pc, NULL, 0)
<1>1. pc = IF Top.kind = "isr" THEN "iret" ELSE "run"
  BY DEF AfterUnlock
<1>2. Top.locks = 0 /\ Top.kind # "init"
  BY TopFrame DEF FrameOK
<1>3. pc \in PC /\ Top.locks + 0 >= 0 /\ scheduler_depth + 0 = scheduler_depth
  BY <1>1, <1>2, TopFrame DEF PC
<1> HIDE DEF pc
<1>4. FrameOK(g)
  BY <1>1, <1>2, TopFrame DEF Moved, FrameOK, LocksOfFrame
<1>5. CurrentTaskOf(g) = current_task
  BY <1>1, TopFrame DEF Moved, CurrentTaskOf
<1> HIDE DEF g
<1>6. StackOK(Goto(stack, pc, NULL, 0), scheduler_depth + 0, CurrentTaskOf(g),
              priority, running)
  BY <1>3, <1>4, GotoKeepsStack DEF g
<1> QED BY <1>3, <1>5, <1>6 DEF pc

LEMMA StepKeepsInvariant == IInv /\ [Next]_vars => IInv'
<1> SUFFICES ASSUME IInv, [Next]_vars PROVE IInv'
  OBVIOUS
<1>0. /\ EachTaskOnOneList /\ running \subseteq Created
      /\ higher_priority_task_ready \in BOOLEAN
      /\ list \in [ListId -> Seq(Task)]
      /\ priority \in [Task -> Priority]
      /\ running \subseteq Task /\ running \in SUBSET Task
      /\ StackOK(stack, scheduler_depth, current_task, priority, running)
  BY DEF IInv, TypeOK
<1>1. ASSUME NEW t \in Task, NEW p \in Priority, CreateTask(t, p)
      PROVE  IInv'
  <2>1. priority' \in [Task -> Priority] /\ \A u \in Task : u # t => priority'[u] = priority[u]
    BY <1>0, <1>1 DEF CreateTask
  <2>2. StackOK(stack', scheduler_depth', current_task', priority, running')
    BY <1>1, LockKeepsStack DEF CreateTask
  <2>3. \A u \in running' : priority'[u] = priority[u]
    BY <1>0, <1>1, <2>1 DEF CreateTask, LockFor
  <2>4. StackOK(stack', scheduler_depth', current_task', priority', running')
    BY <2>2, <2>3, PriorityKeepsStack
  <2>5. Created' = Created
    BY <1>1 DEF CreateTask, LockFor, Created, OnList
  <2>6. EachTaskOnOneList'
    <3>1. ASSUME NEW k \in ListId, NEW i \in 1 .. Len(list[k])
          PROVE  list[k][i] \in Task /\ list[k][i] # t
      <4>1. list[k] \in Seq(Task)
        BY <1>0
      <4>2. list[k][i] \in Task
        BY <4>1
      <4> QED BY <1>1, <4>2 DEF CreateTask, Created, OnList
    <3>2. list' = list
      BY <1>1 DEF CreateTask, LockFor
    <3>3. ASSUME NEW k \in ListId, NEW i \in 1 .. Len(list[k]), k \in Priority
          PROVE  priority'[list[k][i]] = k
      BY <1>0, <2>1, <3>1, <3>3 DEF EachTaskOnOneList
    <3>4. ASSUME NEW k \in ListId, NEW l \in ListId,
                 NEW i \in 1 .. Len(list[k]), NEW j \in 1 .. Len(list[l]),
                 list[k][i] = list[l][j]
          PROVE  k = l /\ i = j
      BY <1>0, <3>4 DEF EachTaskOnOneList
    <3> QED BY <3>2, <3>3, <3>4 DEF EachTaskOnOneList
  <2> QED BY <1>0, <1>1, <2>1, <2>4, <2>5, <2>6, StepCloses DEF CreateTask, LockFor
<1>2. CASE CreateInsert
  <2>1. Top.arg \in Task /\ Suspended \in ListId /\ Suspended \notin Priority
    BY <1>2, TopFrame DEF CreateInsert, FrameOK, Suspended, ListId, Priority
  <2>2. /\ list' \in [ListId -> Seq(Task)] /\ EachTaskOnOneList'
        /\ Created' = Created \cup {Top.arg}
    BY <1>2, <2>1, MoveStep DEF CreateInsert
  <2>3. StackOK(stack', scheduler_depth', current_task', priority', running')
    BY <1>2, InsertKeepsStack DEF CreateInsert
  <2> QED BY <1>0, <1>2, <2>2, <2>3, StepCloses DEF CreateInsert
<1>3. ASSUME NEW t \in Task, TaskResume(t)
      PROVE  IInv'
  <2>1. StackOK(stack', scheduler_depth', current_task', priority, running')
    BY <1>3, LockKeepsStack DEF TaskResume
  <2> QED BY <1>0, <1>3, <2>1, ListsUnchanged, StepCloses DEF TaskResume, LockFor
<1>4. CASE ResumeInsert
  <2>1. /\ Top.arg \in Task /\ priority[Top.arg] \in Priority
        /\ priority[Top.arg] \in ListId
    BY <1>0, <1>4, TopFrame DEF ResumeInsert, FrameOK, ListId
  <2>2. /\ list' \in [ListId -> Seq(Task)] /\ EachTaskOnOneList'
        /\ Created' = Created \cup {Top.arg}
    BY <1>4, <2>1, MoveStep DEF ResumeInsert
  <2>3. StackOK(stack', scheduler_depth', current_task', priority', running')
    BY <1>4, InsertKeepsStack DEF ResumeInsert
  <2> QED BY <1>0, <1>4, <2>2, <2>3, StepCloses DEF ResumeInsert
<1>5. ASSUME NEW t \in Task, TaskSuspend(t)
      PROVE  IInv'
  <2>1. Suspended \in ListId /\ Suspended \notin Priority
    BY DEF Suspended, ListId, Priority
  <2>2. /\ list' \in [ListId -> Seq(Task)] /\ EachTaskOnOneList'
        /\ Created' = Created \cup {t}
    BY <1>5, <2>1, MoveStep DEF TaskSuspend
  <2> QED BY <1>0, <1>5, <2>2, StepCloses DEF TaskSuspend
<1>6. CASE SchedulerLock
  <2>1. StackOK(stack', scheduler_depth', current_task', priority, running')
    BY <1>6, LockKeepsStack DEF SchedulerLock
  <2> QED BY <1>0, <1>6, <2>1, ListsUnchanged, StepCloses DEF SchedulerLock, LockFor
<1>7. CASE SchedulerUnlock \/ OperationUnlock
  <2>1. Unlock
    BY <1>7 DEF SchedulerUnlock, OperationUnlock
  <2>2. StackOK(stack', scheduler_depth', current_task', priority, running')
    BY <1>7, UnlockKeepsStack
  <2> QED BY <1>0, <2>1, <2>2, ListsUnchanged, StepCloses DEF Unlock
<1>8. CASE Start
  <2> DEFINE f == MainFrame("main", 0)
  <2>1. /\ f \in Frame /\ FrameOK(f) /\ f.kind = "main" /\ f.base = 0
        /\ f.locks = 0 /\ f.task = NULL /\ f.saved = NULL
        /\ CurrentTaskOf(f) = NULL
    BY DEF MainFrame, Frame, Kind, PC, FrameOK, LocksOfFrame, CurrentTaskOf
  <2>2. /\ Top.kind = "init" /\ Top.task = NULL /\ Top.saved = NULL /\ Top.base = 0
        /\ current_task = NULL /\ Top = Last(stack)
    BY <1>8, TopFrame DEF Start, FrameOK, CurrentTaskOf, Top
  <2>3. stack' = [stack EXCEPT ![Len(stack)] = f]
    BY <1>8 DEF Start
  <2> HIDE DEF f
  <2>4. StackOK(stack', f.base + f.locks, CurrentTaskOf(f), priority, running)
    BY <1>0, <2>1, <2>2, <2>3, ReplaceKeepsStack
  <2>5. StackOK(stack', scheduler_depth', current_task', priority', running')
    BY <1>8, <2>1, <2>2, <2>4 DEF Start
  <2> QED BY <1>0, <1>8, <2>5, ListsUnchanged, StepCloses DEF Start
<1>9. ASSUME NEW t \in Task, SchedDispatch(t)
      PROVE  IInv'
  <2>1. /\ t \notin running /\ priority[t] \in Priority /\ priority[t] \in ListId
        /\ priority[t] > PriorityOf(current_task) /\ t \in Created
    <3>1. HigherPriorityTask(list, running, current_task) = t /\ t # NULL
      BY <1>9, NullAssumption DEF SchedDispatch
    <3> QED BY <3>1, TopFrame, HigherPriorityTaskIsReady DEF Created, ListId
  <2>2. scheduler_depth = 0 /\ Top.locks = 0
    BY <1>9, TopFrame DEF SchedDispatch, FrameOK
  <2>5. StackOK(Goto(stack, AfterUnlock, NULL, 0), scheduler_depth,
                current_task, priority, running)
    BY <1>9, SchedReturns DEF SchedDispatch
  <2>6. StackOK(stack', 0, t, priority, running \cup {t})
    BY <1>9, <2>1, <2>2, <2>5, TopFrame, DispatchKeepsStack DEF SchedDispatch
  <2>7. StackOK(stack', scheduler_depth', current_task', priority', running')
    BY <1>9, <2>2, <2>6 DEF SchedDispatch, Dispatch
  <2>8. /\ list' \in [ListId -> Seq(Task)] /\ EachTaskOnOneList'
        /\ Created' = Created \cup {t}
    BY <1>9, <2>1, MoveStep DEF SchedDispatch, Dispatch
  <2> QED BY <1>0, <1>9, <2>7, <2>8, StepCloses DEF SchedDispatch, Dispatch
<1>10. CASE SchedNothing
  <2>5. StackOK(stack', scheduler_depth', current_task', priority', running')
    BY <1>10, SchedReturns DEF SchedNothing
  <2> QED BY <1>0, <1>10, <2>5, ListsUnchanged, StepCloses DEF SchedNothing
<1>11. ASSUME Top.kind = "task", Top.locks = 0
       PROVE  /\ StackOK(Pop(stack), scheduler_depth, Top.saved, priority,
                         running \ {Top.task})
              /\ scheduler_depth = 0
  <2>1. scheduler_depth = 0 /\ Top = Last(stack)
    BY <1>11, TopFrame DEF Top, FrameOK
  <2>2. StackOK(Pop(stack), scheduler_depth, Last(stack).saved, priority,
                IF Last(stack).kind = "task" THEN running \ {Last(stack).task}
                                             ELSE running)
    BY <1>0, <1>11, <2>1, PopKeepsStack
  <2> QED BY <1>11, <2>1, <2>2
<1>12. ASSUME NEW t \in Task, TaskReturn(t)
       PROVE  IInv'
  <2>1. /\ StackOK(Pop(stack), scheduler_depth, Top.saved, priority,
                   running \ {Top.task})
        /\ scheduler_depth = 0
    BY <1>11, <1>12 DEF TaskReturn
  <2>2. /\ t \notin running \ {Top.task} /\ priority[t] \in Priority
        /\ priority[t] \in ListId /\ priority[t] > PriorityOf(Top.saved)
        /\ t \in Created
    <3>1. HigherPriorityTask(list, running \ {Top.task}, Top.saved) = t /\ t # NULL
      BY <1>12 DEF TaskReturn
    <3>2. running \ {Top.task} \in SUBSET Task
      BY <1>0
    <3> QED BY <3>1, <3>2, TopFrame, HigherPriorityTaskIsReady DEF Created, ListId
  <2>3. StackOK(stack', 0, t, priority, (running \ {Top.task}) \cup {t})
    BY <1>0, <1>12, <2>1, <2>2, TopFrame, DispatchKeepsStack DEF TaskReturn
  <2>4. StackOK(stack', scheduler_depth', current_task', priority', running')
    BY <1>12, <2>1, <2>3 DEF TaskReturn, Dispatch
  <2>5. /\ list' \in [ListId -> Seq(Task)] /\ EachTaskOnOneList'
        /\ Created' = Created \cup {t}
    BY <1>12, <2>2, MoveStep DEF TaskReturn, Dispatch
  <2> QED BY <1>0, <1>12, <2>4, <2>5, StepCloses DEF TaskReturn, Dispatch
<1>13. CASE TaskReturnLast
  <2>1. StackOK(stack', scheduler_depth', current_task', priority', running')
    BY <1>11, <1>13 DEF TaskReturnLast
  <2> QED BY <1>0, <1>13, <2>1, ListsUnchanged, StepCloses DEF TaskReturnLast
<1>14. CASE MainLoop
  <2> DEFINE g == Moved(Top, "sched", NULL, 0)
  <2>1. FrameOK(g) /\ CurrentTaskOf(g) = current_task /\ "sched" \in PC
        /\ Top.locks + 0 >= 0 /\ scheduler_depth + 0 = scheduler_depth
    BY <1>14, TopFrame DEF MainLoop, PC, Moved, FrameOK, LocksOfFrame, CurrentTaskOf
  <2> HIDE DEF g
  <2>2. StackOK(Goto(stack, "sched", NULL, 0), scheduler_depth + 0,
                CurrentTaskOf(g), priority, running)
    BY <2>1, GotoKeepsStack DEF g
  <2>3. StackOK(stack', scheduler_depth', current_task', priority', running')
    BY <1>14, <2>1, <2>2 DEF MainLoop
  <2> QED BY <1>0, <1>14, <2>3, ListsUnchanged, StepCloses DEF MainLoop
<1>15. CASE InterruptEnter
  <2> DEFINE f == [kind |-> "isr", task |-> NULL, saved |-> current_task, pc |-> "run",
                   arg |-> NULL, locks |-> 1, base |-> scheduler_depth]
  <2>1. /\ f \in Frame /\ FrameOK(f) /\ f.kind = "isr" /\ f.locks = 1
        /\ f.base = scheduler_depth /\ f.saved = current_task
        /\ CurrentTaskOf(f) = NULL /\ f.kind # "task" /\ f.locks > 0
    BY TopFrame DEF Frame, Kind, PC, FrameOK, LocksOfFrame, CurrentTaskOf
  <2>2. stack' = Push(stack, f)
    BY <1>15 DEF InterruptEnter
  <2> HIDE DEF f
  <2>3. StackOK(Push(stack, f), scheduler_depth + f.locks, CurrentTaskOf(f), priority,
                IF f.kind = "task" THEN running \cup {f.task} ELSE running)
    BY <1>0, <2>1, PushKeepsStack
  <2>4. StackOK(stack', scheduler_depth', current_task', priority', running')
    BY <1>15, <2>1, <2>2, <2>3 DEF InterruptEnter
  <2> QED BY <1>0, <1>15, <2>4, ListsUnchanged, StepCloses DEF InterruptEnter
<1>16. CASE InterruptUnlock
  <2> DEFINE g == Moved(Top, "exit", NULL, 0)
  <2>1. FrameOK(g) /\ CurrentTaskOf(g) = Top.saved /\ "exit" \in PC
        /\ Top.locks + 0 >= 0 /\ scheduler_depth + 0 = scheduler_depth
    BY <1>16, TopFrame DEF InterruptUnlock, PC, Moved, FrameOK, LocksOfFrame, CurrentTaskOf
  <2> HIDE DEF g
  <2>2. StackOK(Goto(stack, "exit", NULL, 0), scheduler_depth + 0,
                CurrentTaskOf(g), priority, running)
    BY <2>1, GotoKeepsStack DEF g
  <2>3. StackOK(stack', scheduler_depth', current_task', priority', running')
    BY <1>16, <2>1, <2>2 DEF InterruptUnlock
  <2> QED BY <1>0, <1>16, <2>3, ListsUnchanged, StepCloses DEF InterruptUnlock
<1>17. CASE InterruptReturn
  <2>1. /\ Last(stack).kind = "isr" /\ Last(stack).locks = 0
        /\ current_task = Last(stack).saved
    BY <1>17, TopFrame DEF InterruptReturn, Top, FrameOK, CurrentTaskOf
  <2>2. StackOK(Pop(stack), scheduler_depth, Last(stack).saved, priority,
                IF Last(stack).kind = "task" THEN running \ {Last(stack).task}
                                             ELSE running)
    BY <1>0, <2>1, PopKeepsStack
  <2>3. StackOK(stack', scheduler_depth', current_task', priority', running')
    BY <1>17, <2>1, <2>2 DEF InterruptReturn
  <2> QED BY <1>0, <1>17, <2>3, ListsUnchanged, StepCloses DEF InterruptReturn
<1>18. CASE UNCHANGED vars
  BY <1>0, <1>18, ListsUnchanged, StepCloses DEF vars
<1> QED
  BY <1>1, <1>2, <1>3, <1>4, <1>5, <1>6, <1>7, <1>8, <1>9, <1>10, <1>12, <1>13,
     <1>14, <1>15, <1>16, <1>17, <1>18
  DEF Next

-----------------------------------------------------------------------------
(* The theorems.                                                             *)

THEOREM InvariantHolds == Spec => []IInv
<1>1. Init => IInv
  BY InitHolds
<1>2. IInv /\ [Next]_vars => IInv'
  BY StepKeepsInvariant
<1> QED BY <1>1, <1>2, PTL DEF Spec

\* Every variable keeps its type: no pop of an empty stack, no negative depth.
THEOREM TypeCorrect == Spec => []TypeOK
<1>1. IInv => TypeOK
  BY DEF IInv
<1> QED BY <1>1, InvariantHolds, PTL

\* Every created task stays on exactly one scheduler list, under any
\* interleaving of resumes, suspends, dispatches and handlers.
THEOREM ListsCorrect == Spec => []EachTaskOnOneList
<1>1. IInv => EachTaskOnOneList
  BY DEF IInv
<1> QED BY <1>1, InvariantHolds, PTL

\* Tasks nest by priority, so at most NUM_PRIORITIES share the call stack.
THEOREM PriorityNestingHolds == Spec => []PriorityNesting
<1>1. IInv => PriorityNesting
  BY DEF IInv, StackOK, Nesting, PriorityNesting
<1> QED BY <1>1, InvariantHolds, PTL

\* No task function is called again before it returned.
THEOREM NoReentryHolds == Spec => []NoReentry
<1>1. IInv => NoReentry
  <2> SUFFICES ASSUME IInv PROVE NoReentry
    OBVIOUS
  <2>1. /\ OnStack(stack, running) /\ Nesting(stack, priority) /\ Shape(stack)
        /\ priority \in [Task -> Priority] /\ Len(stack) \in Nat
    BY StackTypes DEF IInv, TypeOK, StackOK
  <2>2. ASSUME NEW i \in 1 .. Len(stack), NEW j \in 1 .. Len(stack),
               stack[i].kind = "task", stack[j].kind = "task",
               stack[i].task = stack[j].task
        PROVE  i = j
    <3>1. priority[stack[i].task] \in Int /\ stack[i].task \in Task
      BY <2>1, <2>2, PriorityAssumption DEF Shape, FrameOK, Priority
    <3>2. ~(i < j) /\ ~(j < i)
      BY <2>1, <2>2, <3>1 DEF Nesting
    <3> QED BY <2>1, <3>2
  <2> QED BY <2>1, <2>2 DEF NoReentry, OnStack
<1> QED BY <1>1, InvariantHolds, PTL

\* Every scheduler call and handler restores current_task.
THEOREM CurrentTaskCorrect == Spec => []CurrentTaskRestored
<1>1. IInv => CurrentTaskRestored
  BY TopFrame DEF IInv, StackOK, SavedOK, CurrentTaskRestored
<1> QED BY <1>1, InvariantHolds, PTL

\* The scheduler's assertions on scheduler_depth never fail.
THEOREM DepthCorrect == Spec => []DepthBalanced
<1>1. IInv => DepthBalanced
  <2> SUFFICES ASSUME IInv PROVE DepthBalanced
    OBVIOUS
  <2>1. Top.pc = "sched" => scheduler_depth = 0
    BY TopFrame DEF FrameOK
  <2> QED BY <2>1, TopFrame DEF IInv, StackOK, Balanced, DepthBalanced
<1> QED BY <1>1, InvariantHolds, PTL

\* No task is scheduled on top of code that holds the scheduler lock.
THEOREM LockHolds == Spec => []LockPreventsPreemption
<1>1. IInv => LockPreventsPreemption
  <2> SUFFICES ASSUME IInv,
                      NEW i \in 1 .. Len(stack), NEW j \in 1 .. Len(stack),
                      i < j, stack[j].kind = "task"
               PROVE  stack[i].locks = 0
    BY DEF LockPreventsPreemption
  <2>1. stack \in Seq(Frame) /\ Grows(stack) /\ Shape(stack)
    BY DEF IInv, StackOK
  <2>2. stack[i] \in Frame /\ stack[j].base = 0
    BY <2>1 DEF Shape, FrameOK
  <2>3. stack[i].base \in Nat /\ stack[i].locks \in Nat
    BY <2>2 DEF Frame
  <2>4. 0 >= stack[i].base + stack[i].locks
    BY <2>1, <2>2 DEF Grows
  <2> QED BY <2>3, <2>4
<1> QED BY <1>1, InvariantHolds, PTL

-----------------------------------------------------------------------------
(* A cooperative kernel.  Between the actions, only main enters              *)
(* librertos_sched(): no scheduler_unlock() does, whatever nests.            *)

\* In a cooperative kernel only frame 1, main's, calls the scheduler, and a
\* task is frame 2.
OneScheduler(s) ==
    \A i \in 1 .. Len(s) : /\ s[i].pc = "sched" => i = 1
                           /\ s[i].kind = "task" => i = 2

CInv == ~Preemptive => OneScheduler(stack)

-----------------------------------------------------------------------------
\* The frame on top goes on, and calls the scheduler only if it is main's.
LEMMA GotoCooperates ==
    ASSUME NEW s \in Seq(Frame), s # <<>>, OneScheduler(s),
           NEW pc, NEW t, NEW n,
           pc = "sched" => Len(s) = 1
    PROVE  OneScheduler(Goto(s, pc, t, n))
<1> DEFINE f == Moved(Last(s), pc, t, n)
<1> DEFINE r == [s EXCEPT ![Len(s)] = f]
<1>1. Len(s) \in 1 .. Len(s) /\ Last(s) = s[Len(s)]
  BY DEF Last
<1>2. f.pc = pc /\ f.kind = s[Len(s)].kind
  BY <1>1 DEF Moved
<1> HIDE DEF f
<1>3. /\ Len(r) = Len(s) /\ r[Len(s)] = f
      /\ \A i \in 1 .. Len(s) : i # Len(s) => r[i] = s[i]
  BY <1>1
<1>4. Goto(s, pc, t, n) = r
  BY DEF Goto, f
<1> HIDE DEF r
<1> QED BY <1>1, <1>2, <1>3, <1>4 DEF OneScheduler

\* A handler comes on top of anything, a task only on top of main.
LEMMA PushCooperates ==
    ASSUME NEW s \in Seq(Frame), OneScheduler(s), NEW f \in Frame,
           f.pc # "sched",
           f.kind = "task" => Len(s) = 1
    PROVE  OneScheduler(Push(s, f))
<1> DEFINE r == Push(s, f)
<1>1. /\ Len(r) = Len(s) + 1 /\ r[Len(s) + 1] = f /\ Len(s) \in Nat
      /\ \A i \in 1 .. Len(s) : r[i] = s[i]
  BY DEF Push
<1> HIDE DEF r
<1>2. ASSUME NEW i \in 1 .. Len(r)
      PROVE  /\ r[i].pc = "sched" => i = 1
             /\ r[i].kind = "task" => i = 2
  <2>1. CASE i \in 1 .. Len(s)
    BY <1>1, <2>1 DEF OneScheduler
  <2>2. CASE i \notin 1 .. Len(s)
    <3>1. i = Len(s) + 1
      BY <1>1, <2>2
    <3>2. r[i] = f
      BY <1>1, <3>1
    <3>3. Len(s) = 1 => i = 2
      BY <3>1
    <3> QED BY <3>2, <3>3
  <2> QED BY <2>1, <2>2
<1>3. OneScheduler(r)
  BY <1>2 DEF OneScheduler
<1> QED BY <1>3 DEF r

\* What is below the top does not change when the top returns.
LEMMA PopCooperates ==
    ASSUME NEW s \in Seq(Frame), Len(s) >= 2, OneScheduler(s)
    PROVE  OneScheduler(Pop(s)) /\ Pop(s) \in Seq(Frame) /\ Len(Pop(s)) = Len(s) - 1
<1> DEFINE r == Pop(s)
<1> DEFINE n == Len(s)
<1>1. n \in Nat /\ n >= 2
  OBVIOUS
<1>2. n - 1 \in Nat /\ n - 1 >= 1
  <2> HIDE DEF n
  <2> QED BY <1>1
<1>3. /\ r \in Seq(Frame) /\ Len(r) = n - 1
      /\ \A i \in 1 .. n - 1 : r[i] = s[i]
  <2>1. r = SubSeq(s, 1, n - 1)
    BY DEF Pop, Front
  <2> HIDE DEF r
  <2> QED BY <1>1, <1>2, <2>1
<1>4. \A i \in 1 .. n - 1 : i \in 1 .. n
  BY <1>1
<1> HIDE DEF r
<1>5. OneScheduler(r)
  BY <1>3, <1>4 DEF OneScheduler
<1> QED BY <1>3, <1>5 DEF r

-----------------------------------------------------------------------------
LEMMA InitCooperates == Init => CInv
<1> SUFFICES ASSUME Init PROVE OneScheduler(stack)
  BY DEF CInv
<1>1. Len(stack) = 1 /\ stack[1].pc = "run" /\ stack[1].kind = "init"
  BY DEF Init, MainFrame
<1> QED BY <1>1 DEF OneScheduler

LEMMA StepCooperates == IInv /\ CInv /\ [Next]_vars => CInv'
<1> SUFFICES ASSUME IInv, ~Preemptive, OneScheduler(stack), [Next]_vars
             PROVE  OneScheduler(stack')
  BY DEF CInv
<1>0. /\ stack \in Seq(Frame) /\ stack # <<>> /\ Len(stack) \in Nat /\ Len(stack) >= 1
      /\ Top = stack[Len(stack)]
      /\ Top.kind = "main" => Len(stack) = 1
      /\ Top.pc = "sched" => Len(stack) = 1
      /\ Top.kind = "task" => Len(stack) = 2
      /\ Top.pc = "iret" => Len(stack) >= 2
  <2>1. /\ stack \in Seq(Frame) /\ stack # <<>> /\ Shape(stack)
        /\ Top = stack[Len(stack)]
    BY TopFrame DEF IInv, StackOK
  <2>2. Len(stack) \in Nat /\ Len(stack) >= 1 /\ Len(stack) \in 1 .. Len(stack)
    BY <2>1
  <2>3. Top.pc = "iret" => Len(stack) # 1
    BY <2>1, <2>2 DEF Shape, FrameOK
  <2> QED BY <2>1, <2>2, <2>3 DEF Shape, OneScheduler
<1>1. AfterUnlock # "sched"
  BY DEF AfterUnlock
<1>2. ASSUME NEW pc, NEW t, NEW n, stack' = Goto(stack, pc, t, n),
             pc = "sched" => Len(stack) = 1
      PROVE  OneScheduler(stack')
  BY <1>0, <1>2, GotoCooperates
<1>3. ASSUME NEW s \in Seq(Frame), OneScheduler(s), Len(s) = 1, NEW t \in Task,
             NEW cur \in Task \cup {NULL}
      PROVE  OneScheduler(Push(s, TaskFrame(t, cur)))
  <2> DEFINE f == TaskFrame(t, cur)
  <2>1. f \in Frame /\ f.pc # "sched"
    BY TopFrame DEF TaskFrame, Frame, Kind, PC
  <2> HIDE DEF f
  <2>2. OneScheduler(Push(s, f))
    BY <1>3, <2>1, PushCooperates
  <2> QED BY <2>2 DEF f
<1>pop. ASSUME Len(stack) >= 2
       PROVE  /\ OneScheduler(Pop(stack)) /\ Pop(stack) \in Seq(Frame)
              /\ Len(Pop(stack)) = Len(stack) - 1
  <2>1. stack \in Seq(Frame) /\ OneScheduler(stack)
    BY <1>0
  <2> QED BY <1>pop, <2>1, PopCooperates
<1>4. ASSUME NEW t \in Task, NEW p \in Priority, CreateTask(t, p)
      PROVE  OneScheduler(stack')
  BY <1>2, <1>4 DEF CreateTask, LockFor
<1>5. CASE CreateInsert
  BY <1>2, <1>5 DEF CreateInsert
<1>6. ASSUME NEW t \in Task, TaskResume(t)
      PROVE  OneScheduler(stack')
  BY <1>2, <1>6 DEF TaskResume, LockFor
<1>7. CASE ResumeInsert
  BY <1>2, <1>7 DEF ResumeInsert
<1>8. ASSUME NEW t \in Task, TaskSuspend(t)
      PROVE  OneScheduler(stack')
  BY <1>8 DEF TaskSuspend
<1>9. CASE SchedulerLock
  BY <1>2, <1>9 DEF SchedulerLock, LockFor
<1>10. CASE SchedulerUnlock \/ OperationUnlock
  <2>1. stack' = Goto(stack, AfterUnlock, NULL, -1)
    BY <1>10 DEF SchedulerUnlock, OperationUnlock, Unlock
  <2> QED BY <1>1, <1>2, <2>1
<1>11. CASE Start
  <2> DEFINE f == MainFrame("main", 0)
  <2>1. f.pc = "run" /\ f.kind = "main"
    BY DEF MainFrame
  <2> HIDE DEF f
  <2>2. /\ stack' = [stack EXCEPT ![Len(stack)] = f]
    BY <1>11 DEF Start, f
  <2> QED BY <1>0, <2>1, <2>2 DEF OneScheduler
<1>12. ASSUME NEW t \in Task, SchedDispatch(t)
       PROVE  OneScheduler(stack')
  <2> DEFINE s == Goto(stack, AfterUnlock, NULL, 0)
  <2>1. OneScheduler(s)
    BY <1>0, <1>1, GotoCooperates
  <2>2. s \in Seq(Frame) /\ Len(s) = 1
    <3>1. StackOK(s, scheduler_depth, current_task, priority, running)
      BY <1>12, SchedReturns DEF SchedDispatch
    <3>2. Len(s) = Len(stack)
      BY <1>0 DEF Goto
    <3> QED BY <1>0, <1>12, <3>1, <3>2 DEF StackOK, SchedDispatch
  <2> HIDE DEF s
  <2>3. stack' = Push(s, TaskFrame(t, current_task))
    BY <1>12 DEF SchedDispatch, s
  <2> QED BY <1>3, <2>1, <2>2, <2>3, TopFrame
<1>13. CASE SchedNothing
  BY <1>1, <1>2, <1>13 DEF SchedNothing
<1>14. ASSUME NEW t \in Task, TaskReturn(t)
       PROVE  OneScheduler(stack')
  <2>0. Len(stack) = 2
    BY <1>0, <1>14 DEF TaskReturn
  <2>1. OneScheduler(Pop(stack)) /\ Pop(stack) \in Seq(Frame) /\ Len(Pop(stack)) = 1
    BY <1>0, <2>0, <1>pop
  <2>2. stack' = Push(Pop(stack), TaskFrame(t, Top.saved))
    BY <1>14 DEF TaskReturn
  <2> QED BY <1>3, <2>1, <2>2, TopFrame
<1>15. CASE TaskReturnLast
  <2>1. Top.kind = "task" /\ stack' = Pop(stack)
    BY <1>15 DEF TaskReturnLast
  <2>2. Len(stack) >= 2
    BY <1>0, <2>1
  <2> QED BY <1>pop, <2>1, <2>2
<1>16. CASE MainLoop
  BY <1>0, <1>2, <1>16 DEF MainLoop
<1>17. CASE InterruptEnter
  <2> DEFINE f == [kind |-> "isr", task |-> NULL, saved |-> current_task, pc |-> "run",
                   arg |-> NULL, locks |-> 1, base |-> scheduler_depth]
  <2>1. f \in Frame /\ f.kind # "task" /\ f.pc # "sched"
    BY TopFrame DEF Frame, Kind, PC
  <2>2. stack' = Push(stack, f)
    BY <1>17 DEF InterruptEnter
  <2> HIDE DEF f
  <2> QED BY <1>0, <2>1, <2>2, PushCooperates
<1>18. CASE InterruptUnlock
  BY <1>2, <1>18 DEF InterruptUnlock
<1>19. CASE InterruptReturn
  <2>1. Top.pc = "iret" /\ stack' = Pop(stack)
    BY <1>19 DEF InterruptReturn
  <2>2. Len(stack) >= 2
    BY <1>0, <2>1
  <2> QED BY <1>pop, <2>1, <2>2
<1>20. CASE UNCHANGED vars
  BY <1>20 DEF vars
<1> QED
  BY <1>4, <1>5, <1>6, <1>7, <1>8, <1>9, <1>10, <1>11, <1>12, <1>13, <1>14, <1>15,
     <1>16, <1>17, <1>18, <1>19, <1>20
  DEF Next

-----------------------------------------------------------------------------
(* The scheduler's choice.                                                   *)

\* A set of naturals below n has a largest element.
LEMMA LargestElement ==
    ASSUME NEW n \in Nat, NEW S \in SUBSET (0 .. n - 1), S # {}
    PROVE  \E p \in S : \A q \in S : q <= p
<1> DEFINE T == {n - p : p \in S}
<1>1. T \in SUBSET Nat /\ T # {}
  <2>1. \A p \in S : n - p \in Nat
    OBVIOUS
  <2>2. PICK p \in S : TRUE
    OBVIOUS
  <2>3. n - p \in T
    OBVIOUS
  <2> QED BY <2>1, <2>3
<1>2. PICK x \in T : \A y \in T : ~ (<<y, x>> \in OpToRel(<, Nat))
  <2> HIDE DEF T
  <2> QED BY <1>1, WFMin, NatLessThanWellFounded
<1>3. \A y \in T : ~ (y < x)
  <2>1. x \in Nat /\ \A y \in T : y \in Nat
    BY <1>1
  <2> HIDE DEF T
  <2> QED BY <1>2, <2>1 DEF OpToRel
<1>4. PICK p \in S : x = n - p
  OBVIOUS
<1>5. ASSUME NEW q \in S PROVE q <= p
  <2>1. n - q \in T /\ p \in Int /\ q \in Int
    OBVIOUS
  <2>2. ~(n - q < n - p)
    BY <1>3, <1>4, <2>1
  <2> QED BY <2>1, <2>2
<1> QED BY <1>5

\* A ready task is on the list of its priority.
LEMMA ReadyTypes ==
    ASSUME IInv, NEW u \in Ready
    PROVE  /\ u \in Task /\ u \in Created
           /\ priority[u] \in Priority /\ priority[u] \in Int
           /\ list[priority[u]] \in Seq(Task) /\ list[priority[u]] # <<>>
<1>1. PICK p \in Priority : OnList(u, p)
  BY DEF Ready
<1>2. p \in ListId /\ list[p] \in Seq(Task)
  BY DEF ListId, IInv, TypeOK
<1>3. priority[u] = p
  BY <1>1, <1>2 DEF OnList, IInv, EachTaskOnOneList
<1>4. list[p] # <<>>
  BY <1>1, <1>2 DEF OnList
<1> QED BY <1>1, <1>2, <1>3, <1>4, PriorityAssumption DEF Ready, Created, Priority

\* The scheduler's choice, with the calls on the stack s not yet returned.
LEMMA ActiveTasks ==
    ASSUME NEW s, NEW cur, NEW run \in SUBSET Task, NEW u \in run,
           StackOK(s, 0, cur, priority, run)
    PROVE  cur \in run /\ cur # NULL /\ priority[u] <= priority[cur]
<1>1. PICK i \in 1 .. Len(s) : s[i].kind = "task" /\ s[i].task = u
  BY DEF StackOK, OnStack
<1>2. Last(s).base \in Nat /\ Last(s).locks \in Nat /\ Last(s) = s[Len(s)]
      /\ Len(s) \in 1 .. Len(s) /\ i <= Len(s) /\ Len(s) \in Nat
  BY <1>1, StackTypes DEF Frame
<1>3. Unlocked(s[Len(s)])
  BY <1>2, StackTypes DEF Unlocked
<1>4. PICK k \in 1 .. Len(s) : /\ s[k].kind = "task"
                               /\ s[k].task = CurrentTaskOf(s[Len(s)])
                               /\ priority[s[i].task] <= priority[s[k].task]
  BY <1>1, <1>2, <1>3 DEF StackOK, Dominates
<1>5. s[k].task = cur
  BY <1>4 DEF StackOK, SavedOK
<1>6. cur \in Task
  BY <1>4, <1>5 DEF StackOK, Shape, FrameOK
<1> QED BY <1>1, <1>4, <1>5, <1>6, NullAssumption DEF StackOK, OnStack

\* get_higher_priority_task() misses no ready task: what it returns is not
\* outranked, and if it returns none nothing outranks the current task.
LEMMA HigherPriorityTaskIsHighest ==
    ASSUME IInv, NEW s, NEW cur \in Task \cup {NULL}, NEW run \in SUBSET Task,
           StackOK(s, 0, cur, priority, run), NEW u \in Ready
    PROVE  LET t == HigherPriorityTask(list, run, cur)
           IN  IF t = NULL THEN priority[u] <= PriorityOf(cur)
                           ELSE priority[u] <= priority[t]
<1> DEFINE above == NonEmptyAbove(list, cur)
<1> DEFINE t == HigherPriorityTask(list, run, cur)
<1>1. u \in Task /\ priority[u] \in Priority /\ priority[u] \in Int
      /\ list[priority[u]] # <<>>
  BY ReadyTypes
<1>2. PriorityOf(cur) \in Int
  BY PriorityAssumption DEF PriorityOf, IInv, TypeOK, Priority
<1>3. CASE priority[u] <= PriorityOf(cur)
  <2>1. t # NULL => priority[t] \in Int /\ priority[t] > PriorityOf(cur)
    BY HigherPriorityTaskIsReady, PriorityAssumption DEF Priority
  <2> HIDE DEF t
  <2>2. t # NULL => priority[u] <= priority[t]
    BY <1>1, <1>2, <1>3, <2>1
  <2> QED BY <1>3, <2>2 DEF t
<1>4. CASE ~(priority[u] <= PriorityOf(cur))
  <2>1. priority[u] \in above
    BY <1>1, <1>2, <1>4 DEF NonEmptyAbove
  <2>2. PICK p \in above : \A q \in above : q <= p
    <3>1. above \in SUBSET (0 .. NUM_PRIORITIES - 1) /\ above # {}
      BY <2>1 DEF NonEmptyAbove, Priority
    <3>2. NUM_PRIORITIES \in Nat
      BY PriorityAssumption
    <3> HIDE DEF above
    <3> QED BY <3>1, <3>2, LargestElement
  <2>3. /\ p \in Priority /\ p \in ListId /\ p > PriorityOf(cur) /\ list[p] # <<>>
        /\ p \in Int
    BY <2>2, PriorityAssumption DEF NonEmptyAbove, ListId, Priority
  <2>4. list[p] \in Seq(Task)
    BY <2>3 DEF IInv, TypeOK
  <2>5. /\ Head(list[p]) = list[p][1] /\ 1 \in 1 .. Len(list[p])
        /\ list[p][1] \in Task
    BY <2>3, <2>4
  <2>6. priority[list[p][1]] = p
    BY <2>3, <2>5 DEF IInv, EachTaskOnOneList
  <2>7. Head(list[p]) \notin run
    <3> SUFFICES ASSUME list[p][1] \in run PROVE FALSE
      BY <2>5
    <3>1. cur # NULL /\ priority[list[p][1]] <= priority[cur]
      BY ActiveTasks
    <3> QED BY <1>2, <2>3, <2>6, <3>1 DEF PriorityOf
  <2>8. p = CHOOSE q \in above : \A o \in above : o <= q
    <3> DEFINE m == CHOOSE q \in above : \A o \in above : o <= q
    <3>1. m \in above /\ \A o \in above : o <= m
      BY <2>2
    <3>2. m \in Int
      BY <3>1, PriorityAssumption DEF NonEmptyAbove, Priority
    <3> HIDE DEF m, above
    <3>3. m <= p /\ p <= m
      BY <2>2, <3>1
    <3>4. m = p
      BY <2>3, <3>2, <3>3
    <3> QED BY <3>4 DEF m
  <2>9. t = list[p][1]
    BY <2>2, <2>5, <2>7, <2>8 DEF HigherPriorityTask
  <2> HIDE DEF t
  <2>10. t # NULL /\ priority[u] <= priority[t]
    BY <2>1, <2>2, <2>5, <2>6, <2>9, NullAssumption
  <2> QED BY <2>10 DEF t
<1> QED BY <1>3, <1>4

-----------------------------------------------------------------------------
(* The refinement.  A list operation changes the readiness of one task, and  *)
(* what librertos_sched() calls may start by the abstract specification.     *)

\* A move between lists changes the readiness of the task that moves only.
LEMMA ReadyAfterMove ==
    ASSUME IInv, NEW t \in Task, NEW l \in ListId,
           l \in Priority => priority[t] = l,
           list' = MoveLast(t, l) \/ list' = MoveFirst(t, l),
           priority' = priority
    PROVE  Ready' = IF l \in Priority THEN Ready \cup {t} ELSE Ready \ {t}
<1>1. OneList(list, priority) /\ list \in [ListId -> Seq(Task)]
  BY DEF IInv, TypeOK, EachTaskOnOneList, OneList
<1> DEFINE new == list'
<1>2. \A u \in Task, k \in ListId :
         Holds(new, k, u) <=> IF u = t THEN k = l ELSE OnList(u, k)
  <2>1. Moves(new, list, t, l) /\ AgreeBut(priority, priority, t)
    BY DEF MoveLast, MoveFirst, Moves, AgreeBut
  <2> HIDE DEF new
  <2>2. \A u \in Task, k \in ListId : OnList(u, k) <=> Holds(list, k, u)
    BY DEF OnList, Holds
  <2>3. \A u \in Task, k \in ListId :
           Holds(new, k, u) <=> IF u = t THEN k = l ELSE Holds(list, k, u)
    BY <1>1, <2>1, MoveKeepsLists
  <2> QED BY <2>2, <2>3
<1>3. \A u \in Task, k \in ListId :
         OnList(u, k)' <=> IF u = t THEN k = l ELSE OnList(u, k)
  BY <1>2 DEF OnList, Holds
<1>4. \A k \in Priority : k \in ListId
  BY DEF ListId
<1> QED BY <1>3, <1>4 DEF Ready

LEMMA ReadyUnchanged == UNCHANGED list => Ready' = Ready
BY DEF Ready, OnList

\* In a cooperative kernel nothing is active when the scheduler is called.
LEMMA CooperativeIdle ==
    ASSUME IInv, CInv, ~Preemptive
    PROVE  /\ Top.pc = "sched" => running = {}
           /\ Top.kind = "task" => running \subseteq {Top.task}
<1>1. OneScheduler(stack) /\ OnStack(stack, running) /\ Shape(stack)
      /\ Top = stack[Len(stack)] /\ Len(stack) \in Nat /\ Len(stack) >= 1
  BY StackTypes, TopFrame DEF CInv, IInv, StackOK
<1>2. ASSUME NEW t \in running
      PROVE  Top.pc # "sched" /\ (Top.kind = "task" => t = Top.task)
  <2>1. PICK i \in 1 .. Len(stack) : stack[i].kind = "task" /\ stack[i].task = t
    BY <1>1 DEF OnStack, IInv, TypeOK
  <2>2. i = 2 /\ Len(stack) >= 2
    BY <1>1, <2>1 DEF OneScheduler
  <2>3. Len(stack) \in 1 .. Len(stack)
    BY <1>1
  <2>4. Top.pc # "sched"
    BY <1>1, <2>2, <2>3 DEF OneScheduler
  <2>5. Top.kind = "task" => Len(stack) = 2
    BY <1>1, <2>3 DEF OneScheduler
  <2> QED BY <1>1, <2>1, <2>2, <2>4, <2>5
<1> QED BY <1>2

\* The task on top of the stack outranks every other active one.
LEMMA TopTaskOutranks ==
    ASSUME IInv, Top.kind = "task"
    PROVE  /\ Top.task \in running
           /\ \A u \in running \ {Top.task} : priority[u] < priority[Top.task]
<1>1. /\ OnStack(stack, running) /\ Nesting(stack, priority) /\ Shape(stack)
      /\ Top = stack[Len(stack)] /\ Len(stack) \in 1 .. Len(stack)
      /\ Len(stack) \in Nat
  BY StackTypes, TopFrame DEF IInv, StackOK
<1>2. Top.task \in running
  BY <1>1 DEF OnStack, Shape, FrameOK
<1>3. ASSUME NEW u \in running, u # Top.task
      PROVE  priority[u] < priority[Top.task]
  <2>1. PICK i \in 1 .. Len(stack) : stack[i].kind = "task" /\ stack[i].task = u
    BY <1>1 DEF OnStack, IInv, TypeOK
  <2>2. i < Len(stack)
    BY <1>1, <1>3, <2>1
  <2> QED BY <1>1, <2>1, <2>2 DEF Nesting
<1> QED BY <1>2, <1>3

\* The task that librertos_sched() calls may start, by the abstract
\* specification, among the active tasks act.
LEMMA ChoiceMayStart ==
    ASSUME IInv, NEW s, NEW cur \in Task \cup {NULL}, NEW act \in SUBSET Task,
           StackOK(s, 0, cur, priority, act), NEW t \in Task,
           t = HigherPriorityTask(list, act, cur),
           act # {} => Preemptive
    PROVE  PS!MayStart(t, act)
<1>1. t # NULL
  BY NullAssumption
<1>2. t \notin act /\ OnList(t, priority[t]) /\ priority[t] \in Priority
      /\ priority[t] > PriorityOf(cur)
  BY <1>1, HigherPriorityTaskIsReady
<1>3. t \in Ready
  BY <1>2 DEF Ready
<1>4. \A u \in Ready : priority[u] <= priority[t]
  BY <1>1, HigherPriorityTaskIsHighest
<1>5. ASSUME NEW u \in act PROVE Preemptive /\ priority[u] < priority[t]
  <2>1. cur \in act /\ cur # NULL /\ priority[u] <= priority[cur]
    BY ActiveTasks
  <2>2. priority[u] \in Int /\ priority[cur] \in Int /\ priority[t] \in Int
    BY <2>1, PriorityAssumption DEF IInv, TypeOK, Priority
  <2>3. priority[t] > priority[cur]
    BY <1>2, <2>1 DEF PriorityOf
  <2> QED BY <2>1, <2>2, <2>3
<1> QED BY <1>2, <1>3, <1>4, <1>5 DEF PS!MayStart

\* The current task of the code on the stack is active: a handler that gave
\* current_task back took it from the frame below.
LEMMA CurrentIsActive ==
    ASSUME NEW s, NEW depth, NEW cur \in Task, NEW run \in SUBSET Task,
           StackOK(s, depth, cur, priority, run)
    PROVE  cur \in run
<1> DEFINE T == {i \in 1 .. Len(s) : CurrentTaskOf(s[i]) \in Task \ run}
<1>1. /\ s \in Seq(Frame) /\ Len(s) \in Nat /\ Len(s) \in 1 .. Len(s)
      /\ cur = CurrentTaskOf(s[Len(s)]) /\ Shape(s) /\ SavedOK(s, cur)
      /\ OnStack(s, run)
  BY DEF StackOK, SavedOK
<1>2. ASSUME NEW i \in T
      PROVE  i - 1 \in T
  <2>1. i \in 1 .. Len(s) /\ CurrentTaskOf(s[i]) \in Task \ run
    OBVIOUS
  <2> HIDE DEF T
  <2>2. ~(s[i].kind = "task")
    BY <1>1, <2>1 DEF OnStack, CurrentTaskOf
  <2>3. s[i].kind = "isr" /\ CurrentTaskOf(s[i]) = s[i].saved
    BY <2>1, <2>2, NullAssumption DEF CurrentTaskOf
  <2>4. i # 1 /\ i \in 2 .. Len(s) /\ i - 1 \in 1 .. Len(s)
    BY <1>1, <2>1, <2>3 DEF Shape
  <2>5. CurrentTaskOf(s[i - 1]) = CurrentTaskOf(s[i])
    BY <1>1, <2>3, <2>4 DEF SavedOK
  <2> QED BY <2>1, <2>4, <2>5 DEF T
<1>3. T \in SUBSET Nat
  BY <1>1
<1>4. T = {}
  <2> HIDE DEF T
  <2> SUFFICES ASSUME T # {} PROVE FALSE
    OBVIOUS
  <2>1. PICK x \in T : \A y \in T : ~ (<<y, x>> \in OpToRel(<, Nat))
    BY <1>3, WFMin, NatLessThanWellFounded
  <2>2. x - 1 \in T
    BY <1>2, <2>1
  <2>3. x \in Nat /\ x - 1 \in Nat
    BY <1>3, <2>1, <2>2
  <2>4. x - 1 < x
    BY <2>3
  <2> QED BY <2>1, <2>2, <2>3, <2>4 DEF OpToRel
<1> QED BY <1>1, <1>4

LEMMA InitRefines == Init => PS!Init
<1> SUFFICES ASSUME Init PROVE PS!Init
  OBVIOUS
<1>1. \A l \in ListId : list[l] = <<>>
  BY DEF Init
<1>2. Ready = {}
  BY <1>1 DEF Ready, OnList, ListId
<1> QED BY <1>2 DEF Init, PS!Init

LEMMA StepRefines == IInv /\ CInv /\ [Next]_vars => [PS!Next]_PS!vars
<1> SUFFICES ASSUME IInv, CInv, [Next]_vars
             PROVE  PS!Next \/ UNCHANGED <<Ready, running, priority>>
  BY DEF PS!vars
<1>0. /\ StackOK(stack, scheduler_depth, current_task, priority, running)
      /\ running \subseteq Created /\ running \in SUBSET Task
      /\ priority \in [Task -> Priority]
  BY DEF IInv, TypeOK
<1>1. ASSUME NEW t \in Task, NEW p \in Priority, CreateTask(t, p)
      PROVE  PS!Next
  <2>1. t \notin Ready \cup running
    BY <1>0, <1>1, ReadyTypes DEF CreateTask
  <2>2. PS!Configure(t, p)
    BY <1>1, <2>1, ReadyUnchanged DEF CreateTask, LockFor, PS!Configure
  <2> QED BY <2>2 DEF PS!Next, Priority
<1>2. CASE CreateInsert
  <2>1. Top.arg \in Task /\ Suspended \in ListId /\ Suspended \notin Priority
    BY <1>2, TopFrame DEF CreateInsert, FrameOK, Suspended, ListId, Priority
  <2>2. PS!Block(Top.arg)
    BY <1>2, <2>1, ReadyAfterMove DEF CreateInsert, PS!Block
  <2> QED BY <2>1, <2>2 DEF PS!Next
<1>3. ASSUME NEW t \in Task, TaskResume(t)
      PROVE  UNCHANGED <<Ready, running, priority>>
  BY <1>3, ReadyUnchanged DEF TaskResume, LockFor
<1>4. CASE ResumeInsert
  <2>1. /\ Top.arg \in Task /\ priority[Top.arg] \in Priority
        /\ priority[Top.arg] \in ListId
    BY <1>0, <1>4, TopFrame DEF ResumeInsert, FrameOK, ListId
  <2>2. PS!Wake(Top.arg)
    BY <1>4, <2>1, ReadyAfterMove DEF ResumeInsert, PS!Wake
  <2> QED BY <2>1, <2>2 DEF PS!Next
<1>5. ASSUME NEW t \in Task, TaskSuspend(t)
      PROVE  PS!Next
  <2>1. Suspended \in ListId /\ Suspended \notin Priority
    BY DEF Suspended, ListId, Priority
  <2>2. PS!Block(t)
    BY <1>5, <2>1, ReadyAfterMove DEF TaskSuspend, PS!Block
  <2> QED BY <2>2 DEF PS!Next
<1>6. CASE SchedulerLock
  BY <1>6, ReadyUnchanged DEF SchedulerLock, LockFor
<1>7. CASE SchedulerUnlock \/ OperationUnlock
  BY <1>7, ReadyUnchanged DEF SchedulerUnlock, OperationUnlock, Unlock
<1>8. CASE Start
  BY <1>8, ReadyUnchanged DEF Start
<1>9. ASSUME NEW t \in Task, SchedDispatch(t)
      PROVE  PS!Next
  <2>1. scheduler_depth = 0 /\ Top.pc = "sched"
    BY <1>9, TopFrame DEF SchedDispatch, FrameOK
  <2>2. PS!MayStart(t, running)
    BY <1>0, <1>9, <2>1, TopFrame, CooperativeIdle, ChoiceMayStart
    DEF SchedDispatch
  <2>3. t \in Ready /\ priority[t] \in Priority /\ priority[t] \in ListId
    BY <1>0, <2>2 DEF PS!MayStart, ListId
  <2>4. Ready' = Ready
    BY <1>9, <2>3, ReadyAfterMove DEF SchedDispatch, Dispatch
  <2>5. PS!Start(t)
    BY <1>9, <2>2, <2>4 DEF SchedDispatch, Dispatch, PS!Start
  <2> QED BY <2>5 DEF PS!Next
<1>10. CASE SchedNothing
  BY <1>10, ReadyUnchanged DEF SchedNothing
<1>11. ASSUME Top.kind = "task", Top.locks = 0
       PROVE  /\ StackOK(Pop(stack), 0, Top.saved, priority, running \ {Top.task})
              /\ PS!MayReturn(Top.task) /\ Top.task \in Task
              /\ Top.saved \in Task \cup {NULL}
              /\ running \ {Top.task} # {} => Preemptive
  <2>1. scheduler_depth = 0 /\ Top = Last(stack)
    BY <1>11, TopFrame DEF Top, FrameOK
  <2>2. StackOK(Pop(stack), scheduler_depth, Last(stack).saved, priority,
                IF Last(stack).kind = "task" THEN running \ {Last(stack).task}
                                             ELSE running)
    BY <1>0, <1>11, <2>1, PopKeepsStack
  <2>3. PS!MayReturn(Top.task) /\ Top.task \in Task
    BY <1>0, <1>11, TopTaskOutranks DEF PS!MayReturn
  <2>4. running \ {Top.task} # {} => Preemptive
    BY <1>11, CooperativeIdle
  <2> QED BY <1>11, <2>1, <2>2, <2>3, <2>4, TopFrame
<1>12. ASSUME NEW t \in Task, TaskReturn(t)
       PROVE  PS!Next
  <2>1. PS!MayReturn(Top.task) /\ Top.task \in Task
    BY <1>11, <1>12 DEF TaskReturn
  <2>2. PS!MayStart(t, running \ {Top.task})
    <3>1. running \ {Top.task} \in SUBSET Task
      BY <1>0
    <3> QED BY <1>11, <1>12, <3>1, ChoiceMayStart DEF TaskReturn
  <2>3. t \in Ready /\ priority[t] \in Priority /\ priority[t] \in ListId
    BY <1>0, <2>2 DEF PS!MayStart, ListId
  <2>4. Ready' = Ready
    BY <1>12, <2>3, ReadyAfterMove DEF TaskReturn, Dispatch
  <2>5. PS!ReturnAndStart(Top.task, t)
    BY <1>12, <2>1, <2>2, <2>4 DEF TaskReturn, Dispatch, PS!ReturnAndStart
  <2> QED BY <2>1, <2>5 DEF PS!Next
<1>13. CASE TaskReturnLast
  <2>1. PS!MayReturn(Top.task) /\ Top.task \in Task
    BY <1>11, <1>13 DEF TaskReturnLast
  <2>2. Ready' = Ready
    BY <1>13, ReadyUnchanged DEF TaskReturnLast
  <2>3. ASSUME NEW u \in Ready
        PROVE  \E v \in running \ {Top.task} : priority[u] <= priority[v]
    <3>1. running \ {Top.task} \in SUBSET Task
      BY <1>0
    <3>2. priority[u] <= PriorityOf(Top.saved)
      BY <1>11, <1>13, <3>1, HigherPriorityTaskIsHighest DEF TaskReturnLast
    <3>3. Top.saved # NULL
      <4>1. priority[u] \in Nat
        BY ReadyTypes, PriorityAssumption DEF Priority
      <4> QED BY <3>2, <4>1 DEF PriorityOf
    <3>4. Top.saved \in running \ {Top.task}
      <4>1. StackOK(Pop(stack), 0, Top.saved, priority, running \ {Top.task})
        BY <1>11, <1>13 DEF TaskReturnLast
      <4>2. running \ {Top.task} \in SUBSET Task /\ Top.saved \in Task
        BY <1>0, <1>11, <1>13, <3>3 DEF TaskReturnLast
      <4> QED BY <4>1, <4>2, CurrentIsActive
    <3> QED BY <3>2, <3>3, <3>4 DEF PriorityOf
  <2>4. PS!Return(Top.task)
    BY <1>13, <2>1, <2>2, <2>3 DEF TaskReturnLast, PS!Return
  <2> QED BY <2>1, <2>4 DEF PS!Next
<1>14. CASE MainLoop
  BY <1>14, ReadyUnchanged DEF MainLoop
<1>15. CASE InterruptEnter
  BY <1>15, ReadyUnchanged DEF InterruptEnter
<1>16. CASE InterruptUnlock
  BY <1>16, ReadyUnchanged DEF InterruptUnlock
<1>17. CASE InterruptReturn
  BY <1>17, ReadyUnchanged DEF InterruptReturn
<1>18. CASE UNCHANGED vars
  BY <1>18, ReadyUnchanged DEF vars
<1> QED
  BY <1>1, <1>2, <1>3, <1>4, <1>5, <1>6, <1>7, <1>8, <1>9, <1>10, <1>12, <1>13,
     <1>14, <1>15, <1>16, <1>17, <1>18
  DEF Next

-----------------------------------------------------------------------------
(* A preemptive kernel.  The invariant follows the request to preempt from   *)
(* the resume that made it, through the locks and handlers that postpone it, *)
(* to the unlock that serves it.                                             *)

\* The active tasks that a ready task outranks.
Outranked == {t \in running : \E u \in Ready : priority[u] > priority[t]}

\* Whom scheduler_unlock() by frame f, when it unlocks everything, makes the
\* current task of librertos_sched(): a handler unlocks for what it interrupted.
Unlocks(f) == IF f.kind = "isr" THEN f.saved ELSE f.task

\* The request to preempt is kept as long as an unlock of a frame of s has to
\* serve it.
Requested(s, flag, out) ==
    \A i \in 1 .. Len(s) :
        s[i].base = 0 /\ s[i].locks > 0 /\ Unlocks(s[i]) \in out => flag

\* A current task that may be preempted is about to be.
Served(s, depth, cur, flag, out) ==
    depth = 0 /\ cur \in out => flag /\ Last(s).pc = "sched"

NInv ==
    Preemptive =>
        /\ Requested(stack, higher_priority_task_ready, Outranked)
        /\ Served(stack, scheduler_depth, current_task,
                  higher_priority_task_ready, Outranked)

-----------------------------------------------------------------------------
\* With nothing locked, no frame holds a lock.
LEMMA DepthZero ==
    ASSUME NEW s, NEW cur, NEW prio, NEW run, StackOK(s, 0, cur, prio, run),
           NEW i \in 1 .. Len(s)
    PROVE  s[i].locks = 0
<1>1. /\ Len(s) \in Nat /\ Len(s) \in 1 .. Len(s) /\ s[Len(s)] \in Frame
      /\ s[i] \in Frame
      /\ s[Len(s)].base + s[Len(s)].locks = 0
  BY StackTypes DEF StackOK
<1>2. /\ s[i].base \in Nat /\ s[i].locks \in Nat
      /\ s[Len(s)].base \in Nat /\ s[Len(s)].locks \in Nat
  BY <1>1 DEF Frame
<1>3. CASE i = Len(s)
  BY <1>1, <1>2, <1>3
<1>4. CASE i # Len(s)
  <2>1. s[Len(s)].base >= s[i].base + s[i].locks
    BY <1>1, <1>4 DEF StackOK, Grows
  <2> QED BY <1>1, <1>2, <2>1
<1> QED BY <1>3, <1>4

\* librertos_sched() leaves nothing to be preempted for.
LEMMA ScheduledServes ==
    ASSUME NEW s, NEW cur, NEW prio, NEW run, NEW flag, NEW out,
           StackOK(s, 0, cur, prio, run), cur \notin out
    PROVE  Requested(s, flag, out) /\ Served(s, 0, cur, flag, out)
<1>1. ASSUME NEW i \in 1 .. Len(s), s[i].locks > 0 PROVE FALSE
  <2>1. s[i].locks = 0
    BY DepthZero
  <2> QED BY <1>1, <2>1
<1> QED BY <1>1 DEF Requested, Served

\* The top frame goes on, holding n more locks.
LEMMA GotoRequests ==
    ASSUME NEW s \in Seq(Frame), s # <<>>, NEW pc, NEW t, NEW n,
           NEW flag, NEW out,
           Requested(s, flag, out),
           Last(s).base = 0 /\ Last(s).locks + n > 0 /\ Unlocks(Last(s)) \in out
              => flag
    PROVE  Requested(Goto(s, pc, t, n), flag, out)
<1> DEFINE f == Moved(Last(s), pc, t, n)
<1> DEFINE r == [s EXCEPT ![Len(s)] = f]
<1>1. Len(s) \in 1 .. Len(s) /\ Last(s) = s[Len(s)]
  BY DEF Last
<1>2. f.base = Last(s).base /\ f.locks = Last(s).locks + n
      /\ Unlocks(f) = Unlocks(Last(s))
  BY DEF Moved, Unlocks
<1> HIDE DEF f
<1>3. /\ Len(r) = Len(s) /\ r[Len(s)] = f
      /\ \A i \in 1 .. Len(s) : i # Len(s) => r[i] = s[i]
  BY <1>1
<1>4. Goto(s, pc, t, n) = r
  BY DEF Goto, f
<1> HIDE DEF r
<1> QED BY <1>1, <1>2, <1>3, <1>4 DEF Requested

\* What is outranked depends on the ready tasks and the active ones.
LEMMA OutrankedLess ==
    ASSUME Ready' \subseteq Ready, running' \subseteq running, priority' = priority
    PROVE  Outranked' \subseteq Outranked
BY DEF Outranked

LEMMA RequestedLess ==
    ASSUME NEW s, NEW flag, NEW out, NEW less, less \subseteq out,
           Requested(s, flag, out)
    PROVE  Requested(s, flag, less)
BY DEF Requested

\* The task that an unlock by the top frame serves, if there is one, is the
\* current task.
LEMMA TopUnlocks ==
    ASSUME IInv, current_task # NULL
    PROVE  Unlocks(Top) = current_task
BY TopFrame DEF CurrentTaskOf, Unlocks

LEMMA OutrankedTypes ==
    ASSUME IInv
    PROVE  Outranked \subseteq running /\ NULL \notin Outranked
           /\ stack \in Seq(Frame) /\ stack # <<>> /\ Top = Last(stack)
           /\ Len(stack) \in Nat /\ Len(stack) \in 1 .. Len(stack)
BY NullAssumption, StackTypes DEF Outranked, IInv, TypeOK, StackOK, Top

\* scheduler_lock(): no task that nothing outranked has missed a request.
LEMMA LockRequests ==
    ASSUME IInv, Preemptive, NInv, InUserCode, NEW pc, NEW t, LockFor(pc, t),
           Outranked' = Outranked
    PROVE  NInv'
<1>1. Requested(stack', higher_priority_task_ready, Outranked)
  <2>1. ASSUME Top.base = 0, Unlocks(Top) \in Outranked
        PROVE  higher_priority_task_ready
    <3>1. CASE Top.locks > 0
      BY <2>1, <3>1, OutrankedTypes, TopFrame DEF NInv, Requested
    <3>2. CASE Top.locks = 0
      <4>1. scheduler_depth = 0 /\ Top.pc = "run" /\ Top.kind # "isr"
        BY <2>1, <3>2, TopFrame DEF InUserCode, FrameOK, LocksOfFrame
      <4>2. Unlocks(Top) = current_task
        BY <2>1, <4>1, TopFrame, OutrankedTypes
        DEF Unlocks, CurrentTaskOf, FrameOK, Kind
      <4> QED BY <2>1, <4>1, <4>2, OutrankedTypes DEF NInv, Served
    <3> QED BY <3>1, <3>2, TopFrame
  <2> QED BY <2>1, GotoRequests, OutrankedTypes DEF NInv, LockFor
<1>2. scheduler_depth' # 0
  BY TopFrame DEF LockFor
<1> QED BY <1>1, <1>2 DEF NInv, Served, LockFor

\* scheduler_unlock(): the last one enters librertos_sched() if a request is left.
LEMMA UnlockServes ==
    ASSUME IInv, Preemptive, NInv, SchedulerUnlock \/ OperationUnlock
    PROVE  NInv'
<1>0. Unlock /\ Top.locks >= 1 /\ Outranked' = Outranked
  <2>1. Unlock
    BY DEF SchedulerUnlock, OperationUnlock
  <2>2. Top.locks >= 1
    BY TopFrame DEF SchedulerUnlock, OperationUnlock, FrameOK, LocksOfFrame
  <2> QED BY <2>1, <2>2, ReadyUnchanged DEF Unlock, Outranked
<1> DEFINE pc == IF Preemptive /\ scheduler_depth = 1 /\ higher_priority_task_ready
                 THEN "sched" ELSE AfterUnlock
<1>1. stack' = Goto(stack, pc, NULL, -1)
  BY <1>0 DEF Unlock
<1>2. Last(stack').pc = pc
  <2> HIDE DEF pc
  <2> QED BY <1>1, OutrankedTypes DEF Goto, Moved, Last
<1>3. Top.base = 0 /\ Unlocks(Top) \in Outranked => higher_priority_task_ready
  BY <1>0, TopFrame, OutrankedTypes DEF NInv, Requested
<1>4. Requested(stack', higher_priority_task_ready', Outranked')
  <2> HIDE DEF pc
  <2> QED BY <1>0, <1>1, <1>3, GotoRequests, OutrankedTypes DEF NInv, Unlock
<1>5. Served(stack', scheduler_depth', current_task', higher_priority_task_ready',
             Outranked')
  <2> SUFFICES ASSUME scheduler_depth' = 0, current_task' \in Outranked'
               PROVE  higher_priority_task_ready' /\ Last(stack').pc = "sched"
    BY DEF Served
  <2>1. scheduler_depth = 1 /\ current_task \in Outranked
    BY <1>0, TopFrame DEF Unlock
  <2>2. Top.base = 0
    BY <1>0, <2>1, TopFrame
  <2>3. Unlocks(Top) \in Outranked
    BY <2>1, TopUnlocks, OutrankedTypes
  <2>4. higher_priority_task_ready
    BY <1>3, <2>2, <2>3
  <2> QED BY <1>0, <1>2, <2>1, <2>4 DEF Unlock
<1> QED BY <1>4, <1>5 DEF NInv

\* Main is never preempted by name: it has no current task.
LEMMA IdleServes ==
    ASSUME IInv', Preemptive, scheduler_depth' = 0, current_task' = NULL
    PROVE  NInv'
<1>1. StackOK(stack', 0, current_task', priority', running')
  BY DEF IInv
<1>2. current_task' \notin Outranked'
  BY NullAssumption DEF Outranked, IInv, TypeOK
<1>3. /\ Requested(stack', higher_priority_task_ready', Outranked')
      /\ Served(stack', 0, current_task', higher_priority_task_ready', Outranked')
  BY <1>1, <1>2, ScheduledServes
<1> QED BY <1>3 DEF NInv

\* librertos_sched() found none above the task that is current again.
LEMMA NothingServes ==
    ASSUME IInv, IInv', Preemptive, scheduler_depth = 0, scheduler_depth' = 0,
           UNCHANGED list, UNCHANGED priority,
           \A u \in Ready : priority[u] <= PriorityOf(current_task')
    PROVE  NInv'
<1>1. Ready' = Ready
  BY ReadyUnchanged
<1>2. \A u \in Ready : priority[u] \in Int
  BY ReadyTypes
<1>3. current_task' # NULL => priority[current_task'] \in Int
  BY PriorityAssumption DEF IInv, TypeOK, Priority
<1>4. current_task' \notin Outranked'
  <2> SUFFICES ASSUME current_task' \in running', NEW u \in Ready,
                      priority[u] > priority[current_task']
               PROVE  FALSE
    BY <1>1 DEF Outranked
  <2>1. current_task' # NULL
    BY NullAssumption DEF IInv, TypeOK
  <2>2. priority[u] <= priority[current_task']
    BY <2>1 DEF PriorityOf
  <2> QED BY <1>2, <1>3, <2>1, <2>2
<1>5. StackOK(stack', 0, current_task', priority', running')
  BY DEF IInv
<1>6. /\ Requested(stack', higher_priority_task_ready', Outranked')
      /\ Served(stack', 0, current_task', higher_priority_task_ready', Outranked')
  BY <1>4, <1>5, ScheduledServes
<1> QED BY <1>6 DEF NInv

\* librertos_sched() called t, which no ready task outranks.
LEMMA DispatchServes ==
    ASSUME IInv, IInv', Preemptive, NEW t \in Task, Dispatch(t),
           scheduler_depth = 0, OnList(t, priority[t]), priority[t] \in Priority,
           \A u \in Ready : priority[u] <= priority[t]
    PROVE  NInv'
<1>1. t \in Ready /\ priority[t] \in ListId /\ priority[t] \in Int
  BY PriorityAssumption DEF Ready, ListId, Priority
<1>2. Ready' = Ready /\ scheduler_depth' = 0 /\ current_task' = t
      /\ priority' = priority
  BY <1>1, ReadyAfterMove DEF Dispatch
<1>3. \A u \in Ready : priority[u] \in Int
  BY ReadyTypes
<1>4. current_task' \notin Outranked'
  BY <1>1, <1>2, <1>3 DEF Outranked
<1>5. StackOK(stack', 0, current_task', priority', running')
  BY <1>2 DEF IInv
<1>6. /\ Requested(stack', higher_priority_task_ready', Outranked')
      /\ Served(stack', 0, current_task', higher_priority_task_ready', Outranked')
  BY <1>4, <1>5, ScheduledServes
<1> QED BY <1>2, <1>6 DEF NInv

\* The handler served the request before it returns.
LEMMA ReturnServes ==
    ASSUME IInv, IInv', NInv, Preemptive, InterruptReturn
    PROVE  NInv'
<1> DEFINE r == Pop(stack)
<1>1. Outranked' = Outranked
  BY ReadyUnchanged DEF InterruptReturn, Outranked
<1>2. Len(r) = Len(stack) - 1 /\ \A i \in 1 .. Len(r) : i \in 1 .. Len(stack) /\ r[i] = stack[i]
  <2> DEFINE n == Len(stack)
  <2>1. r = SubSeq(stack, 1, n - 1)
    BY DEF Pop, Front
  <2>2. n \in Nat /\ n >= 1 /\ stack \in Seq(Frame) /\ n = Len(stack)
    BY OutrankedTypes
  <2>3. n - 1 \in Nat
    BY <2>2
  <2> HIDE DEF r, n
  <2>4. Len(r) = n - 1 /\ \A i \in 1 .. n - 1 : r[i] = stack[i]
    BY <2>1, <2>2, <2>3
  <2>5. \A i \in 1 .. n - 1 : i \in 1 .. n
    BY <2>2
  <2> QED BY <2>2, <2>4, <2>5
<1>3. stack' = r
  BY DEF InterruptReturn
<1> HIDE DEF r
<1>4. Requested(r, higher_priority_task_ready, Outranked)
  BY <1>2 DEF NInv, Requested
<1>5. ~(scheduler_depth = 0 /\ current_task \in Outranked)
  BY OutrankedTypes DEF NInv, Served, InterruptReturn
<1> QED BY <1>1, <1>3, <1>4, <1>5 DEF NInv, Served, InterruptReturn

LEMMA InitRequests == Init => NInv
<1> SUFFICES ASSUME Init PROVE NInv
  OBVIOUS
<1>1. Outranked = {} /\ scheduler_depth # 0
  BY DEF Init, Outranked
<1> QED BY <1>1 DEF NInv, Requested, Served

\* An operation that goes on under its lock, when nothing more is outranked.
LEMMA LockedStep ==
    ASSUME IInv, NInv, Preemptive, NEW pc, NEW t,
           stack' = Goto(stack, pc, t, 0), scheduler_depth' = scheduler_depth,
           Top.locks > 0, Outranked' \subseteq Outranked,
           higher_priority_task_ready' = higher_priority_task_ready
    PROVE  NInv'
<1>1. Top.locks + 0 = Top.locks /\ scheduler_depth # 0
  BY TopFrame
<1>2. Requested(stack, higher_priority_task_ready, Outranked')
  BY RequestedLess DEF NInv
<1>3. Top.base = 0 /\ Top.locks + 0 > 0 /\ Unlocks(Top) \in Outranked'
         => higher_priority_task_ready
  BY <1>1, <1>2, OutrankedTypes, TopFrame DEF Requested
<1>4. Requested(Goto(stack, pc, t, 0), higher_priority_task_ready, Outranked')
  BY <1>2, <1>3, GotoRequests, OutrankedTypes
<1> QED BY <1>1, <1>4 DEF NInv, Served

\* task_resume(): a new ready task outranks someone the frames have to preempt
\* only if it outranks the current task.
LEMMA ResumeRequests ==
    ASSUME IInv, NInv, Preemptive, ResumeInsert
    PROVE  NInv'
<1> DEFINE a == Top.arg
<1> DEFINE flag == higher_priority_task_ready'
<1>1. a \in Task /\ priority[a] \in Priority /\ priority[a] \in ListId
      /\ priority[a] \in Int /\ Top.locks > LocksOfFrame(Top.kind)
      /\ \A x \in Task : priority[x] \in Int
  BY TopFrame, PriorityAssumption DEF ResumeInsert, FrameOK, ListId, Priority
<1>2. Ready' = Ready \cup {a} /\ running' = running /\ priority' = priority
  BY <1>1, ReadyAfterMove DEF ResumeInsert
<1>3. ASSUME NEW i \in 1 .. Len(stack), stack[i].base = 0, stack[i].locks > 0,
             Unlocks(stack[i]) \in Outranked'
      PROVE  flag
  <2> DEFINE x == Unlocks(stack[i])
  <2>1. CASE x \in Outranked
    BY <1>3, <2>1 DEF NInv, Requested, ResumeInsert
  <2>2. CASE x \notin Outranked
    <3>1. x \in running /\ x \in Task /\ priority[a] > priority[x]
      BY <1>2, <1>3, <2>2 DEF Outranked, IInv, TypeOK
    <3>2. PriorityOf(current_task) = -1 \/ PriorityOf(current_task) = priority[x]
      <4>1. CASE i = Len(stack)
        <5>1. current_task = NULL \/ current_task = x
          BY <4>1, TopFrame, TopUnlocks
        <5> QED BY <5>1 DEF PriorityOf
      <4>2. CASE i # Len(stack)
        <5>0. Grows(stack) /\ stack[i] \in Frame /\ i < Len(stack)
              /\ Len(stack) \in 1 .. Len(stack)
          BY <4>2, OutrankedTypes DEF IInv, StackOK
        <5>1. Top.base >= stack[i].base + stack[i].locks
          BY <5>0, TopFrame DEF Grows
        <5>2. stack[i].locks \in Nat
          BY <5>0 DEF Frame
        <5>3. Top.base > 0
          BY <1>3, <5>1, <5>2, TopFrame
        <5>4. Top.kind = "isr" /\ Top.pc = "resume"
          BY <5>3, TopFrame DEF FrameOK, Kind, ResumeInsert
        <5> QED BY <5>4, TopFrame DEF CurrentTaskOf, PriorityOf
      <4> QED BY <4>1, <4>2
    <3>3. priority[a] > -1
      BY <1>1, PriorityAssumption DEF Priority
    <3>4. priority[a] > PriorityOf(current_task)
      BY <3>1, <3>2, <3>3
    <3> QED BY <3>4 DEF ResumeInsert
  <2> QED BY <2>1, <2>2
<1>4. Requested(stack, flag, Outranked')
  <2> HIDE DEF flag
  <2> QED BY <1>3 DEF Requested
<1>5. Top.locks > 0
  BY <1>1, TopFrame DEF LocksOfFrame
<1>6. Top.base = 0 /\ Top.locks + 0 > 0 /\ Unlocks(Top) \in Outranked' => flag
  <2> HIDE DEF flag
  <2> QED BY <1>4, <1>5, OutrankedTypes, TopFrame DEF Requested
<1>7. Requested(stack', flag, Outranked')
  <2>1. stack' = Goto(stack, "unlock", NULL, 0)
    BY DEF ResumeInsert
  <2> HIDE DEF flag
  <2> QED BY <1>4, <1>6, <2>1, GotoRequests, OutrankedTypes
<1>8. scheduler_depth' # 0
  BY <1>5, TopFrame DEF ResumeInsert
<1> QED BY <1>7, <1>8 DEF NInv, Served

\* interrupt_lock(): the handler takes over the request of what it interrupts.
LEMMA InterruptRequests ==
    ASSUME IInv, NInv, Preemptive, InterruptEnter
    PROVE  NInv'
<1> DEFINE f == [kind |-> "isr", task |-> NULL, saved |-> current_task, pc |-> "run",
                 arg |-> NULL, locks |-> 1, base |-> scheduler_depth]
<1> DEFINE r == Push(stack, f)
<1>1. f.base = scheduler_depth /\ Unlocks(f) = current_task
  BY DEF Unlocks
<1>2. stack' = r /\ scheduler_depth' # 0 /\ Outranked' = Outranked
      /\ higher_priority_task_ready' = higher_priority_task_ready
  BY TopFrame, ReadyUnchanged DEF InterruptEnter, Outranked
<1> HIDE DEF f
<1>3. /\ Len(r) = Len(stack) + 1 /\ r[Len(stack) + 1] = f
      /\ \A i \in 1 .. Len(stack) : r[i] = stack[i]
      /\ \A i \in 1 .. Len(r) : i \in 1 .. Len(stack) \/ i = Len(stack) + 1
  BY OutrankedTypes DEF Push
<1> HIDE DEF r
<1>4. Requested(r, higher_priority_task_ready, Outranked)
  <2> SUFFICES ASSUME NEW i \in 1 .. Len(r), r[i].base = 0, r[i].locks > 0,
                      Unlocks(r[i]) \in Outranked
               PROVE  higher_priority_task_ready
    BY DEF Requested
  <2>1. CASE i \in 1 .. Len(stack)
    BY <1>3, <2>1 DEF NInv, Requested
  <2>2. CASE i = Len(stack) + 1
    BY <1>1, <1>3, <2>2 DEF NInv, Served
  <2> QED BY <1>3, <2>1, <2>2
<1> QED BY <1>2, <1>4 DEF NInv, Served

LEMMA StepRequests == IInv /\ IInv' /\ NInv /\ [Next]_vars => NInv'
<1> SUFFICES ASSUME IInv, IInv', NInv, Preemptive, [Next]_vars PROVE NInv'
  BY DEF NInv
<1>0. /\ StackOK(stack, scheduler_depth, current_task, priority, running)
      /\ running \subseteq Created /\ running \in SUBSET Task
      /\ priority \in [Task -> Priority] /\ current_task \in Task \cup {NULL}
  BY DEF IInv, TypeOK
<1>1. ASSUME NEW t \in Task, NEW p \in Priority, CreateTask(t, p)
      PROVE  NInv'
  <2>1. t \notin Ready \cup running
    BY <1>0, <1>1, ReadyTypes DEF CreateTask
  <2>2. Ready' = Ready /\ running' = running
        /\ \A u \in Ready \cup running : priority'[u] = priority[u]
    BY <1>0, <1>1, <2>1, ReadyUnchanged DEF CreateTask, LockFor, Ready
  <2>3. Outranked' = Outranked
    BY <2>2 DEF Outranked
  <2> QED BY <1>1, <2>3, LockRequests DEF CreateTask
<1>2. CASE CreateInsert
  <2>1. Top.arg \in Task /\ Suspended \in ListId /\ Suspended \notin Priority
        /\ Top.locks > 0
    BY <1>2, TopFrame DEF CreateInsert, FrameOK, Suspended, ListId, Priority, LocksOfFrame
  <2>2. Ready' = Ready \ {Top.arg}
    BY <1>2, <2>1, ReadyAfterMove DEF CreateInsert
  <2>3. Outranked' \subseteq Outranked
    BY <1>2, <2>2, OutrankedLess DEF CreateInsert
  <2> QED BY <1>2, <2>1, <2>3, LockedStep DEF CreateInsert
<1>3. ASSUME NEW t \in Task, TaskResume(t)
      PROVE  NInv'
  <2>1. Outranked' = Outranked
    BY <1>3, ReadyUnchanged DEF TaskResume, LockFor, Outranked
  <2> QED BY <1>3, <2>1, LockRequests DEF TaskResume
<1>4. CASE ResumeInsert
  BY <1>4, ResumeRequests
<1>5. ASSUME NEW t \in Task, TaskSuspend(t)
      PROVE  NInv'
  <2>1. Suspended \in ListId /\ Suspended \notin Priority
    BY DEF Suspended, ListId, Priority
  <2>2. Ready' = Ready \ {t}
    BY <1>5, <2>1, ReadyAfterMove DEF TaskSuspend
  <2>3. Outranked' \subseteq Outranked
    BY <1>5, <2>2, OutrankedLess DEF TaskSuspend
  <2> QED BY <1>5, <2>3 DEF TaskSuspend, NInv, Requested, Served
<1>6. CASE SchedulerLock
  <2>1. Outranked' = Outranked
    BY <1>6, ReadyUnchanged DEF SchedulerLock, LockFor, Outranked
  <2> QED BY <1>6, <2>1, LockRequests DEF SchedulerLock
<1>7. CASE SchedulerUnlock \/ OperationUnlock
  BY <1>7, UnlockServes
<1>8. CASE Start
  <2>1. current_task = NULL
    BY <1>8, TopFrame DEF Start, FrameOK, CurrentTaskOf
  <2> QED BY <1>8, <2>1, IdleServes DEF Start
<1>9. ASSUME NEW t \in Task, SchedDispatch(t)
      PROVE  NInv'
  <2>1. scheduler_depth = 0 /\ t # NULL
    BY <1>9, TopFrame, NullAssumption DEF SchedDispatch, FrameOK
  <2>2. t = HigherPriorityTask(list, running, current_task)
    BY <1>9 DEF SchedDispatch
  <2>3. \A u \in Ready : priority[u] <= priority[t]
    BY <1>0, <2>1, <2>2, HigherPriorityTaskIsHighest
  <2>4. OnList(t, priority[t]) /\ priority[t] \in Priority
    BY <1>0, <2>1, <2>2, HigherPriorityTaskIsReady
  <2> QED BY <1>9, <2>1, <2>3, <2>4, DispatchServes DEF SchedDispatch
<1>10. CASE SchedNothing
  <2>1. scheduler_depth = 0
    BY <1>10, TopFrame DEF SchedNothing, FrameOK
  <2>2. \A u \in Ready : priority[u] <= PriorityOf(current_task)
    BY <1>0, <1>10, <2>1, HigherPriorityTaskIsHighest DEF SchedNothing
  <2> QED BY <1>10, <2>1, <2>2, NothingServes DEF SchedNothing
<1>11. ASSUME Top.kind = "task", Top.locks = 0
       PROVE  /\ StackOK(Pop(stack), 0, Top.saved, priority, running \ {Top.task})
              /\ Top.saved \in Task \cup {NULL} /\ scheduler_depth = 0
              /\ running \ {Top.task} \in SUBSET Task
  <2>1. scheduler_depth = 0 /\ Top = Last(stack)
    BY <1>11, TopFrame DEF Top, FrameOK
  <2>2. StackOK(Pop(stack), scheduler_depth, Last(stack).saved, priority,
                IF Last(stack).kind = "task" THEN running \ {Last(stack).task}
                                             ELSE running)
    BY <1>0, <1>11, <2>1, PopKeepsStack
  <2> QED BY <1>0, <1>11, <2>1, <2>2, TopFrame
<1>12. ASSUME NEW t \in Task, TaskReturn(t)
       PROVE  NInv'
  <2>1. t = HigherPriorityTask(list, running \ {Top.task}, Top.saved) /\ t # NULL
    BY <1>12 DEF TaskReturn
  <2>2. \A u \in Ready : priority[u] <= priority[t]
    BY <1>11, <1>12, <2>1, HigherPriorityTaskIsHighest DEF TaskReturn
  <2>3. OnList(t, priority[t]) /\ priority[t] \in Priority
    BY <1>11, <1>12, <2>1, HigherPriorityTaskIsReady DEF TaskReturn
  <2> QED BY <1>11, <1>12, <2>1, <2>2, <2>3, DispatchServes DEF TaskReturn
<1>13. CASE TaskReturnLast
  <2>1. \A u \in Ready : priority[u] <= PriorityOf(Top.saved)
    BY <1>11, <1>13, HigherPriorityTaskIsHighest DEF TaskReturnLast
  <2> QED BY <1>11, <1>13, <2>1, NothingServes DEF TaskReturnLast
<1>14. CASE MainLoop
  <2>1. current_task = NULL /\ scheduler_depth = 0
    BY <1>14, TopFrame DEF MainLoop, FrameOK, CurrentTaskOf
  <2> QED BY <1>14, <2>1, IdleServes DEF MainLoop
<1>15. CASE InterruptEnter
  BY <1>15, InterruptRequests
<1>16. CASE InterruptUnlock
  <2>1. Outranked' \subseteq Outranked
    BY <1>16, ReadyUnchanged DEF InterruptUnlock, Outranked
  <2> QED BY <1>16, <2>1, LockedStep DEF InterruptUnlock
<1>17. CASE InterruptReturn
  BY <1>17, ReturnServes
<1>18. CASE UNCHANGED vars
  <2>1. Outranked' = Outranked
    BY <1>18, ReadyUnchanged DEF vars, Outranked
  <2> QED BY <1>18, <2>1 DEF vars, NInv
<1> QED
  BY <1>1, <1>2, <1>3, <1>4, <1>5, <1>6, <1>7, <1>8, <1>9, <1>10, <1>12, <1>13,
     <1>14, <1>15, <1>16, <1>17, <1>18
  DEF Next

-----------------------------------------------------------------------------
(* The theorems.                                                             *)

\* In a cooperative kernel a task runs directly on main, never on another task
\* or on a handler (librertos_sched is called from the main loop alone), with
\* any number of tasks, priorities, interrupts and locks.
THEOREM CooperativeCorrect == Spec => []CooperativeRunsOne
<1>1. Init => IInv /\ CInv
  BY InitHolds, InitCooperates
<1>2. IInv /\ CInv /\ [Next]_vars => (IInv /\ CInv)'
  BY StepKeepsInvariant, StepCooperates
<1>3. IInv /\ CInv => CooperativeRunsOne
  BY DEF CInv, OneScheduler, CooperativeRunsOne
<1> QED BY <1>1, <1>2, <1>3, PTL DEF Spec

\* A preemptive kernel lets no task execute, unlocked, while a task of higher
\* priority is ready: no request of task_resume() is lost, whatever locks and
\* handlers it has to wait for (lines 287-289, 602-605).
THEOREM PreemptionCorrect == Spec => []NoMissedPreemption
<1>1. Init => IInv /\ NInv
  BY InitHolds, InitRequests
<1>2. IInv /\ NInv /\ [Next]_vars => (IInv /\ NInv)'
  BY StepKeepsInvariant, StepRequests
<1>3. IInv /\ NInv => NoMissedPreemption
  <2> SUFFICES ASSUME IInv, NInv, Preemptive, Top.kind = "task", Top.pc = "run",
                      scheduler_depth = 0, NEW u \in Ready
               PROVE  priority[u] <= priority[Top.task]
    BY DEF NoMissedPreemption
  <2>1. Top.task \in running /\ Top.task = current_task /\ Top = Last(stack)
    BY TopTaskOutranks, TopFrame, OutrankedTypes DEF CurrentTaskOf
  <2>2. Top.task \notin Outranked
    BY <2>1 DEF NInv, Served
  <2>3. priority[u] \in Int /\ priority[Top.task] \in Int
    BY <2>1, ReadyTypes, PriorityAssumption DEF IInv, TypeOK, Priority
  <2> QED BY <2>1, <2>2, <2>3 DEF Outranked
<1> QED BY <1>1, <1>2, <1>3, PTL DEF Spec

\* Both kernels call tasks and let them return as a priority scheduler does:
\* every action of the kernel is a step of PriorityScheduler, or changes
\* nothing that it describes.
THEOREM SchedulerRefines == Spec => ImplementsPriorityScheduler
<1>1. Init => IInv /\ CInv /\ PS!Init
  BY InitHolds, InitCooperates, InitRefines
<1>2. IInv /\ CInv /\ [Next]_vars => (IInv /\ CInv)'
  BY StepKeepsInvariant, StepCooperates
<1>3. IInv /\ CInv /\ [Next]_vars => [PS!Next]_PS!vars
  BY StepRefines
<1> QED BY <1>1, <1>2, <1>3, PTL DEF Spec, ImplementsPriorityScheduler, PS!Spec
=============================================================================
