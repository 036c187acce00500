----------------------------- MODULE MutexProofs -----------------------------
(***************************************************************************)
(* Proofs about Mutex: the inductive invariant MInv with the theorems that *)
(* follow from it, and WaitInv, the order of the event lists.              *)
(***************************************************************************)
EXTENDS Mutex, KernelProofs, FiniteSetTheorems

-----------------------------------------------------------------------------
(* The call stack.  Priorities change here, so that neither does the stack   *)
(* nest by priority nor does the scheduler rely on it; and a task that looks *)
(* for a place on an event list has current_task for whom it looks.          *)

MPC == PC \cup {"event", "delay"}
MFrame == [kind : Kind, task : Task \cup {NULL}, saved : Task \cup {NULL},
           pc : MPC, arg : Task \cup {NULL}, locks : Nat, base : Nat]

\* What is true of a frame by itself.
MFrameOK(f) ==
    /\ f.kind \in {"main", "task", "isr"}
    /\ f.kind = "task" => f.task \in Task /\ f.base = 0
    /\ f.kind = "main" => f.task = NULL /\ f.saved = NULL /\ f.base = 0
    /\ f.pc # "create"
    /\ f.pc = "resume" => f.arg \in Task
    /\ f.pc \in {"event", "delay"} => f.kind = "task"
    /\ f.pc \in {"resume", "unlock", "event", "delay"}
          => f.locks > LocksOfFrame(f.kind)
    /\ f.pc = "run" => f.locks >= LocksOfFrame(f.kind)
    /\ f.pc = "exit" => f.kind = "isr" /\ f.locks = 1
    /\ f.pc = "sched" => f.locks = 0 /\ f.base = 0
    /\ f.pc = "iret" => f.kind = "isr" /\ f.locks = 0

\* current_task while frame f executes, and looks for the place of sc.task.
Current(f, sc) == IF f.pc = "event" THEN sc.task ELSE CurrentTaskOf(f)

MShape(s) ==
    \A i \in 1 .. Len(s) : MFrameOK(s[i]) /\ (s[i].kind = "main" <=> i = 1)

Linked(s, cur, sc) ==
    /\ cur = Current(s[Len(s)], sc)
    /\ \A i \in 2 .. Len(s) : s[i].saved = Current(s[i - 1], sc)

\* A frame f looks for a place while there is a search sc, for its own task
\* unless it is that of an owner that inherits a priority.
Looks(f, sc) ==
    f.pc = "event" => /\ sc # NoSearch
                      /\ sc.call # "inherit" => f.task = sc.task

Searching(s, sc) ==
    /\ \A i \in 1 .. Len(s) : Looks(s[i], sc)
    /\ sc # NoSearch => \E i \in 1 .. Len(s) : s[i].pc = "event"

\* A task is on the stack once.
Once(s) ==
    \A i, j \in 1 .. Len(s) :
        s[i].kind = "task" /\ s[j].kind = "task" /\ s[i].task = s[j].task
           => i = j

MStackOK(s, depth, cur, run, sc) ==
    /\ s \in Seq(MFrame) /\ s # <<>>
    /\ MShape(s)
    /\ Grows(s)
    /\ Balanced(s, depth)
    /\ Linked(s, cur, sc)
    /\ Searching(s, sc)
    /\ OnStack(s, run)
    /\ Once(s)

-----------------------------------------------------------------------------
LEMMA MStackTypes ==
    ASSUME NEW s, NEW depth, NEW cur, NEW run, NEW sc,
           MStackOK(s, depth, cur, run, sc)
    PROVE  /\ s \in Seq(MFrame) /\ s # <<>>
           /\ Len(s) \in Nat /\ Len(s) >= 1 /\ Len(s) \in 1 .. Len(s)
           /\ \A i \in 1 .. Len(s) : /\ s[i] \in MFrame /\ MFrameOK(s[i])
                                     /\ s[i].base \in Nat /\ s[i].locks \in Nat
           /\ Last(s) = s[Len(s)]
           /\ cur = Current(Last(s), sc)
           /\ depth = Last(s).base + Last(s).locks /\ depth \in Nat
           /\ \A i \in 1 .. Len(s) : depth >= s[i].base + s[i].locks
<1>1. /\ s \in Seq(MFrame) /\ s # <<>>
      /\ Len(s) \in Nat /\ Len(s) >= 1 /\ Len(s) \in 1 .. Len(s)
      /\ Last(s) = s[Len(s)]
  BY DEF MStackOK, Last
<1>2. \A i \in 1 .. Len(s) : s[i] \in MFrame /\ MFrameOK(s[i])
  BY <1>1 DEF MStackOK, MShape
<1>3. \A i \in 1 .. Len(s) : s[i].base \in Nat /\ s[i].locks \in Nat
  BY <1>2 DEF MFrame
<1>4. cur = Current(Last(s), sc) /\ depth = Last(s).base + Last(s).locks
  BY <1>1 DEF MStackOK, Linked, Balanced
<1>5. depth \in Nat
  BY <1>1, <1>3, <1>4
<1>6. ASSUME NEW i \in 1 .. Len(s) PROVE depth >= s[i].base + s[i].locks
  <2>1. CASE i = Len(s)
    BY <1>1, <1>3, <1>4, <2>1
  <2>2. CASE i # Len(s)
    <3>1. s[Len(s)].base >= s[i].base + s[i].locks
      BY <1>1, <2>2 DEF MStackOK, Grows
    <3>2. /\ s[i].base \in Nat /\ s[i].locks \in Nat
          /\ s[Len(s)].base \in Nat /\ s[Len(s)].locks \in Nat
      BY <1>1, <1>3
    <3> QED BY <1>1, <1>4, <3>1, <3>2
  <2> QED BY <2>1, <2>2
<1> QED BY <1>1, <1>2, <1>3, <1>4, <1>5, <1>6

\* Only handlers come above a frame that looks for a place: it holds a lock.
LEMMA HandlersAboveSearch ==
    ASSUME NEW s, NEW depth, NEW cur, NEW run, NEW sc,
           MStackOK(s, depth, cur, run, sc),
           NEW i \in 1 .. Len(s), NEW j \in 1 .. Len(s), i < j,
           s[i].pc = "event"
    PROVE  s[j].kind = "isr"
<1>1. s[j].base >= s[i].base + s[i].locks
  BY DEF MStackOK, Grows
<1>2. /\ s[i].base \in Nat /\ s[i].locks \in Nat /\ s[j].base \in Nat
      /\ MFrameOK(s[i]) /\ MFrameOK(s[j])
  BY MStackTypes
<1>3. s[i].locks > 0
  BY <1>2 DEF MFrameOK, LocksOfFrame
<1>4. s[j].base > 0
  BY <1>1, <1>2, <1>3
<1> QED BY <1>2, <1>4 DEF MFrameOK

\* A task is called, or a handler comes, on top of the stack.
LEMMA MPush ==
    ASSUME NEW s, NEW depth, NEW cur, NEW run \in SUBSET Task, NEW sc,
           MStackOK(s, depth, cur, run, sc),
           NEW f \in MFrame, MFrameOK(f), f.kind \in {"task", "isr"},
           f.base = depth, f.saved = cur, f.pc = "run",
           f.kind = "task" => f.task \notin run
    PROVE  MStackOK(Push(s, f), depth + f.locks, CurrentTaskOf(f),
                    IF f.kind = "task" THEN run \cup {f.task} ELSE run, sc)
<1> DEFINE r == Push(s, f)
<1> DEFINE n == Len(s)
<1>1. /\ s \in Seq(MFrame) /\ n \in Nat /\ n >= 1 /\ n \in 1 .. n
      /\ \A i \in 1 .. n : depth >= s[i].base + s[i].locks
      /\ MShape(s) /\ Grows(s) /\ Balanced(s, depth) /\ Linked(s, cur, sc)
      /\ Searching(s, sc) /\ OnStack(s, run) /\ Once(s)
  BY MStackTypes DEF MStackOK
<1>2. /\ r \in Seq(MFrame) /\ r # <<>> /\ Len(r) = n + 1
      /\ r[n + 1] = f
      /\ \A i \in 1 .. n : r[i] = s[i]
  BY DEF Push, MStackOK
<1> HIDE DEF r
<1>3. \A i \in 1 .. Len(r) : \/ i \in 1 .. n /\ r[i] = s[i]
                             \/ i = n + 1 /\ r[i] = f
  BY <1>1, <1>2
<1>4. \A i \in 1 .. n : i \in 1 .. Len(r) /\ i # n + 1
  BY <1>1, <1>2
<1>4a. n + 1 \in 1 .. Len(r) /\ n + 1 # 1 /\ (n + 1) - 1 = n
  BY <1>1, <1>2
<1>5. MShape(r)
  BY <1>1, <1>3, <1>4, <1>4a DEF MShape
<1>6. Grows(r)
  <2> SUFFICES ASSUME NEW i \in 1 .. Len(r), NEW j \in 1 .. Len(r), i < j
               PROVE  r[j].base >= r[i].base + r[i].locks
    BY DEF Grows
  <2>1. i \in 1 .. n /\ r[i] = s[i]
    BY <1>1, <1>2, <1>3
  <2>2. CASE j \in 1 .. n
    BY <1>1, <1>2, <2>1, <2>2 DEF Grows
  <2>3. CASE j = n + 1
    BY <1>1, <1>2, <2>1, <2>3
  <2> QED BY <1>3, <2>2, <2>3
<1>7. \A i \in 2 .. Len(r) : \/ i \in 2 .. n /\ r[i] = s[i] /\ r[i - 1] = s[i - 1]
                             \/ i = n + 1 /\ r[i] = f /\ r[i - 1] = s[n]
  <2> SUFFICES ASSUME NEW i \in 2 .. Len(r)
               PROVE  \/ i \in 2 .. n /\ r[i] = s[i] /\ r[i - 1] = s[i - 1]
                      \/ i = n + 1 /\ r[i] = f /\ r[i - 1] = s[n]
    OBVIOUS
  <2>1. CASE i \in 2 .. n
    <3>1. i \in 1 .. n /\ i - 1 \in 1 .. n
      BY <1>1, <2>1
    <3> QED BY <1>2, <2>1, <3>1
  <2>2. CASE i = n + 1
    BY <1>1, <1>2, <1>4a, <2>2
  <2> QED BY <1>1, <1>2, <2>1, <2>2
<1>8. Balanced(r, depth + f.locks)
  <2>1. r[Len(r)] = f /\ depth = s[n].base + s[n].locks
    BY <1>1, <1>2 DEF Balanced
  <2> QED BY <1>1, <1>7, <2>1 DEF Balanced
<1>9. Linked(r, CurrentTaskOf(f), sc)
  <2>1. r[Len(r)] = f /\ Current(f, sc) = CurrentTaskOf(f) /\ cur = Current(s[n], sc)
    BY <1>1, <1>2 DEF Linked, Current
  <2> QED BY <1>1, <1>7, <2>1 DEF Linked
<1>10. Searching(r, sc)
  <2>1. \A i \in 1 .. Len(r) : Looks(r[i], sc)
    BY <1>1, <1>3 DEF Searching, Looks
  <2>2. sc # NoSearch => \E i \in 1 .. Len(r) : r[i].pc = "event"
    BY <1>1, <1>2, <1>4 DEF Searching
  <2> QED BY <2>1, <2>2 DEF Searching
<1>11. OnStack(r, IF f.kind = "task" THEN run \cup {f.task} ELSE run)
  <2> SUFFICES ASSUME NEW t \in Task
               PROVE  t \in (IF f.kind = "task" THEN run \cup {f.task} ELSE run)
                        <=> \E i \in 1 .. Len(r) :
                               r[i].kind = "task" /\ r[i].task = t
    BY DEF OnStack
  <2>1. t \in run <=> \E i \in 1 .. n : s[i].kind = "task" /\ s[i].task = t
    BY <1>1 DEF OnStack
  <2>2. (\E i \in 1 .. Len(r) : r[i].kind = "task" /\ r[i].task = t)
          <=> \/ \E i \in 1 .. n : s[i].kind = "task" /\ s[i].task = t
              \/ f.kind = "task" /\ f.task = t
    BY <1>2, <1>3, <1>4, <1>4a
  <2> QED BY <2>1, <2>2
<1>12. Once(r)
  <2> SUFFICES ASSUME NEW i \in 1 .. Len(r), NEW j \in 1 .. Len(r),
                      r[i].kind = "task", r[j].kind = "task",
                      r[i].task = r[j].task
               PROVE  i = j
    BY DEF Once
  <2>1. \A k \in 1 .. n : s[k].kind = "task" /\ f.kind = "task" => s[k].task # f.task
    BY <1>1 DEF OnStack, MShape, MFrameOK
  <2> QED BY <1>1, <1>3, <2>1 DEF Once
<1> QED BY <1>2, <1>5, <1>6, <1>8, <1>9, <1>10, <1>11, <1>12 DEF MStackOK, r

\* The top frame goes on as f, and the search, if it is that frame's, as new.
LEMMA MReplace ==
    ASSUME NEW s, NEW depth, NEW cur, NEW run \in SUBSET Task, NEW sc, NEW new,
           MStackOK(s, depth, cur, run, sc),
           NEW f \in MFrame, MFrameOK(f), f.kind = Last(s).kind,
           f.task = Last(s).task, f.saved = Last(s).saved, f.base = Last(s).base,
           \/ new = sc /\ f.pc # "event" /\ Last(s).pc # "event"
           \/ /\ Last(s).kind # "isr" /\ Looks(f, new)
              /\ new # NoSearch => f.pc = "event"
    PROVE  MStackOK([s EXCEPT ![Len(s)] = f], f.base + f.locks,
                    Current(f, new), run, new)
<1> DEFINE r == [s EXCEPT ![Len(s)] = f]
<1> DEFINE n == Len(s)
<1>1. /\ s \in Seq(MFrame) /\ n \in Nat /\ n >= 1 /\ n \in 1 .. n
      /\ Last(s) = s[n]
      /\ MShape(s) /\ Grows(s) /\ Balanced(s, depth) /\ Linked(s, cur, sc)
      /\ Searching(s, sc) /\ OnStack(s, run) /\ Once(s)
  BY MStackTypes DEF MStackOK
<1>2. /\ r \in Seq(MFrame) /\ r # <<>> /\ Len(r) = n
      /\ r[n] = f
      /\ \A i \in 1 .. n : i # n => r[i] = s[i]
  BY <1>1
<1> HIDE DEF r
<1>2a. \A i \in 1 .. n : /\ r[i].base = s[i].base /\ r[i].saved = s[i].saved
                         /\ r[i].task = s[i].task /\ r[i].kind = s[i].kind
  BY <1>1, <1>2
<1>3. \A i \in 2 .. n : i - 1 \in 1 .. n /\ i \in 1 .. n /\ r[i - 1] = s[i - 1]
                        /\ i - 1 # n
  BY <1>1, <1>2
<1>4. MShape(r)
  BY <1>1, <1>2, <1>2a DEF MShape
<1>5. Grows(r)
  <2> SUFFICES ASSUME NEW i \in 1 .. n, NEW j \in 1 .. n, i < j
               PROVE  r[j].base >= r[i].base + r[i].locks
    BY <1>2 DEF Grows
  <2>1. r[i] = s[i] /\ r[j].base = s[j].base
    BY <1>1, <1>2, <1>2a
  <2> QED BY <1>1, <2>1 DEF Grows
<1>6. Balanced(r, f.base + f.locks)
  BY <1>1, <1>2, <1>2a, <1>3 DEF Balanced
<1>7. \A i \in 1 .. n : i # n /\ s[i].pc = "event" => Last(s).kind = "isr"
  <2> SUFFICES ASSUME NEW i \in 1 .. n, i # n, s[i].pc = "event"
               PROVE  s[n].kind = "isr"
    BY <1>1
  <2>1. i < n
    BY <1>1
  <2> QED BY <1>1, <2>1, HandlersAboveSearch
<1>8. \A i \in 1 .. n : i # n => Current(s[i], new) = Current(s[i], sc)
  BY <1>7 DEF Current
<1>9. Linked(r, Current(f, new), new)
  BY <1>1, <1>2, <1>2a, <1>3, <1>8 DEF Linked
<1>10. Searching(r, new)
  <2>1. \A i \in 1 .. n : Looks(r[i], new)
    BY <1>1, <1>2, <1>7 DEF Searching, Looks
  <2>2. new # NoSearch => \E i \in 1 .. n : r[i].pc = "event"
    BY <1>1, <1>2 DEF Searching
  <2> QED BY <1>2, <2>1, <2>2 DEF Searching
<1>11. OnStack(r, run)
  BY <1>1, <1>2, <1>2a DEF OnStack
<1>12. Once(r)
  BY <1>1, <1>2, <1>2a DEF Once
<1> QED BY <1>2, <1>4, <1>5, <1>6, <1>9, <1>10, <1>11, <1>12 DEF MStackOK, r

\* A handler or a task that holds no lock returns.
LEMMA MPop ==
    ASSUME NEW s, NEW depth, NEW cur, NEW run \in SUBSET Task, NEW sc,
           MStackOK(s, depth, cur, run, sc),
           Last(s).kind # "main", Last(s).locks = 0
    PROVE  MStackOK(Pop(s), depth, Last(s).saved,
                    IF Last(s).kind = "task" THEN run \ {Last(s).task} ELSE run, sc)
<1> DEFINE r == Pop(s)
<1> DEFINE n == Len(s)
<1> DEFINE f == s[n]
<1>1. /\ s \in Seq(MFrame) /\ n \in Nat /\ n >= 1 /\ n \in 1 .. n /\ Last(s) = f
      /\ MShape(s) /\ Grows(s) /\ Balanced(s, depth) /\ Linked(s, cur, sc)
      /\ Searching(s, sc) /\ OnStack(s, run) /\ Once(s)
      /\ MFrameOK(f) /\ f.base \in Nat /\ depth = f.base + f.locks
      /\ f.locks = 0
  BY MStackTypes DEF MStackOK
<1>2. n # 1 /\ n - 1 \in Nat /\ n - 1 >= 1 /\ n - 1 \in 1 .. n - 1
  <2>1. n # 1
    BY <1>1 DEF MShape
  <2> HIDE DEF n
  <2> QED BY <1>1, <2>1
<1>3. /\ r \in Seq(MFrame) /\ Len(r) = n - 1
      /\ \A i \in 1 .. n - 1 : r[i] = s[i]
  <2>1. r = SubSeq(s, 1, n - 1)
    BY DEF Pop, Front
  <2> HIDE DEF r, n
  <2>2. \A i \in 1 .. n - 1 : s[i] \in MFrame
    BY <1>1, <1>2 DEF n
  <2> QED BY <1>1, <1>2, <2>1, <2>2
<1> HIDE DEF r
<1>3a. r # <<>> /\ r[n - 1] = s[n - 1]
  BY <1>2, <1>3
<1>4. \A i \in 1 .. n - 1 : i \in 1 .. n /\ i # n /\ i < n
  BY <1>2
<1>4a. \A i \in 2 .. n - 1 : i - 1 \in 1 .. n - 1 /\ i \in 2 .. n /\ i \in 1 .. n - 1
  BY <1>2
<1>5. MShape(r) /\ Grows(r) /\ Once(r)
  <2>1. MShape(r)
    BY <1>1, <1>3, <1>4 DEF MShape
  <2>2. Grows(r)
    BY <1>1, <1>3, <1>4 DEF Grows
  <2>3. Once(r)
    BY <1>1, <1>3, <1>4 DEF Once
  <2> QED BY <2>1, <2>2, <2>3
<1>6. Balanced(r, depth)
  <2>1. f.base = s[n - 1].base + s[n - 1].locks /\ depth = f.base
    BY <1>1, <1>2 DEF Balanced
  <2>2. \A i \in 2 .. n - 1 : r[i].base = r[i - 1].base + r[i - 1].locks
    BY <1>1, <1>3, <1>4a DEF Balanced
  <2> QED BY <1>3, <1>3a, <2>1, <2>2 DEF Balanced
<1>7. Linked(r, f.saved, sc)
  <2>1. f.saved = Current(s[n - 1], sc)
    BY <1>1, <1>2 DEF Linked
  <2>2. \A i \in 2 .. n - 1 : r[i].saved = Current(r[i - 1], sc)
    BY <1>1, <1>3, <1>4a DEF Linked
  <2> QED BY <1>3, <1>3a, <2>1, <2>2 DEF Linked
<1>8. Searching(r, sc)
  <2>1. f.pc # "event"
    BY <1>1 DEF MFrameOK, LocksOfFrame
  <2>2. \A i \in 1 .. n : i # n => i \in 1 .. n - 1
    BY <1>1, <1>2
  <2> QED BY <1>1, <1>3, <1>4, <2>1, <2>2 DEF Searching
<1>9. OnStack(r, IF f.kind = "task" THEN run \ {f.task} ELSE run)
  <2> SUFFICES ASSUME NEW t \in Task
               PROVE  t \in (IF f.kind = "task" THEN run \ {f.task} ELSE run)
                        <=> \E i \in 1 .. n - 1 : s[i].kind = "task" /\ s[i].task = t
    BY <1>3 DEF OnStack
  <2>1. t \in run <=> \E i \in 1 .. n : s[i].kind = "task" /\ s[i].task = t
    BY <1>1 DEF OnStack
  <2>2. \A i \in 1 .. n : i # n => i \in 1 .. n - 1
    BY <1>1, <1>2
  <2>3. \A i \in 1 .. n - 1 : s[i].kind = "task" /\ f.kind = "task" => s[i].task # f.task
    BY <1>1, <1>4 DEF Once
  <2> QED BY <1>1, <1>4, <2>1, <2>2, <2>3
<1> QED BY <1>1, <1>3, <1>3a, <1>5, <1>6, <1>7, <1>8, <1>9 DEF MStackOK, r

\* The invariant of the stack, of the variables themselves.
MStackInv ==
    /\ running \in SUBSET Task
    /\ MStackOK(stack, scheduler_depth, current_task, running, search)

\* What it says of the frame that executes: while there is a search, all code
\* but the search itself is that of a handler.
LEMMA MTop ==
    ASSUME MStackInv
    PROVE  /\ Top \in MFrame /\ MFrameOK(Top) /\ Top = Last(stack)
           /\ Top.locks \in Nat /\ Top.base \in Nat
           /\ Top.saved \in Task \cup {NULL}
           /\ scheduler_depth = Top.base + Top.locks
           /\ scheduler_depth \in Nat /\ scheduler_depth >= 0
           /\ current_task = Current(Top, search)
           /\ Top.pc = "event" => Looks(Top, search) /\ current_task = search.task
           /\ Top.pc # "event" /\ search # NoSearch => Top.kind = "isr"
           /\ scheduler_depth = 0 => search = NoSearch
<1>1. MStackOK(stack, scheduler_depth, current_task, running, search)
  BY DEF MStackInv
<1>2. /\ Top = stack[Len(stack)] /\ Top = Last(stack)
      /\ Len(stack) \in Nat /\ Len(stack) \in 1 .. Len(stack)
      /\ Top \in MFrame /\ MFrameOK(Top)
      /\ Top.locks \in Nat /\ Top.base \in Nat
      /\ scheduler_depth = Top.base + Top.locks /\ scheduler_depth \in Nat
      /\ current_task = Current(Top, search)
  BY <1>1, MStackTypes DEF Top
<1>3. Top.saved \in Task \cup {NULL}
  BY <1>2 DEF MFrame
<1>4. Top.pc = "event" => Looks(Top, search) /\ current_task = search.task
  BY <1>1, <1>2 DEF MStackOK, Searching, Current
<1>5. ASSUME search # NoSearch
      PROVE  /\ Top.pc # "event" => Top.kind = "isr"
             /\ scheduler_depth # 0
  <2>1. PICK i \in 1 .. Len(stack) : stack[i].pc = "event"
    BY <1>1, <1>5 DEF MStackOK, Searching
  <2>2. /\ MFrameOK(stack[i]) /\ stack[i].base \in Nat /\ stack[i].locks \in Nat
        /\ scheduler_depth >= stack[i].base + stack[i].locks
    BY <1>1, MStackTypes
  <2>3. stack[i].locks > 0
    BY <2>1, <2>2 DEF MFrameOK, LocksOfFrame
  <2>4. scheduler_depth # 0
    BY <1>2, <2>2, <2>3
  <2>5. ASSUME Top.pc # "event" PROVE Top.kind = "isr"
    <3>1. i # Len(stack)
      BY <1>2, <2>1, <2>5
    <3>2. i < Len(stack)
      BY <1>2, <3>1
    <3> QED BY <1>1, <1>2, <2>1, <3>2, HandlersAboveSearch
  <2> QED BY <2>4, <2>5
<1> QED BY <1>2, <1>3, <1>4, <1>5

\* The top frame moves on.
LEMMA MGoto ==
    ASSUME MStackInv, NEW pc \in MPC, NEW t \in Task \cup {NULL}, NEW n \in Int,
           Top.locks + n >= 0,
           MFrameOK(Moved(Top, pc, t, n)), NEW new,
           \/ new = search /\ pc # "event" /\ Top.pc # "event"
           \/ /\ Top.kind # "isr" /\ Looks(Moved(Top, pc, t, n), new)
              /\ new # NoSearch => pc = "event"
    PROVE  MStackOK(Goto(stack, pc, t, n), scheduler_depth + n,
                    Current(Moved(Top, pc, t, n), new), running, new)
<1> DEFINE f == Moved(Top, pc, t, n)
<1>1. /\ MStackOK(stack, scheduler_depth, current_task, running, search)
      /\ running \in SUBSET Task
  BY DEF MStackInv
<1>2. /\ Top \in MFrame /\ scheduler_depth = Top.base + Top.locks
      /\ Top.locks \in Nat /\ Top.base \in Nat /\ Top = Last(stack)
  BY MTop
<1>3. /\ f \in MFrame /\ f.locks = Top.locks + n /\ f.pc = pc
      /\ f.kind = Top.kind /\ f.task = Top.task /\ f.saved = Top.saved
      /\ f.base = Top.base
  BY <1>2 DEF Moved, MFrame
<1>4. Goto(stack, pc, t, n) = [stack EXCEPT ![Len(stack)] = f]
  BY <1>2 DEF Goto
<1>5. f.base + f.locks = scheduler_depth + n
  BY <1>2, <1>3
<1> HIDE DEF f
<1>6. MFrameOK(f)
  BY DEF f
<1>7. \/ new = search /\ f.pc # "event" /\ Last(stack).pc # "event"
      \/ /\ Last(stack).kind # "isr" /\ Looks(f, new)
         /\ new # NoSearch => f.pc = "event"
  BY <1>2, <1>3 DEF f
<1>8. MStackOK([stack EXCEPT ![Len(stack)] = f], f.base + f.locks,
               Current(f, new), running, new)
  BY <1>1, <1>2, <1>3, <1>6, <1>7, MReplace
<1> QED BY <1>4, <1>5, <1>8 DEF f

\* It moves on and looks for nothing: what every action but two needs.
LEMMA MGotoQuiet ==
    ASSUME MStackInv, NEW pc \in MPC \ {"event"}, NEW t \in Task \cup {NULL},
           NEW n \in Int, Top.locks + n >= 0,
           MFrameOK(Moved(Top, pc, t, n)), NEW new,
           \/ new = search /\ Top.pc # "event"
           \/ new = NoSearch /\ Top.kind # "isr"
    PROVE  MStackOK(Goto(stack, pc, t, n), scheduler_depth + n,
                    CurrentTaskOf(Moved(Top, pc, t, n)), running, new)
<1>1. Moved(Top, pc, t, n).pc = pc
  BY DEF Moved
<1>2. /\ Looks(Moved(Top, pc, t, n), new)
      /\ Current(Moved(Top, pc, t, n), new) = CurrentTaskOf(Moved(Top, pc, t, n))
  BY <1>1 DEF Looks, Current
<1>3. MStackOK(Goto(stack, pc, t, n), scheduler_depth + n,
               Current(Moved(Top, pc, t, n), new), running, new)
  BY <1>2, MGoto
<1> QED BY <1>2, <1>3

\* task_resume() up to its critical section.
LEMMA MTaskResume ==
    ASSUME MStackInv, NEW t \in Task, TaskResume(t), UNCHANGED search
    PROVE  MStackInv'
<1> DEFINE f == Moved(Top, "resume", t, 1)
<1>1. "resume" \in MPC \ {"event"} /\ Top.locks + 1 >= 0 /\ Top.pc = "run"
  BY MTop DEF MPC, PC, TaskResume, InUserCode
<1>2. MFrameOK(f) /\ CurrentTaskOf(f) = current_task
  BY <1>1, MTop DEF Moved, MFrameOK, LocksOfFrame, CurrentTaskOf, Current
<1> HIDE DEF f
<1>3. MStackOK(Goto(stack, "resume", t, 1), scheduler_depth + 1, CurrentTaskOf(f),
               running, search)
  BY <1>1, <1>2, MGotoQuiet DEF f
<1> QED BY <1>2, <1>3 DEF TaskResume, LockFor, MStackInv

\* Its critical section.
LEMMA MResumeInsert ==
    ASSUME MStackInv, ResumeInsert, UNCHANGED search
    PROVE  MStackInv'
<1> DEFINE f == Moved(Top, "unlock", NULL, 0)
<1>1. "unlock" \in MPC \ {"event"} /\ Top.locks + 0 >= 0 /\ Top.pc = "resume"
      /\ scheduler_depth + 0 = scheduler_depth
  BY MTop DEF MPC, PC, ResumeInsert
<1>2. MFrameOK(f) /\ CurrentTaskOf(f) = current_task
  BY <1>1, MTop DEF Moved, MFrameOK, LocksOfFrame, CurrentTaskOf, Current
<1> HIDE DEF f
<1>3. MStackOK(Goto(stack, "unlock", NULL, 0), scheduler_depth + 0,
               CurrentTaskOf(f), running, search)
  BY <1>1, <1>2, MGotoQuiet DEF f
<1> QED BY <1>1, <1>2, <1>3 DEF ResumeInsert, MStackInv

\* scheduler_unlock() at the end of an operation or of an interrupt.
LEMMA MOperationUnlock ==
    ASSUME MStackInv, OperationUnlock, UNCHANGED search
    PROVE  MStackInv'
<1>0. Top.pc \in {"unlock", "exit"} /\ Unlock
  BY DEF OperationUnlock
<1> DEFINE pc == IF Preemptive /\ scheduler_depth = 1 /\ higher_priority_task_ready
                 THEN "sched" ELSE AfterUnlock
<1> DEFINE f == Moved(Top, pc, NULL, -1)
<1>1. Top.locks >= 1
  BY <1>0, MTop DEF MFrameOK, LocksOfFrame
<1>2. /\ pc \in {"sched", "iret", "run"}
      /\ pc = "iret" => Top.pc = "exit"
      /\ pc = "run" => Top.pc = "unlock"
  BY <1>0, MTop DEF AfterUnlock, MFrameOK
<1>3. /\ pc \in MPC \ {"event"} /\ NULL \in Task \cup {NULL}
      /\ Top.locks + (-1) >= 0 /\ Top.pc # "event" /\ -1 \in Int
  BY <1>0, <1>1, <1>2, MTop DEF MPC, PC
<1>4. pc = "sched" => Top.locks = 1 /\ Top.base = 0
  <2>1. pc = "sched" => scheduler_depth = 1
    BY DEF AfterUnlock
  <2> QED BY <1>1, <2>1, MTop
<1>5. /\ f.locks = Top.locks - 1 /\ f.kind = Top.kind /\ f.base = Top.base
      /\ f.pc = pc /\ f.task = Top.task /\ f.saved = Top.saved
  BY <1>1, MTop DEF Moved
<1> HIDE DEF f, pc
<1>6. MFrameOK(f)
  BY <1>0, <1>1, <1>2, <1>4, <1>5, MTop DEF MFrameOK, LocksOfFrame
<1>7. CurrentTaskOf(f) = current_task
  <2>1. pc = "sched" /\ Top.pc = "unlock" => Top.kind # "isr"
    BY <1>4, MTop DEF MFrameOK, LocksOfFrame
  <2>2. pc = "sched" /\ Top.pc = "exit" => Top.kind = "isr"
    BY MTop DEF MFrameOK
  <2> QED BY <1>0, <1>2, <1>5, <2>1, <2>2, MTop DEF CurrentTaskOf, Current
<1>8. MStackOK(Goto(stack, pc, NULL, -1), scheduler_depth + (-1), CurrentTaskOf(f),
               running, search)
  BY <1>3, <1>6, MGotoQuiet DEF f
<1>9. stack' = Goto(stack, pc, NULL, -1) /\ scheduler_depth' = scheduler_depth + (-1)
  BY <1>0, MTop DEF Unlock, pc
<1> QED BY <1>0, <1>7, <1>8, <1>9 DEF Unlock, MStackInv

\* librertos_sched() goes back to its caller.
LEMMA MSchedReturns ==
    ASSUME MStackInv, Top.pc = "sched"
    PROVE  /\ MStackOK(Goto(stack, AfterUnlock, NULL, 0), scheduler_depth,
                       current_task, running, search)
           /\ scheduler_depth = 0
<1> DEFINE pc == AfterUnlock
<1> DEFINE f == Moved(Top, pc, NULL, 0)
<1>1. pc = IF Top.kind = "isr" THEN "iret" ELSE "run"
  BY DEF AfterUnlock
<1>2. Top.locks = 0 /\ Top.base = 0 /\ scheduler_depth = 0
  BY MTop DEF MFrameOK
<1>3. pc \in MPC \ {"event"} /\ Top.locks + 0 >= 0
      /\ scheduler_depth + 0 = scheduler_depth
  BY <1>1, <1>2, MTop DEF MPC, PC
<1> HIDE DEF pc
<1>4. MFrameOK(f) /\ CurrentTaskOf(f) = current_task
  BY <1>1, <1>2, MTop DEF Moved, MFrameOK, LocksOfFrame, CurrentTaskOf, Current
<1> HIDE DEF f
<1>5. MStackOK(Goto(stack, pc, NULL, 0), scheduler_depth + 0, CurrentTaskOf(f),
               running, search)
  BY <1>3, <1>4, MGotoQuiet DEF f
<1> QED BY <1>2, <1>3, <1>4, <1>5 DEF pc

\* get_higher_priority_task() finds a task of a ready list that is not running.
LEMMA MHigherPriorityTask ==
    ASSUME list \in [ListId -> Seq(Task)], NEW run, NEW cur,
           HigherPriorityTask(list, run, cur) # NULL
    PROVE  /\ HigherPriorityTask(list, run, cur) \in Task
           /\ HigherPriorityTask(list, run, cur) \notin run
           /\ \E p \in Priority : Holds(list, p, HigherPriorityTask(list, run, cur))
<1> DEFINE above == NonEmptyAbove(list, cur)
<1> DEFINE p == CHOOSE q \in above : \A o \in above : o <= q
<1>1. PICK q \in above : (\A o \in above : o <= q) /\ Head(list[q]) \notin run
  BY DEF HigherPriorityTask
<1>2. p = q
  <2>1. p \in above /\ \A o \in above : o <= p
    BY <1>1
  <2>2. p \in Int /\ q \in Int
    BY <1>1, <2>1, PriorityAssumption DEF NonEmptyAbove, Priority
  <2> HIDE DEF p
  <2> QED BY <1>1, <2>1, <2>2
<1>3. HigherPriorityTask(list, run, cur) = Head(list[p])
  BY <1>1 DEF HigherPriorityTask
<1> HIDE DEF p
<1>4. q \in ListId /\ list[q] # <<>>
  BY <1>1 DEF NonEmptyAbove, ListId
<1>5. list[q] \in Seq(Task)
  BY <1>4
<1>6. Head(list[q]) \in Task /\ Head(list[q]) = list[q][1] /\ 1 \in 1 .. Len(list[q])
  BY <1>4, <1>5
<1>7. q \in Priority /\ Holds(list, q, Head(list[q]))
  BY <1>1, <1>6 DEF NonEmptyAbove, Holds
<1> QED BY <1>1, <1>2, <1>3, <1>6, <1>7

\* A dispatch pushes a task.
LEMMA MDispatch ==
    ASSUME NEW s, NEW cur \in Task \cup {NULL}, NEW run \in SUBSET Task,
           NEW t \in Task, t \notin run, scheduler_depth = 0,
           MStackOK(s, scheduler_depth, cur, run, search)
    PROVE  MStackOK(Push(s, TaskFrame(t, cur)), 0, t, run \cup {t}, search)
<1> DEFINE f == TaskFrame(t, cur)
<1>1. /\ f \in MFrame /\ MFrameOK(f)
      /\ f.kind = "task" /\ f.base = scheduler_depth /\ f.saved = cur
      /\ f.locks = 0 /\ f.task = t /\ CurrentTaskOf(f) = t /\ f.pc = "run"
  BY DEF TaskFrame, MFrame, Kind, MPC, PC, MFrameOK, LocksOfFrame, CurrentTaskOf
<1> HIDE DEF f
<1>3. MStackOK(Push(s, f), scheduler_depth + f.locks, CurrentTaskOf(f),
               IF f.kind = "task" THEN run \cup {f.task} ELSE run, search)
  BY <1>1, MPush
<1> QED BY <1>1, <1>3 DEF f

\* librertos_sched() runs a task on top of its caller.
LEMMA MSchedDispatch ==
    ASSUME MStackInv, list \in [ListId -> Seq(Task)], NEW t \in Task,
           SchedDispatch(t), UNCHANGED search
    PROVE  MStackInv' /\ search = NoSearch
<1>1. /\ MStackOK(Goto(stack, AfterUnlock, NULL, 0), scheduler_depth,
                  current_task, running, search)
      /\ scheduler_depth = 0
  BY MSchedReturns DEF SchedDispatch
<1>2. t \notin running
  BY MHigherPriorityTask, NullAssumption DEF SchedDispatch
<1>3. running \in SUBSET Task
  BY DEF MStackInv
<1>4. current_task \in Task \cup {NULL}
  BY MTop DEF SchedDispatch, Current, CurrentTaskOf, MFrameOK
<1>5. MStackOK(stack', 0, t, running \cup {t}, search)
  BY <1>1, <1>2, <1>3, <1>4, MDispatch DEF SchedDispatch
<1>6. scheduler_depth' = 0 /\ current_task' = t /\ running' = running \cup {t}
  BY <1>1 DEF SchedDispatch, Dispatch
<1>7. running' \in SUBSET Task
  BY <1>3, <1>6
<1> QED BY <1>1, <1>5, <1>6, <1>7, MTop DEF MStackInv

LEMMA MSchedNothing ==
    ASSUME MStackInv, SchedNothing, UNCHANGED search
    PROVE  MStackInv'
BY MSchedReturns DEF SchedNothing, MStackInv

\* The task function returns.
LEMMA MTaskEnds ==
    ASSUME MStackInv, Top.kind = "task", Top.locks = 0
    PROVE  /\ MStackOK(Pop(stack), scheduler_depth, Top.saved,
                       running \ {Top.task}, search)
           /\ scheduler_depth = 0 /\ search = NoSearch
<1>1. /\ scheduler_depth = 0 /\ Top = Last(stack) /\ search = NoSearch
  BY MTop DEF MFrameOK
<1>2. MStackOK(Pop(stack), scheduler_depth, Last(stack).saved,
               IF Last(stack).kind = "task" THEN running \ {Last(stack).task}
                                            ELSE running, search)
  BY <1>1, MPop DEF MStackInv
<1> QED BY <1>1, <1>2

LEMMA MTaskReturn ==
    ASSUME MStackInv, list \in [ListId -> Seq(Task)], NEW t \in Task,
           TaskReturn(t), UNCHANGED search
    PROVE  MStackInv' /\ search = NoSearch
<1>1. /\ MStackOK(Pop(stack), scheduler_depth, Top.saved, running \ {Top.task},
                  search)
      /\ scheduler_depth = 0 /\ search = NoSearch
  BY MTaskEnds DEF TaskReturn
<1>2. t \notin running \ {Top.task}
  BY MHigherPriorityTask DEF TaskReturn
<1>3. running \ {Top.task} \in SUBSET Task /\ Top.saved \in Task \cup {NULL}
  BY MTop DEF MStackInv
<1>4. MStackOK(stack', 0, t, (running \ {Top.task}) \cup {t}, search)
  BY <1>1, <1>2, <1>3, MDispatch DEF TaskReturn
<1>5. /\ scheduler_depth' = 0 /\ current_task' = t
      /\ running' = (running \ {Top.task}) \cup {t}
  BY <1>1 DEF TaskReturn, Dispatch
<1>6. running' \in SUBSET Task
  BY <1>3, <1>5
<1> QED BY <1>1, <1>4, <1>5, <1>6 DEF MStackInv

LEMMA MTaskReturnLast ==
    ASSUME MStackInv, TaskReturnLast, UNCHANGED search
    PROVE  MStackInv'
<1>1. MStackOK(Pop(stack), scheduler_depth, Top.saved, running \ {Top.task}, search)
  BY MTaskEnds DEF TaskReturnLast
<1>2. running \ {Top.task} \in SUBSET Task
  BY DEF MStackInv
<1> QED BY <1>1, <1>2 DEF TaskReturnLast, MStackInv

LEMMA MMainLoop ==
    ASSUME MStackInv, MainLoop, UNCHANGED search
    PROVE  MStackInv'
<1> DEFINE f == Moved(Top, "sched", NULL, 0)
<1>1. "sched" \in MPC \ {"event"} /\ Top.locks + 0 >= 0 /\ Top.pc = "run"
      /\ scheduler_depth + 0 = scheduler_depth
  BY MTop DEF MPC, PC, MainLoop, InUserCode
<1>2. MFrameOK(f) /\ CurrentTaskOf(f) = current_task
  BY <1>1, MTop DEF MainLoop, Moved, MFrameOK, LocksOfFrame, CurrentTaskOf, Current
<1> HIDE DEF f
<1>3. MStackOK(Goto(stack, "sched", NULL, 0), scheduler_depth + 0,
               CurrentTaskOf(f), running, search)
  BY <1>1, <1>2, MGotoQuiet DEF f
<1> QED BY <1>1, <1>2, <1>3 DEF MainLoop, MStackInv

LEMMA MInterruptEnter ==
    ASSUME MStackInv, current_task \in Task \cup {NULL}, InterruptEnter,
           UNCHANGED search
    PROVE  MStackInv'
<1> DEFINE f == [kind |-> "isr", task |-> NULL, saved |-> current_task, pc |-> "run",
                 arg |-> NULL, locks |-> 1, base |-> scheduler_depth]
<1>1. /\ f \in MFrame /\ MFrameOK(f) /\ f.kind = "isr" /\ f.locks = 1
      /\ f.base = scheduler_depth /\ f.saved = current_task
      /\ CurrentTaskOf(f) = NULL /\ f.kind # "task" /\ f.pc = "run"
  BY MTop DEF MFrame, Kind, MPC, PC, MFrameOK, LocksOfFrame, CurrentTaskOf
<1>2. stack' = Push(stack, f)
  BY DEF InterruptEnter
<1> HIDE DEF f
<1>3. MStackOK(Push(stack, f), scheduler_depth + f.locks, CurrentTaskOf(f),
               IF f.kind = "task" THEN running \cup {f.task} ELSE running, search)
  BY <1>1, MPush DEF MStackInv
<1> QED BY <1>1, <1>2, <1>3 DEF InterruptEnter, MStackInv

LEMMA MInterruptUnlock ==
    ASSUME MStackInv, InterruptUnlock, UNCHANGED search
    PROVE  MStackInv'
<1> DEFINE f == Moved(Top, "exit", NULL, 0)
<1>1. "exit" \in MPC \ {"event"} /\ Top.locks + 0 >= 0 /\ Top.pc = "run"
      /\ scheduler_depth + 0 = scheduler_depth
  BY MTop DEF MPC, PC, InterruptUnlock, InUserCode
<1>2. MFrameOK(f) /\ CurrentTaskOf(f) = Top.saved
  BY <1>1, MTop DEF InterruptUnlock, Moved, MFrameOK, LocksOfFrame, CurrentTaskOf
<1> HIDE DEF f
<1>3. MStackOK(Goto(stack, "exit", NULL, 0), scheduler_depth + 0,
               CurrentTaskOf(f), running, search)
  BY <1>1, <1>2, MGotoQuiet DEF f
<1> QED BY <1>1, <1>2, <1>3 DEF InterruptUnlock, MStackInv

LEMMA MInterruptReturn ==
    ASSUME MStackInv, InterruptReturn, UNCHANGED search
    PROVE  MStackInv'
<1>1. /\ Last(stack).kind = "isr" /\ Last(stack).locks = 0 /\ Top.pc = "iret"
      /\ current_task = Last(stack).saved
  BY MTop DEF InterruptReturn, MFrameOK, CurrentTaskOf, Current
<1>2. MStackOK(Pop(stack), scheduler_depth, Last(stack).saved,
               IF Last(stack).kind = "task" THEN running \ {Last(stack).task}
                                            ELSE running, search)
  BY <1>1, MPop DEF MStackInv
<1> QED BY <1>1, <1>2 DEF InterruptReturn, MStackInv

\* A task begins to look for a place, its own or, with a loan, the owner's.
LEMMA MSearchBegins ==
    ASSUME MStackInv, InUserCode, Top.kind = "task",
           scheduler_depth' = scheduler_depth + 1,
           stack' = Goto(stack, "event", NULL, 1),
           search' # NoSearch, search'.call # "inherit" => Top.task = search'.task,
           current_task' = search'.task, UNCHANGED running
    PROVE  MStackInv'
<1> DEFINE f == Moved(Top, "event", NULL, 1)
<1> DEFINE new == search'
<1>1. "event" \in MPC /\ Top.locks + 1 >= 0 /\ Top.pc = "run"
  BY MTop DEF MPC, InUserCode
<1>2. MFrameOK(f)
  BY <1>1, MTop DEF Moved, MFrameOK, LocksOfFrame
<1>3. Looks(f, new) /\ Current(f, new) = current_task'
  BY DEF Moved, Looks, Current
<1> HIDE DEF f, new
<1>4. MStackOK(Goto(stack, "event", NULL, 1), scheduler_depth + 1,
               Current(f, new), running, new)
  BY <1>1, <1>2, <1>3, MGoto DEF f
<1> QED BY <1>3, <1>4 DEF MStackInv, new

\* The search goes on, or a loan's ends and the task begins its own.
LEMMA MSearchGoesOn ==
    ASSUME MStackInv, Top.pc = "event",
           UNCHANGED <<scheduler_depth, stack, running>>,
           search' # NoSearch, search'.call # "inherit" => Top.task = search'.task,
           current_task' = search'.task
    PROVE  MStackInv'
<1> DEFINE n == Len(stack)
<1> DEFINE new == search'
<1>1. MStackOK(stack, scheduler_depth, current_task, running, search)
  BY DEF MStackInv
<1>2. /\ Top = stack[n] /\ n \in Nat /\ n \in 1 .. n
  BY <1>1, MStackTypes DEF Top
<1>3. \A i \in 1 .. n : i # n => stack[i].pc # "event"
  <2> SUFFICES ASSUME NEW i \in 1 .. n, i # n, stack[i].pc = "event"
               PROVE  FALSE
    OBVIOUS
  <2>1. i < n
    BY <1>2
  <2>2. stack[n].kind = "isr"
    BY <1>1, <1>2, <2>1, HandlersAboveSearch
  <2> QED BY <1>2, <2>2, MTop DEF MFrameOK
<1> HIDE DEF new
<1>4. new # NoSearch /\ (new.call # "inherit" => Top.task = new.task)
      /\ current_task' = new.task
  BY DEF new
<1>5. Searching(stack, new)
  BY <1>2, <1>3, <1>4 DEF Searching, Looks
<1>6. \A i \in 1 .. n : i # n => Current(stack[i], new) = Current(stack[i], search)
  BY <1>3 DEF Current
<1>7. Linked(stack, current_task', new)
  <2>1. current_task' = Current(stack[n], new)
    BY <1>2, <1>4 DEF Current
  <2>2. \A i \in 2 .. n : stack[i].saved = Current(stack[i - 1], search)
    BY <1>1 DEF MStackOK, Linked
  <2>3. \A i \in 2 .. n : i - 1 \in 1 .. n /\ i - 1 # n
    BY <1>2
  <2> QED BY <1>6, <2>1, <2>2, <2>3 DEF Linked
<1>8. MStackOK(stack, scheduler_depth, current_task', running, new)
  BY <1>1, <1>5, <1>7 DEF MStackOK
<1> QED BY <1>8 DEF MStackInv, new

\* The search ends: of a wait, or of an unlock.
LEMMA MSearchEnds ==
    ASSUME MStackInv, Top.pc = "event", search.call # "inherit",
           search' = NoSearch, NEW pc \in {"delay", "unlock"},
           stack' = Goto(stack, pc, NULL, 0),
           UNCHANGED <<scheduler_depth, current_task, running>>
    PROVE  MStackInv'
<1> DEFINE f == Moved(Top, pc, NULL, 0)
<1> DEFINE new == search'
<1>1. pc \in MPC \ {"event"} /\ Top.locks + 0 >= 0 /\ Top.kind = "task"
      /\ scheduler_depth + 0 = scheduler_depth
  BY MTop DEF MPC, PC, MFrameOK
<1>2. MFrameOK(f)
  BY <1>1, MTop DEF Moved, MFrameOK, LocksOfFrame
<1>3. CurrentTaskOf(f) = current_task
  BY <1>1, MTop DEF Moved, CurrentTaskOf, Looks
<1> HIDE DEF f, new
<1>4. MStackOK(Goto(stack, pc, NULL, 0), scheduler_depth + 0, CurrentTaskOf(f),
               running, new)
  BY <1>1, <1>2, MGotoQuiet DEF f, new
<1> QED BY <1>1, <1>3, <1>4 DEF MStackInv, new

\* The end of an unlock without a search, and of a wait with a timeout.
LEMMA MToUnlock ==
    ASSUME MStackInv, NEW n \in {0, 1},
           \/ InUserCode /\ n = 1
           \/ Top.pc = "delay" /\ n = 0,
           stack' = Goto(stack, "unlock", NULL, n),
           scheduler_depth' = scheduler_depth + n,
           UNCHANGED <<current_task, running, search>>
    PROVE  MStackInv'
<1> DEFINE f == Moved(Top, "unlock", NULL, n)
<1>1. "unlock" \in MPC \ {"event"} /\ Top.locks + n >= 0 /\ n \in Int
      /\ Top.pc \in {"run", "delay"}
  BY MTop DEF MPC, PC, InUserCode
<1>2. MFrameOK(f)
  BY <1>1, MTop DEF Moved, MFrameOK, LocksOfFrame, InUserCode
<1>3. CurrentTaskOf(f) = current_task
  BY <1>1, MTop DEF Moved, CurrentTaskOf, Current
<1> HIDE DEF f
<1>4. MStackOK(Goto(stack, "unlock", NULL, n), scheduler_depth + n,
               CurrentTaskOf(f), running, search)
  BY <1>1, <1>2, MGotoQuiet DEF f
<1> QED BY <1>3, <1>4 DEF MStackInv

LEMMA MStackUnchanged ==
    ASSUME MStackInv,
           UNCHANGED <<stack, scheduler_depth, current_task, running, search>>
    PROVE  MStackInv'
BY DEF MStackInv

-----------------------------------------------------------------------------
(* The event lists.                                                          *)

EventLists == [Mutex -> Seq(Task)]

\* A task waits once.
OneEvent(w) ==
    /\ \A m \in Mutex : Injective(w[m])
    /\ \A m, n \in Mutex, u \in Task :
          Contains(w[m], u) /\ Contains(w[n], u) => m = n

SameTasks(new, w) ==
    \A n \in Mutex, u \in Task : Contains(new[n], u) <=> Contains(w[n], u)

\* One list becomes s: with the tasks it had, and some that waited nowhere.
LEMMA ListBecomes ==
    ASSUME NEW w \in EventLists, OneEvent(w), NEW m \in Mutex,
           NEW s \in Seq(Task), Injective(s),
           \A u \in Task : Contains(s, u) =>
              \/ Contains(w[m], u)
              \/ \A n \in Mutex : ~Contains(w[n], u)
    PROVE  /\ [w EXCEPT ![m] = s] \in EventLists
           /\ OneEvent([w EXCEPT ![m] = s])
           /\ \A n \in Mutex, u \in Task :
                 Contains([w EXCEPT ![m] = s][n], u)
                    <=> IF n = m THEN Contains(s, u) ELSE Contains(w[n], u)
<1> DEFINE new == [w EXCEPT ![m] = s]
<1>1. new \in EventLists /\ \A n \in Mutex : new[n] = IF n = m THEN s ELSE w[n]
  BY DEF EventLists
<1> HIDE DEF new
<1>2. \A n \in Mutex, u \in Task :
         Contains(new[n], u) <=> IF n = m THEN Contains(s, u) ELSE Contains(w[n], u)
  BY <1>1
<1>3. \A n \in Mutex : Injective(new[n])
  BY <1>1 DEF OneEvent
<1>4. ASSUME NEW k \in Mutex, NEW n \in Mutex, NEW u \in Task,
             Contains(new[k], u), Contains(new[n], u)
      PROVE  k = n
  BY <1>2, <1>4 DEF OneEvent
<1> QED BY <1>1, <1>2, <1>3, <1>4 DEF OneEvent, new

\* A task comes to wait at the end of a list.
LEMMA ComesToWait ==
    ASSUME NEW w \in EventLists, OneEvent(w), NEW m \in Mutex, NEW t \in Task,
           \A n \in Mutex : ~Contains(w[n], t)
    PROVE  /\ [w EXCEPT ![m] = Append(w[m], t)] \in EventLists
           /\ OneEvent([w EXCEPT ![m] = Append(w[m], t)])
           /\ \A n \in Mutex, u \in Task :
                 Contains([w EXCEPT ![m] = Append(w[m], t)][n], u)
                    <=> Contains(w[n], u) \/ (n = m /\ u = t)
<1> DEFINE q == w[m]
<1> DEFINE s == Append(q, t)
<1>1. q \in Seq(Task) /\ Injective(q) /\ ~ \E i \in 1 .. Len(q) : q[i] = t
  BY DEF EventLists, OneEvent, Contains
<1>2. \A u \in Task : Contains(s, u) <=> u = t \/ Contains(q, u)
  <2> HIDE DEF q
  <2> QED BY <1>1, AppendAdds DEF Contains
<1>3. s \in Seq(Task) /\ Injective(s)
  <2> HIDE DEF q
  <2> QED BY <1>1, AppendAdds
<1> HIDE DEF s
<1>4. /\ [w EXCEPT ![m] = s] \in EventLists
      /\ OneEvent([w EXCEPT ![m] = s])
      /\ \A n \in Mutex, u \in Task :
            Contains([w EXCEPT ![m] = s][n], u)
               <=> IF n = m THEN Contains(s, u) ELSE Contains(w[n], u)
  BY <1>2, <1>3, ListBecomes
<1>5. [w EXCEPT ![m] = s] = [w EXCEPT ![m] = Append(w[m], t)]
  BY DEF s
<1> QED BY <1>2, <1>4, <1>5

\* A task goes to the end of the list it waits on.
LEMMA WaitsAgain ==
    ASSUME NEW w \in EventLists, OneEvent(w), NEW m \in Mutex, NEW t \in Task,
           Contains(w[m], t)
    PROVE  /\ [w EXCEPT ![m] = Append(Without(w[m], t), t)] \in EventLists
           /\ OneEvent([w EXCEPT ![m] = Append(Without(w[m], t), t)])
           /\ SameTasks([w EXCEPT ![m] = Append(Without(w[m], t), t)], w)
<1> DEFINE q == w[m]
<1> DEFINE r == Without(q, t)
<1> DEFINE s == Append(r, t)
<1>1. q \in Seq(Task) /\ Injective(q) /\ Contains(q, t)
  BY DEF EventLists, OneEvent
<1> HIDE DEF q
<1>2. /\ r \in Seq(Task) /\ Injective(r)
      /\ \A u \in Task : Contains(r, u) <=> u # t /\ Contains(q, u)
  BY <1>1, WithoutIsRemoval DEF Contains
<1> HIDE DEF r
<1>3. /\ s \in Seq(Task) /\ Injective(s)
      /\ \A u \in Task : Contains(s, u) <=> u = t \/ Contains(r, u)
  BY <1>2, AppendAdds DEF Contains
<1> HIDE DEF s
<1>4. \A u \in Task : Contains(s, u) <=> Contains(w[m], u)
  BY <1>1, <1>2, <1>3 DEF q
<1>5. /\ [w EXCEPT ![m] = s] \in EventLists
      /\ OneEvent([w EXCEPT ![m] = s])
      /\ \A n \in Mutex, u \in Task :
            Contains([w EXCEPT ![m] = s][n], u)
               <=> IF n = m THEN Contains(s, u) ELSE Contains(w[n], u)
  BY <1>3, <1>4, ListBecomes
<1>6. [w EXCEPT ![m] = s] = [w EXCEPT ![m] = Append(Without(w[m], t), t)]
  BY DEF s, r, q
<1> QED BY <1>4, <1>5, <1>6 DEF SameTasks

\* A task moves to another place of the list it waits on.
LEMMA MovesInList ==
    ASSUME NEW w \in EventLists, OneEvent(w), NEW m \in Mutex, NEW t \in Task,
           Contains(w[m], t), NEW k \in 1 .. Len(Without(w[m], t)) + 1
    PROVE  /\ [w EXCEPT ![m] = InsertAt(Without(w[m], t), k, t)] \in EventLists
           /\ OneEvent([w EXCEPT ![m] = InsertAt(Without(w[m], t), k, t)])
           /\ SameTasks([w EXCEPT ![m] = InsertAt(Without(w[m], t), k, t)], w)
<1> DEFINE q == w[m]
<1> DEFINE r == Without(q, t)
<1> DEFINE s == InsertAt(r, k, t)
<1>1. q \in Seq(Task) /\ Injective(q) /\ Contains(q, t)
  BY DEF EventLists, OneEvent
<1>0. k \in 1 .. Len(r) + 1
  OBVIOUS
<1> HIDE DEF q
<1>2. /\ r \in Seq(Task) /\ Injective(r)
      /\ \A u \in Task : Contains(r, u) <=> u # t /\ Contains(q, u)
  BY <1>1, WithoutIsRemoval DEF Contains
<1> HIDE DEF r
<1>2a. ~ \E i \in 1 .. Len(r) : r[i] = t
  BY <1>2 DEF Contains
<1>3. /\ s \in Seq(Task) /\ Injective(s)
      /\ \A u \in Task : (\E i \in 1 .. Len(s) : s[i] = u)
                            <=> u = t \/ \E i \in 1 .. Len(r) : r[i] = u
  BY <1>0, <1>2, <1>2a, InsertAdds
<1> HIDE DEF s
<1>4. \A u \in Task : Contains(s, u) <=> Contains(w[m], u)
  <2>1. \A u \in Task : Contains(s, u) <=> u = t \/ Contains(r, u)
    BY <1>3 DEF Contains
  <2> QED BY <1>1, <1>2, <2>1 DEF q
<1>5. /\ [w EXCEPT ![m] = s] \in EventLists
      /\ OneEvent([w EXCEPT ![m] = s])
      /\ \A n \in Mutex, u \in Task :
            Contains([w EXCEPT ![m] = s][n], u)
               <=> IF n = m THEN Contains(s, u) ELSE Contains(w[n], u)
  BY <1>3, <1>4, ListBecomes
<1>6. [w EXCEPT ![m] = s] = [w EXCEPT ![m] = InsertAt(Without(w[m], t), k, t)]
  BY DEF s, r, q
<1> QED BY <1>4, <1>5, <1>6 DEF SameTasks

\* The first task of a list leaves it.
LEMMA FirstLeaves ==
    ASSUME NEW w \in EventLists, OneEvent(w), NEW m \in Mutex, w[m] # <<>>
    PROVE  /\ [w EXCEPT ![m] = Tail(w[m])] \in EventLists
           /\ OneEvent([w EXCEPT ![m] = Tail(w[m])])
           /\ Head(w[m]) \in Task /\ Contains(w[m], Head(w[m]))
           /\ \A n \in Mutex, u \in Task :
                 Contains([w EXCEPT ![m] = Tail(w[m])][n], u)
                    <=> Contains(w[n], u) /\ u # Head(w[m])
<1> DEFINE q == w[m]
<1> DEFINE s == Tail(q)
<1>1. q \in Seq(Task) /\ Injective(q) /\ q # <<>>
  BY DEF EventLists, OneEvent
<1> HIDE DEF q
<1>2. /\ s \in Seq(Task) /\ Injective(s)
      /\ Head(q) \in Task /\ Contains(q, Head(q))
      /\ \A u \in Task : Contains(s, u) <=> u # Head(q) /\ Contains(q, u)
  BY <1>1, TailDrops DEF Contains
<1> HIDE DEF s
<1>3. \A u \in Task : Contains(s, u) <=> u # Head(w[m]) /\ Contains(w[m], u)
  BY <1>2 DEF q
<1>4. /\ [w EXCEPT ![m] = s] \in EventLists
      /\ OneEvent([w EXCEPT ![m] = s])
      /\ \A n \in Mutex, u \in Task :
            Contains([w EXCEPT ![m] = s][n], u)
               <=> IF n = m THEN Contains(s, u) ELSE Contains(w[n], u)
  BY <1>2, <1>3, ListBecomes
<1>5. [w EXCEPT ![m] = s] = [w EXCEPT ![m] = Tail(w[m])]
  BY DEF s, q
<1>6. \A n \in Mutex : n # m => ~Contains(w[n], Head(w[m]))
  BY <1>2 DEF OneEvent, q
<1>7. Head(w[m]) \in Task /\ Contains(w[m], Head(w[m]))
  BY <1>2 DEF q
<1> QED BY <1>3, <1>4, <1>5, <1>6, <1>7

\* A task leaves whatever list it is on.
LEMMA LeavesAll ==
    ASSUME NEW w \in EventLists, OneEvent(w), NEW t \in Task
    PROVE  /\ [n \in Mutex |-> Without(w[n], t)] \in EventLists
           /\ OneEvent([n \in Mutex |-> Without(w[n], t)])
           /\ \A n \in Mutex, u \in Task :
                 Contains(Without(w[n], t), u) <=> u # t /\ Contains(w[n], u)
<1> DEFINE new == [n \in Mutex |-> Without(w[n], t)]
<1>1. ASSUME NEW n \in Mutex
      PROVE  /\ Without(w[n], t) \in Seq(Task) /\ Injective(Without(w[n], t))
             /\ \A u \in Task : Contains(Without(w[n], t), u)
                                   <=> u # t /\ Contains(w[n], u)
  <2> DEFINE q == w[n]
  <2>1. q \in Seq(Task) /\ Injective(q)
    BY DEF EventLists, OneEvent
  <2> HIDE DEF q
  <2>2. /\ Without(q, t) \in Seq(Task) /\ Injective(Without(q, t))
        /\ \A u \in Task : Contains(Without(q, t), u) <=> u # t /\ Contains(q, u)
    BY <2>1, WithoutIsRemoval DEF Contains
  <2> QED BY <2>2 DEF q
<1>2. \A n \in Mutex : new[n] = Without(w[n], t)
  OBVIOUS
<1>3. new \in EventLists
  BY <1>1 DEF EventLists
<1> HIDE DEF new
<1>4. OneEvent(new)
  BY <1>1, <1>2 DEF OneEvent
<1> QED BY <1>1, <1>3, <1>4 DEF new

\* A list is empty when no task is on it.
LEMMA EmptyList ==
    ASSUME NEW s \in Seq(Task)
    PROVE  s = <<>> <=> \A u \in Task : ~Contains(s, u)
<1>1. ASSUME s # <<>> PROVE \E u \in Task : Contains(s, u)
  <2>1. 1 \in 1 .. Len(s) /\ s[1] \in Task
    BY <1>1
  <2> QED BY <2>1 DEF Contains
<1>2. ASSUME s = <<>>, NEW u PROVE ~Contains(s, u)
  BY <1>2 DEF Contains
<1> QED BY <1>1, <1>2

LEMMA SameEmpty ==
    ASSUME NEW w \in EventLists, NEW new \in EventLists, SameTasks(new, w)
    PROVE  \A m \in Mutex : new[m] = <<>> <=> w[m] = <<>>
<1> SUFFICES ASSUME NEW m \in Mutex PROVE new[m] = <<>> <=> w[m] = <<>>
  OBVIOUS
<1>1. new[m] \in Seq(Task) /\ w[m] \in Seq(Task)
  BY DEF EventLists
<1> QED BY <1>1, EmptyList DEF SameTasks

\* The event list a waiting task is on.
LEMMA EventOfIs ==
    ASSUME NEW t, Waiting(t)
    PROVE  EventOf(t) \in Mutex /\ Contains(waiting[EventOf(t)], t)
BY DEF Waiting, EventOf

\* event_find_priority_position() goes on with a task of the list, or ends.
LEMMA EventNextIs ==
    ASSUME NEW evs \in Seq(Task), search.pos \in Task
    PROVE  EventNext(evs) \in Task \cup {NULL}
<1>1. CASE search.pos \notin ToSet(evs)
  <2>1. CASE evs = <<>>
    <3>1. evs \o <<NULL>> = <<NULL>>
      BY <2>1
    <3> QED BY <1>1, <3>1 DEF EventNext
  <2>2. CASE evs # <<>>
    <3> DEFINE s == evs \o <<NULL>>
    <3>0. evs \in Seq(Task \cup {NULL}) /\ <<NULL>> \in Seq(Task \cup {NULL})
      OBVIOUS
    <3>1. s \in Seq(Task \cup {NULL}) /\ Len(s) = Len(evs) + 1
      BY <3>0
    <3> HIDE DEF s
    <3>2. s # <<>> /\ Head(s) = s[1] /\ 1 \in 1 .. Len(s)
      BY <3>1
    <3> QED BY <1>1, <3>1, <3>2 DEF EventNext, s
  <2> QED BY <2>1, <2>2
<1>2. CASE search.pos \in ToSet(evs) /\ search.pos = Last(evs)
  BY <1>2 DEF EventNext
<1>3. CASE search.pos \in ToSet(evs) /\ search.pos # Last(evs)
  <2> DEFINE i == CHOOSE i \in DOMAIN evs : evs[i] = search.pos
  <2>1. i \in DOMAIN evs /\ evs[i] = search.pos
    BY <1>3 DEF ToSet
  <2> HIDE DEF i
  <2>2. i # Len(evs)
    BY <1>3, <2>1 DEF Last
  <2>3. 1 + i \in 1 .. Len(evs)
    BY <2>1, <2>2
  <2> QED BY <1>3, <2>3 DEF EventNext, i
<1> QED BY <1>1, <1>2, <1>3

-----------------------------------------------------------------------------
(* The inductive invariant.                                                  *)

LoanRecord == [to : Caller, prio : Nat]

MTypes ==
    /\ higher_priority_task_ready \in BOOLEAN
    /\ list \in [ListId -> Seq(Task)]
    /\ priority \in [Task -> Priority]
    /\ count \in [Mutex -> Nat]
    /\ task_owner \in [Mutex -> Caller]
    /\ waiting \in EventLists
    /\ search \in SearchRecord \cup {NoSearch}
    /\ held \in [Mutex -> [Caller -> Nat]]
    /\ loan \in [Task -> LoanRecord]
    /\ woken \in [Mutex -> SUBSET Task]

\* While the search runs, a task that is still suspended is on the list; a
\* handler may have taken the mutex of an unlock, but not that of a loan.
SearchOK ==
    search # NoSearch =>
        /\ OnList(search.task, Suspended)
              => Contains(waiting[search.event], search.task)
        /\ search.call = "unlock"
              => count[search.of] = 0 \/ task_owner[search.of] = NULL
        /\ search.call = "inherit"
              => /\ count[search.of] > 0 /\ task_owner[search.of] # NULL
                 /\ \A i \in 1 .. Len(stack) :
                       stack[i].pc = "event" => ~Waiting(stack[i].task)

\* The count of a mutex is that of its owner's locks.
Owners ==
    \A m \in Mutex :
        /\ \A c \in Caller : held[m][c] = IF c = task_owner[m] THEN count[m] ELSE 0
        /\ task_owner[m] = NULL => count[m] <= 1

\* Only an owner has a priority that is not its own.
Lent ==
    \A t \in Task : priority[t] # original_priority[t]
                       => \E m \in Mutex : task_owner[m] = t /\ count[m] > 0

WokenLeft == \A m \in Mutex, t \in Task : t \in woken[m] => ~Contains(waiting[m], t)

SomeoneTries ==
    \A m \in Mutex :
        /\ waiting[m] # <<>> /\ count[m] = 0
        /\ search = NoSearch \/ search.call # "unlock" \/ search.of # m
        => woken[m] # {}

MInv ==
    /\ MTypes
    /\ MStackInv
    /\ OneList(list, priority)
    /\ OneEvent(waiting)
    /\ SearchOK
    /\ Owners
    /\ Lent
    /\ LoanHonoured
    /\ WokenLeft
    /\ SomeoneTries

-----------------------------------------------------------------------------
\* Who executes: with a search open, application code is that of a handler.
LEMMA Executing ==
    ASSUME MInv
    PROVE  /\ current_task \in Caller
           /\ search # NoSearch => search \in SearchRecord
           /\ search # NoSearch => search.task \in Task /\ search.pos \in Task
                                   /\ search.event \in Mutex /\ search.of \in Mutex
           /\ InUserCode /\ search # NoSearch => current_task = NULL
           /\ InUserCode /\ current_task # NULL
                 => Top.kind = "task" /\ Top.task = current_task /\ search = NoSearch
           /\ InUserCode /\ Top.kind = "task"
                 => current_task = Top.task /\ Top.task \in Task /\ search = NoSearch
           /\ Top.pc \in {"event", "delay"} => Top.kind = "task" /\ Top.task \in Task
           /\ Top.pc = "delay" => search = NoSearch
           /\ Top.pc = "event" => search # NoSearch /\ current_task = search.task
           /\ Top.pc = "event" /\ search.call # "inherit" => Top.task = search.task
<1>1. /\ MFrameOK(Top) /\ current_task = Current(Top, search)
      /\ Top.saved \in Task \cup {NULL} /\ Top \in MFrame
      /\ Top.pc = "event" => Looks(Top, search) /\ current_task = search.task
      /\ Top.pc # "event" /\ search # NoSearch => Top.kind = "isr"
  BY MTop DEF MInv
<1>2. /\ search # NoSearch => search \in SearchRecord
      /\ search # NoSearch => search.task \in Task /\ search.pos \in Task
                              /\ search.event \in Mutex /\ search.of \in Mutex
  BY DEF MInv, MTypes, SearchRecord
<1>3. Top.pc = "event" => search # NoSearch
  BY <1>1 DEF Looks
<1>4. current_task \in Caller
  BY <1>1, <1>2, <1>3 DEF Current, CurrentTaskOf, MFrameOK, Caller
<1>5. InUserCode /\ search # NoSearch => current_task = NULL
  BY <1>1 DEF Current, CurrentTaskOf, InUserCode
<1>6. InUserCode /\ current_task # NULL
         => Top.kind = "task" /\ Top.task = current_task /\ search = NoSearch
  BY <1>1 DEF Current, CurrentTaskOf, InUserCode
<1>7. InUserCode /\ Top.kind = "task"
         => current_task = Top.task /\ Top.task \in Task /\ search = NoSearch
  BY <1>1 DEF Current, CurrentTaskOf, InUserCode, MFrameOK
<1>8. /\ Top.pc \in {"event", "delay"} => Top.kind = "task" /\ Top.task \in Task
      /\ Top.pc = "delay" => search = NoSearch
  BY <1>1 DEF MFrameOK
<1>9. Top.pc = "event" /\ search.call # "inherit" => Top.task = search.task
  BY <1>1 DEF Looks
<1> QED BY <1>1, <1>2, <1>3, <1>4, <1>5, <1>6, <1>7, <1>8, <1>9

\* A task is on the list of its priority, or on no ready list.
LEMMA RequeuedIs ==
    ASSUME list \in [ListId -> Seq(Task)], OneList(list, priority),
           priority \in [Task -> Priority],
           NEW o \in Task, NEW p \in Priority
    PROVE  /\ Requeued(list, o, p) \in [ListId -> Seq(Task)]
           /\ OneList(Requeued(list, o, p), [priority EXCEPT ![o] = p])
           /\ \A u \in Task : Holds(Requeued(list, o, p), Suspended, u)
                                 <=> Holds(list, Suspended, u)
<1> DEFINE prio == [priority EXCEPT ![o] = p]
<1> DEFINE new == Requeued(list, o, p)
<1>1. AgreeBut(prio, priority, o) /\ prio[o] = p /\ p \in ListId
  BY DEF AgreeBut, ListId
<1>1a. Suspended \in ListId /\ Suspended \notin Priority
  BY PriorityAssumption DEF ListId, Suspended, Priority
<1> HIDE DEF prio
<1>2. CASE Contains(list[priority[o]], o)
  <2>1. Moves(new, list, o, p)
    BY <1>2 DEF Requeued, Moves
  <2> HIDE DEF new
  <2>2. /\ new \in [ListId -> Seq(Task)]
        /\ OneList(new, prio)
        /\ \A u \in Task, k \in ListId :
              Holds(new, k, u) <=> IF u = o THEN k = p ELSE Holds(list, k, u)
    <3>1. list \in [ListId -> Seq(Task)] /\ OneList(list, priority) /\ o \in Task
          /\ AgreeBut(prio, priority, o) /\ p \in ListId
          /\ (p \in Priority => prio[o] = p) /\ Moves(new, list, o, p)
      BY <1>1, <2>1
    <3> QED BY <3>1, MoveKeepsLists, Zenon
  <2>3. ~Holds(list, Suspended, o)
    <3>1. Holds(list, priority[o], o) /\ priority[o] \in ListId
          /\ priority[o] \in Priority
      BY <1>2 DEF Contains, Holds, ListId
    <3> QED BY <1>1a, <3>1 DEF OneList, Holds
  <2> QED BY <1>1a, <2>2, <2>3 DEF new, prio
<1>3. CASE ~Contains(list[priority[o]], o)
  <2>1. new = list
    BY <1>3 DEF Requeued
  <2>2. ASSUME NEW k \in ListId, NEW i \in 1 .. Len(list[k]), k \in Priority
        PROVE  prio[list[k][i]] = k
    <3>1. priority[list[k][i]] = k
      BY <2>2 DEF OneList
    <3>2. list[k] \in Seq(Task)
      OBVIOUS
    <3>3. list[k][i] \in Task
      BY <3>2
    <3>4. list[k][i] # o
      BY <1>3, <3>1 DEF Contains
    <3> QED BY <1>1, <3>1, <3>3, <3>4 DEF AgreeBut
  <2>3. ASSUME NEW k \in ListId, NEW l \in ListId,
               NEW i \in 1 .. Len(list[k]), NEW j \in 1 .. Len(list[l]),
               list[k][i] = list[l][j]
        PROVE  k = l /\ i = j
    BY <2>3 DEF OneList
  <2>4. OneList(list, prio)
    BY <2>2, <2>3 DEF OneList
  <2> QED BY <2>1, <2>4 DEF prio
<1> QED BY <1>2, <1>3

\* A task moves between scheduler lists while the priorities stay.
LEMMA MoveIs ==
    ASSUME NEW ls \in [ListId -> Seq(Task)], NEW prio, OneList(ls, prio),
           NEW t \in Task, NEW l \in ListId, l \in Priority => prio[t] = l,
           NEW new, Moves(new, ls, t, l)
    PROVE  /\ new \in [ListId -> Seq(Task)]
           /\ OneList(new, prio)
           /\ \A u \in Task : Holds(new, Suspended, u)
                 <=> IF u = t THEN l = Suspended ELSE Holds(ls, Suspended, u)
<1>1. AgreeBut(prio, prio, t) /\ Suspended \in ListId
  BY DEF AgreeBut, ListId
<1>2. /\ new \in [ListId -> Seq(Task)]
      /\ OneList(new, prio)
      /\ \A u \in Task, k \in ListId :
            Holds(new, k, u) <=> IF u = t THEN k = l ELSE Holds(ls, k, u)
  BY <1>1, MoveKeepsLists
<1> QED BY <1>1, <1>2

LEMMA OnListIs == \A t, l : OnList(t, l) <=> Holds(list, l, t)
BY DEF OnList, Holds

\* event_add_task_to_event() ends with the tasks that waited before.
LEMMA EventMoveIs ==
    ASSUME MInv, search # NoSearch, NEW pos,
           \/ pos = NULL
           \/ /\ pos \in Task /\ pos # search.task
              /\ Contains(waiting[search.event], pos)
    PROVE  /\ EventMove(pos) \in EventLists
           /\ OneEvent(EventMove(pos))
           /\ SameTasks(EventMove(pos), waiting)
<1> DEFINE t == search.task
           m == search.event
           evs == Without(waiting[m], t)
           k == IF pos = NULL THEN Len(evs) + 1
                ELSE CHOOSE i \in DOMAIN evs : evs[i] = pos
<1>1. t \in Task /\ m \in Mutex
  BY Executing
<1>2. waiting \in EventLists /\ OneEvent(waiting) /\ waiting[m] \in Seq(Task)
  BY <1>1 DEF MInv, MTypes, EventLists
<1>3. CASE OnList(t, Suspended)
  <2>1. Contains(waiting[m], t)
    BY <1>3 DEF MInv, SearchOK
  <2>2. /\ evs \in Seq(Task)
        /\ \A u \in Task : Contains(evs, u) <=> u # t /\ Contains(waiting[m], u)
    <3> DEFINE q == waiting[m]
    <3>1. q \in Seq(Task) /\ Injective(q)
      BY <1>1, <1>2 DEF OneEvent
    <3> HIDE DEF q
    <3>2. /\ Without(q, t) \in Seq(Task)
          /\ \A u \in Task : Contains(Without(q, t), u) <=> u # t /\ Contains(q, u)
      BY <1>1, <3>1, WithoutIsRemoval DEF Contains
    <3> QED BY <3>2 DEF q
  <2> HIDE DEF evs
  <2>3. k \in 1 .. Len(evs) + 1
    <3>1. CASE pos = NULL
      BY <2>2, <3>1
    <3>2. CASE pos # NULL
      <4>1. pos \in Task /\ Contains(evs, pos)
        BY <2>2, <3>2
      <4>2. \E i \in DOMAIN evs : evs[i] = pos
        BY <2>2, <4>1 DEF Contains
      <4>3. k \in DOMAIN evs
        BY <3>2, <4>2
      <4> HIDE DEF k
      <4> QED BY <2>2, <4>3
    <3> QED BY <3>1, <3>2
  <2>4. EventMove(pos) = [waiting EXCEPT ![m] = InsertAt(evs, k, t)]
    BY <1>3 DEF EventMove, evs
  <2> HIDE DEF k, t, m
  <2>5. k \in 1 .. Len(Without(waiting[m], t)) + 1
    BY <2>3 DEF evs
  <2>6. EventMove(pos) = [waiting EXCEPT ![m] = InsertAt(Without(waiting[m], t), k, t)]
    BY <2>4 DEF evs
  <2> DEFINE new == [waiting EXCEPT ![m] = InsertAt(Without(waiting[m], t), k, t)]
  <2>7. new \in EventLists /\ OneEvent(new) /\ SameTasks(new, waiting)
    BY <1>1, <1>2, <2>1, <2>5, MovesInList, Zenon
  <2> HIDE DEF new
  <2>8. EventMove(pos) = new
    BY <2>6 DEF new
  <2> QED BY <2>7, <2>8
<1>4. CASE ~OnList(t, Suspended)
  BY <1>2, <1>4 DEF EventMove, SameTasks
<1> QED BY <1>3, <1>4

\* What event_resume_task() and the end of mutex_unlock(m) do to the lists ls
\* and evs.
LEMMA ReleaseIs ==
    ASSUME MInv, NEW m \in Mutex, NEW ls \in [ListId -> Seq(Task)],
           NEW prio \in [Task -> Priority], OneList(ls, prio),
           \A u \in Task : Holds(ls, Suspended, u) <=> OnList(u, Suspended),
           NEW evs \in EventLists, OneEvent(evs), SameTasks(evs, waiting),
           ReleaseTo(m, ls, prio, evs)
    PROVE  /\ higher_priority_task_ready' \in BOOLEAN
           /\ list' \in [ListId -> Seq(Task)]
           /\ OneList(list', prio)
           /\ waiting' \in EventLists /\ OneEvent(waiting')
           /\ \A n \in Mutex, u \in Task :
                 Contains(waiting'[n], u) => Contains(waiting[n], u)
           /\ \A n \in Mutex, u \in Task :
                 Contains(waiting[n], u) /\ OnList(u, Suspended)'
                    => Contains(waiting'[n], u) /\ OnList(u, Suspended)
           /\ \A u \in Task : OnList(u, Suspended)' => OnList(u, Suspended)
           /\ woken' \in [Mutex -> SUBSET Task] /\ WokenLeft'
           /\ waiting'[m] # <<>> => woken'[m] # {}
           /\ \A n \in Mutex : n # m =>
                 woken'[n] = woken[n] /\ (waiting'[n] # <<>> => waiting[n] # <<>>)
           /\ task_owner' \in [Mutex -> Caller]
           /\ task_owner' = [task_owner EXCEPT ![m] = NULL]
           /\ loan' \in [Task -> LoanRecord]
           /\ \A t \in Task : loan'[t] = loan[t] \/ loan'[t] = NoLoan
           /\ \A t \in Task : loan'[t].to # NULL
                 => loan'[t] = loan[t] /\ loan[t].to # task_owner[m]
<1> DEFINE w == Head(evs[m])
<1>1. /\ list \in [ListId -> Seq(Task)] /\ waiting \in EventLists
      /\ loan \in [Task -> LoanRecord] /\ woken \in [Mutex -> SUBSET Task]
      /\ task_owner \in [Mutex -> Caller] /\ WokenLeft
      /\ higher_priority_task_ready \in BOOLEAN
  BY DEF MInv, MTypes
<1>2. /\ task_owner' = [task_owner EXCEPT ![m] = NULL]
      /\ task_owner' \in [Mutex -> Caller]
  BY <1>1 DEF ReleaseTo, Caller
<1>3. NoLoan \in LoanRecord /\ NoLoan.to = NULL
  BY DEF NoLoan, LoanRecord, Caller
<1>4. /\ loan' \in [Task -> LoanRecord]
      /\ \A t \in Task : loan'[t] = loan[t] \/ loan'[t] = NoLoan
      /\ \A t \in Task : loan'[t].to # NULL
            => loan'[t] = loan[t] /\ loan[t].to # task_owner[m]
  BY <1>1, <1>3 DEF ReleaseTo
<1>5. evs[m] \in Seq(Task) /\ \A n \in Mutex : evs[n] = <<>> <=> waiting[n] = <<>>
  BY <1>1, SameEmpty DEF EventLists
<1>6. \A u \in Task : OnList(u, Suspended)' <=> Holds(list', Suspended, u)
  BY DEF OnList, Holds
<1>7. CASE evs[m] = <<>>
  <2>1. /\ list' = ls /\ waiting' = evs
        /\ UNCHANGED <<higher_priority_task_ready, woken>>
    BY <1>7 DEF ReleaseTo
  <2>2. WokenLeft'
    BY <1>1, <2>1 DEF WokenLeft, SameTasks
  <2> QED BY <1>1, <1>2, <1>4, <1>5, <1>6, <1>7, <2>1, <2>2 DEF SameTasks
<1>8. CASE evs[m] # <<>>
  <2>1. /\ list' = LastOn(ls, w, prio[w])
        /\ waiting' = [evs EXCEPT ![m] = Tail(evs[m])]
        /\ higher_priority_task_ready' =
              (higher_priority_task_ready
                 \/ prio[w] > (IF current_task = NULL THEN -1
                               ELSE prio[current_task]))
        /\ woken' = [woken EXCEPT ![m] = IF waiting'[m] = <<>> THEN {}
                                         ELSE woken[m] \cup {w}]
    BY <1>8 DEF ReleaseTo
  <2>2. higher_priority_task_ready' \in BOOLEAN
    BY <2>1
  <2>3. /\ waiting' \in EventLists /\ OneEvent(waiting')
        /\ w \in Task /\ Contains(evs[m], w)
        /\ \A n \in Mutex, u \in Task :
              Contains(waiting'[n], u) <=> Contains(evs[n], u) /\ u # w
    BY <1>8, <2>1, FirstLeaves
  <2> HIDE DEF w
  <2>4. /\ list' \in [ListId -> Seq(Task)] /\ OneList(list', prio)
        /\ \A u \in Task : Holds(list', Suspended, u)
              <=> u # w /\ Holds(ls, Suspended, u)
    <3>1. /\ prio[w] \in Priority /\ prio[w] \in ListId /\ prio[w] # Suspended
      BY <2>3, PriorityAssumption DEF ListId, Priority, Suspended
    <3>2. Moves(list', ls, w, prio[w])
      BY <2>1 DEF Moves
    <3> QED BY <2>3, <3>1, <3>2, MoveIs
  <2>5. woken' \in [Mutex -> SUBSET Task]
    BY <1>1, <2>1, <2>3
  <2>6. \A n \in Mutex : n # m => woken'[n] = woken[n] /\ waiting'[n] = evs[n]
    BY <1>1, <2>1 DEF EventLists
  <2>7. waiting'[m] # <<>> => w \in woken'[m]
    BY <1>1, <2>1
  <2>8. WokenLeft'
    <3> SUFFICES ASSUME NEW n \in Mutex, NEW t \in Task, t \in woken'[n]
                 PROVE  ~Contains(waiting'[n], t)
      BY DEF WokenLeft
    <3>1. t = w \/ t \in woken[n]
      BY <1>1, <2>1, <2>6
    <3> QED BY <1>1, <2>3, <3>1 DEF WokenLeft, SameTasks
  <2>9. \A n \in Mutex, u \in Task :
           Contains(waiting'[n], u) <=> Contains(waiting[n], u) /\ u # w
    BY <2>3 DEF SameTasks
  <2>10. \A u \in Task : OnList(u, Suspended)' <=> u # w /\ OnList(u, Suspended)
    BY <1>6, <2>4
  <2> QED BY <1>2, <1>4, <1>5, <2>2, <2>3, <2>4, <2>5, <2>6, <2>7, <2>8, <2>9, <2>10
<1> QED BY <1>7, <1>8

-----------------------------------------------------------------------------
(* Steps that leave the mutexes alone.                                       *)

\* The frames of r that look for a place did so in s.
LooksKept(s, r) ==
    \A i \in 1 .. Len(r) : r[i].pc = "event" =>
        \E j \in 1 .. Len(s) : s[j].pc = "event" /\ s[j].task = r[i].task

LEMMA LooksKeptIs ==
    ASSUME NEW s \in Seq(MFrame), s # <<>>
    PROVE  /\ \A pc, t, n : pc # "event" => LooksKept(s, Goto(s, pc, t, n))
           /\ \A f \in MFrame : f.pc # "event" => LooksKept(s, Push(s, f))
           /\ LooksKept(s, Pop(s))
           /\ LooksKept(s, s)
<1>1. Len(s) \in Nat /\ Len(s) >= 1
  OBVIOUS
<1>2. ASSUME NEW pc, NEW t, NEW n, pc # "event"
      PROVE  LooksKept(s, Goto(s, pc, t, n))
  <2> DEFINE f == Moved(Last(s), pc, t, n)
  <2>1. f.pc # "event"
    BY <1>2 DEF Moved
  <2> HIDE DEF f
  <2>2. Goto(s, pc, t, n) = [s EXCEPT ![Len(s)] = f]
    BY DEF Goto, f
  <2>3. /\ Len(Goto(s, pc, t, n)) = Len(s)
        /\ \A i \in 1 .. Len(s) :
              Goto(s, pc, t, n)[i] = IF i = Len(s) THEN f ELSE s[i]
    BY <1>1, <2>2
  <2> QED BY <2>1, <2>3 DEF LooksKept
<1>3. ASSUME NEW f \in MFrame, f.pc # "event" PROVE LooksKept(s, Push(s, f))
  <2>1. /\ Len(Push(s, f)) = Len(s) + 1
        /\ \A i \in 1 .. Len(s) + 1 :
              Push(s, f)[i] = IF i = Len(s) + 1 THEN f ELSE s[i]
        /\ \A i \in 1 .. Len(s) + 1 : i # Len(s) + 1 => i \in 1 .. Len(s)
    BY <1>1 DEF Push
  <2> QED BY <1>3, <2>1 DEF LooksKept
<1>4. LooksKept(s, Pop(s))
  <2> DEFINE n == Len(s)
  <2>1. Pop(s) = SubSeq(s, 1, n - 1)
    BY DEF Pop, Front
  <2>2. n - 1 \in Nat /\ \A i \in 1 .. n - 1 : i \in 1 .. n /\ s[i] \in MFrame
    BY <1>1
  <2> HIDE DEF n
  <2>3. Len(Pop(s)) = n - 1 /\ \A i \in 1 .. n - 1 : Pop(s)[i] = s[i]
    BY <2>1, <2>2
  <2> QED BY <2>2, <2>3 DEF LooksKept, n
<1>5. LooksKept(s, s)
  BY DEF LooksKept
<1> QED BY <1>2, <1>3, <1>4, <1>5

\* A search that goes on in a frame below still knows what it knew.
LEMMA SearchKept ==
    ASSUME MInv, MStackInv', UNCHANGED search,
           search # NoSearch =>
              /\ LooksKept(stack, stack')
              /\ OnList(search.task, Suspended)' =>
                    /\ OnList(search.task, Suspended)
                    /\ Contains(waiting[search.event], search.task)
                          => Contains(waiting'[search.event], search.task)
              /\ count[search.of] = 0 \/ task_owner[search.of] = NULL
                    => count'[search.of] = 0 \/ task_owner'[search.of] = NULL
              /\ count[search.of] > 0 /\ task_owner[search.of] # NULL
                    => count'[search.of] > 0 /\ task_owner'[search.of] # NULL,
           \A n \in Mutex, u \in Task : Contains(waiting'[n], u) => Contains(waiting[n], u)
    PROVE  SearchOK'
<1> SUFFICES ASSUME search # NoSearch PROVE SearchOK'
  BY DEF SearchOK
<1>1. /\ OnList(search.task, Suspended)'
            => Contains(waiting'[search.event], search.task)
      /\ search.call = "unlock"
            => count'[search.of] = 0 \/ task_owner'[search.of] = NULL
      /\ search.call = "inherit"
            => count'[search.of] > 0 /\ task_owner'[search.of] # NULL
  BY DEF MInv, SearchOK
<1>2. ASSUME search.call = "inherit", NEW i \in 1 .. Len(stack'), stack'[i].pc = "event"
      PROVE  (~Waiting(stack[i].task))'
  <2>1. PICK j \in 1 .. Len(stack) : stack[j].pc = "event"
                                     /\ stack[j].task = stack'[i].task
    BY <1>2 DEF LooksKept
  <2>2. ~Waiting(stack[j].task)
    BY <1>2, <2>1 DEF MInv, SearchOK
  <2>3. MFrameOK(stack[j])
    BY MStackTypes DEF MInv, MStackInv
  <2>4. stack[j].task \in Task
    BY <2>1, <2>3 DEF MFrameOK
  <2> QED BY <2>1, <2>2, <2>4 DEF Waiting
<1> QED BY <1>1, <1>2 DEF SearchOK

LEMMA MutexesKept ==
    ASSUME MInv, UNCHANGED <<mutexVars, priority>>, MStackInv',
           higher_priority_task_ready' \in BOOLEAN,
           list' \in [ListId -> Seq(Task)], OneList(list', priority),
           search # NoSearch =>
              /\ LooksKept(stack, stack')
              /\ OnList(search.task, Suspended)' => OnList(search.task, Suspended)
    PROVE  MInv'
<1>1. UNCHANGED <<count, task_owner, waiting, search, held, loan, woken, priority>>
  BY DEF mutexVars
<1>2. MTypes'
  BY <1>1 DEF MInv, MTypes
<1>3. SearchOK'
  BY <1>1, SearchKept
<1>4. OneEvent(waiting)' /\ OneList(list, priority)'
  BY <1>1 DEF MInv
<1>5. Owners' /\ Lent' /\ LoanHonoured' /\ WokenLeft' /\ SomeoneTries'
  BY <1>1 DEF MInv, Owners, Lent, LoanHonoured, WokenLeft, SomeoneTries
<1> QED BY <1>2, <1>3, <1>4, <1>5 DEF MInv

LEMMA StackSeq ==
    ASSUME MInv
    PROVE  /\ stack \in Seq(MFrame) /\ stack # <<>>
           /\ MStackInv /\ list \in [ListId -> Seq(Task)]
           /\ OneList(list, priority) /\ priority \in [Task -> Priority]
           /\ higher_priority_task_ready \in BOOLEAN
BY DEF MInv, MTypes, MStackInv, MStackOK

\* A dispatch moves a task to the end of the list of its priority.
LEMMA DispatchMoves ==
    ASSUME MInv, NEW t \in Task, Dispatch(t)
    PROVE  /\ list' \in [ListId -> Seq(Task)]
           /\ OneList(list', priority)
           /\ higher_priority_task_ready' \in BOOLEAN
           /\ priority' = priority
<1>1. priority[t] \in Priority /\ priority[t] \in ListId
  BY StackSeq DEF ListId
<1>2. Moves(list', list, t, priority[t])
  BY DEF Dispatch, MoveLast, Moves
<1>3. list' \in [ListId -> Seq(Task)] /\ OneList(list', priority)
  BY <1>1, <1>2, StackSeq, MoveIs
<1> QED BY <1>3 DEF Dispatch

LEMMA KernelOperationStep ==
    ASSUME MInv, KernelOperation
    PROVE  MInv'
<1>0. UNCHANGED mutexVars /\ UNCHANGED search
  BY DEF KernelOperation, mutexVars
<1>1. ASSUME NEW t \in Task, TaskResume(t) PROVE MInv'
  <2>1. MStackInv'
    BY <1>0, <1>1, StackSeq, MTaskResume
  <2>2. UNCHANGED <<higher_priority_task_ready, list, priority>>
    BY <1>1 DEF TaskResume, LockFor
  <2>3. LooksKept(stack, stack')
    BY <1>1, StackSeq, LooksKeptIs DEF TaskResume, LockFor
  <2>4. UNCHANGED <<mutexVars, priority>> /\ (OnList(search.task, Suspended)' => OnList(search.task, Suspended))
    BY <1>0, <2>2 DEF OnList
  <2> QED BY <2>1, <2>2, <2>3, <2>4, StackSeq, MutexesKept
<1>2. ASSUME NEW t \in Task, SchedDispatch(t) PROVE MInv'
  <2>1. MStackInv' /\ search = NoSearch
    BY <1>0, <1>2, StackSeq, MSchedDispatch
  <2>2. UNCHANGED <<mutexVars, priority>>
    BY <1>0, <1>2 DEF SchedDispatch, Dispatch
  <2> QED BY <1>2, <2>1, <2>2, DispatchMoves, MutexesKept DEF SchedDispatch
<1>3. ASSUME NEW t \in Task, TaskReturn(t) PROVE MInv'
  <2>1. MStackInv' /\ search = NoSearch
    BY <1>0, <1>3, StackSeq, MTaskReturn
  <2>2. UNCHANGED <<mutexVars, priority>>
    BY <1>0, <1>3 DEF TaskReturn, Dispatch
  <2> QED BY <1>3, <2>1, <2>2, DispatchMoves, MutexesKept DEF TaskReturn
<1>4. ASSUME UNCHANGED <<higher_priority_task_ready, list, priority>>,
             LooksKept(stack, stack'), MStackInv'
      PROVE  MInv'
  <2>1. UNCHANGED <<mutexVars, priority>> /\ (OnList(search.task, Suspended)' => OnList(search.task, Suspended))
    BY <1>0, <1>4 DEF OnList
  <2> QED BY <1>4, <2>1, StackSeq, MutexesKept
<1>5. CASE OperationUnlock
  <2>1. LooksKept(stack, stack')
    <3>1. AfterUnlock # "event"
      BY DEF AfterUnlock
    <3> QED BY <1>5, <3>1, StackSeq, LooksKeptIs DEF OperationUnlock, Unlock
  <2> QED BY <1>0, <1>4, <1>5, <2>1, StackSeq, MOperationUnlock DEF OperationUnlock, Unlock
<1>6. CASE SchedNothing
  <2>1. LooksKept(stack, stack')
    <3>1. AfterUnlock # "event"
      BY DEF AfterUnlock
    <3> QED BY <1>6, <3>1, StackSeq, LooksKeptIs DEF SchedNothing
  <2> QED BY <1>0, <1>4, <1>6, <2>1, StackSeq, MSchedNothing DEF SchedNothing
<1>7. CASE TaskReturnLast
  BY <1>0, <1>4, <1>7, StackSeq, MTaskReturnLast, LooksKeptIs DEF TaskReturnLast
<1>8. CASE MainLoop
  BY <1>0, <1>4, <1>8, StackSeq, MMainLoop, LooksKeptIs DEF MainLoop
<1>9. CASE InterruptEnter
  <2> DEFINE f == [kind |-> "isr", task |-> NULL, saved |-> current_task, pc |-> "run",
                   arg |-> NULL, locks |-> 1, base |-> scheduler_depth]
  <2>1. f \in MFrame /\ f.pc # "event" /\ current_task \in Task \cup {NULL}
    BY Executing, MTop DEF MInv, MFrame, Kind, MPC, PC, Caller
  <2>2. stack' = Push(stack, f)
    BY <1>9 DEF InterruptEnter
  <2> HIDE DEF f
  <2>3. LooksKept(stack, stack')
    BY <2>1, <2>2, StackSeq, LooksKeptIs
  <2> QED BY <1>0, <1>4, <1>9, <2>1, <2>3, StackSeq, MInterruptEnter DEF InterruptEnter
<1>10. CASE InterruptUnlock
  BY <1>0, <1>4, <1>10, StackSeq, MInterruptUnlock, LooksKeptIs DEF InterruptUnlock
<1>11. CASE InterruptReturn
  BY <1>0, <1>4, <1>11, StackSeq, MInterruptReturn, LooksKeptIs DEF InterruptReturn
<1>12. Others \subseteq Task
  BY MutexAssumption
<1> QED BY <1>1, <1>2, <1>3, <1>5, <1>6, <1>7, <1>8, <1>9, <1>10, <1>11, <1>12
        DEF KernelOperation

\* task_suspend(): not of the task that looks for its place.
LEMMA SuspendTaskStep ==
    ASSUME MInv, NEW t \in Task, SuspendTask(t)
    PROVE  MInv'
<1>1. /\ search.task # t /\ TaskSuspend(t) /\ UNCHANGED <<mutexVars, priority, search>>
      /\ UNCHANGED <<stack, scheduler_depth, current_task, running>>
      /\ UNCHANGED higher_priority_task_ready
  BY DEF SuspendTask, TaskSuspend, mutexVars
<1>2. Suspended \in ListId /\ Suspended \notin Priority
  BY PriorityAssumption DEF ListId, Suspended, Priority
<1>3. Moves(list', list, t, Suspended)
  BY <1>1 DEF TaskSuspend, MoveFirst, Moves
<1>4. /\ list' \in [ListId -> Seq(Task)] /\ OneList(list', priority)
      /\ \A u \in Task : Holds(list', Suspended, u)
            <=> IF u = t THEN Suspended = Suspended ELSE Holds(list, Suspended, u)
  BY <1>2, <1>3, StackSeq, MoveIs
<1>5. search # NoSearch =>
         (OnList(search.task, Suspended)' => OnList(search.task, Suspended))
  BY <1>1, <1>4, Executing DEF OnList, Holds
<1>6. MStackInv'
  BY <1>1, StackSeq, MStackUnchanged
<1>7. LooksKept(stack, stack')
  BY <1>1, StackSeq, LooksKeptIs
<1> QED BY <1>1, <1>4, <1>5, <1>6, <1>7, StackSeq, MutexesKept

-----------------------------------------------------------------------------
(* Steps on the mutexes that search for nothing.                             *)

LEMMA DataTypes ==
    ASSUME MInv
    PROVE  /\ count \in [Mutex -> Nat] /\ task_owner \in [Mutex -> Caller]
           /\ waiting \in EventLists /\ OneEvent(waiting)
           /\ held \in [Mutex -> [Caller -> Nat]] /\ loan \in [Task -> LoanRecord]
           /\ woken \in [Mutex -> SUBSET Task]
           /\ search \in SearchRecord \cup {NoSearch}
           /\ Owners /\ Lent /\ LoanHonoured /\ WokenLeft /\ SomeoneTries
           /\ \A m \in Mutex : count[m] \in Nat /\ task_owner[m] \in Caller
           /\ NULL \in Caller /\ \A t \in Task : t \in Caller /\ t # NULL
BY NullAssumption DEF MInv, MTypes, Caller

\* mutex_lock(): the owner, or nobody else, counts.
LEMMA MutexLockStep ==
    ASSUME MInv, NEW m \in Mutex, MutexLock(m)
    PROVE  MInv'
<1>1. /\ UNCHANGED <<waiting, search, loan, list, priority, stack, scheduler_depth,
                     current_task, running, higher_priority_task_ready>>
      /\ InUserCode
      /\ woken' = [woken EXCEPT ![m] = woken[m] \ {current_task}]
  BY DEF MutexLock, vars
<1>2. current_task \in Caller
  BY Executing
<1>3. MStackInv' /\ LooksKept(stack, stack')
  BY <1>1, StackSeq, MStackUnchanged, LooksKeptIs
<1>4. \/ /\ CanBeLocked(m)
         /\ count' = [count EXCEPT ![m] = count[m] + 1]
         /\ task_owner' = [task_owner EXCEPT ![m] = current_task]
         /\ held' = [held EXCEPT ![m][current_task] = held[m][current_task] + 1]
      \/ /\ ~CanBeLocked(m)
         /\ UNCHANGED <<count, task_owner, held>>
  BY DEF MutexLock
<1>5. MTypes'
  <2>1. count' \in [Mutex -> Nat] /\ task_owner' \in [Mutex -> Caller]
    BY <1>2, <1>4, DataTypes
  <2>2. held' \in [Mutex -> [Caller -> Nat]]
    <3>1. held[m] \in [Caller -> Nat] /\ held[m][current_task] + 1 \in Nat
      BY <1>2, DataTypes
    <3> DEFINE h == [held[m] EXCEPT ![current_task] = held[m][current_task] + 1]
    <3>2. h \in [Caller -> Nat]
      BY <3>1
    <3>3. held' = [held EXCEPT ![m] = h] \/ held' = held
      BY <1>4
    <3> HIDE DEF h
    <3> QED BY <3>2, <3>3, DataTypes
  <2>3. woken' \in [Mutex -> SUBSET Task]
    BY <1>1, DataTypes
  <2> QED BY <1>1, <2>1, <2>2, <2>3 DEF MInv, MTypes
<1>6. \A n \in Mutex : n # m => /\ count'[n] = count[n] /\ task_owner'[n] = task_owner[n]
                                /\ held'[n] = held[n] /\ woken'[n] = woken[n]
  BY <1>1, <1>4, DataTypes
<1>7. CanBeLocked(m) => /\ count'[m] = count[m] + 1 /\ task_owner'[m] = current_task
                        /\ \A c \in Caller : held'[m][c] = IF c = current_task
                                                THEN held[m][c] + 1 ELSE held[m][c]
  BY <1>2, <1>4, DataTypes
<1>8. CanBeLocked(m) <=> count[m] = 0 \/ (current_task = task_owner[m]
                                          /\ current_task # NULL)
  BY DEF CanBeLocked
<1>9. SearchOK'
  <2>1. search # NoSearch =>
           /\ count[search.of] = 0 \/ task_owner[search.of] = NULL
                 => count'[search.of] = 0 \/ task_owner'[search.of] = NULL
           /\ count[search.of] > 0 /\ task_owner[search.of] # NULL
                 => count'[search.of] > 0 /\ task_owner'[search.of] # NULL
    <3> SUFFICES ASSUME search # NoSearch
                 PROVE  /\ count[search.of] = 0 \/ task_owner[search.of] = NULL
                              => count'[search.of] = 0 \/ task_owner'[search.of] = NULL
                        /\ count[search.of] > 0 /\ task_owner[search.of] # NULL
                              => count'[search.of] > 0 /\ task_owner'[search.of] # NULL
      OBVIOUS
    <3>1. current_task = NULL /\ search.of \in Mutex
      BY <1>1, Executing
    <3>2. CASE search.of # m
      BY <1>6, <3>1, <3>2
    <3>3. CASE search.of = m /\ CanBeLocked(m)
      BY <1>7, <1>8, <3>1, <3>3, DataTypes
    <3>4. CASE search.of = m /\ ~CanBeLocked(m)
      BY <1>4, <3>4
    <3> QED BY <3>2, <3>3, <3>4
  <2>2. OnList(search.task, Suspended)' => OnList(search.task, Suspended)
    BY <1>1 DEF OnList
  <2> QED BY <1>1, <1>3, <2>1, <2>2, SearchKept
<1>10. Owners'
  <2> SUFFICES ASSUME NEW n \in Mutex
               PROVE  /\ \A c \in Caller :
                            held'[n][c] = IF c = task_owner'[n] THEN count'[n] ELSE 0
                      /\ task_owner'[n] = NULL => count'[n] <= 1
    BY DEF Owners
  <2>1. /\ \A c \in Caller : held[n][c] = IF c = task_owner[n] THEN count[n] ELSE 0
        /\ task_owner[n] = NULL => count[n] <= 1
    BY DataTypes DEF Owners
  <2>2. CASE n # m
    BY <1>6, <2>1, <2>2
  <2>3. CASE n = m /\ CanBeLocked(m)
    <3>1. CASE count[m] = 0
      BY <1>7, <2>1, <2>3, <3>1, DataTypes
    <3>2. CASE count[m] # 0
      BY <1>7, <1>8, <2>1, <2>3, <3>2, DataTypes
    <3> QED BY <3>1, <3>2
  <2>4. CASE n = m /\ ~CanBeLocked(m)
    BY <1>4, <2>1, <2>4
  <2> QED BY <2>2, <2>3, <2>4
<1>11. Lent'
  <2> SUFFICES ASSUME NEW t \in Task, priority[t] # original_priority[t]
               PROVE  \E n \in Mutex : task_owner'[n] = t /\ count'[n] > 0
    BY <1>1 DEF Lent
  <2>1. PICK n \in Mutex : task_owner[n] = t /\ count[n] > 0
    BY DataTypes DEF Lent
  <2>2. task_owner'[n] = t /\ count'[n] > 0
    <3>1. CASE n # m
      BY <1>6, <2>1, <3>1
    <3>2. CASE n = m /\ CanBeLocked(m)
      BY <1>7, <1>8, <2>1, <3>2, DataTypes
    <3>3. CASE n = m /\ ~CanBeLocked(m)
      BY <1>4, <2>1, <3>3
    <3> QED BY <3>1, <3>2, <3>3
  <2> QED BY <2>2
<1>12. WokenLeft'
  <2>1. \A n \in Mutex : woken'[n] \subseteq woken[n]
    BY <1>1, DataTypes
  <2> QED BY <1>1, <2>1, DataTypes DEF WokenLeft
<1>13. SomeoneTries'
  <2>1. count'[m] # 0
    BY <1>4, <1>7, <1>8, DataTypes
  <2> QED BY <1>1, <1>6, <2>1, DataTypes DEF SomeoneTries
<1>14. LoanHonoured' /\ OneEvent(waiting)' /\ OneList(list, priority)'
  BY <1>1 DEF MInv, LoanHonoured
<1> QED BY <1>3, <1>5, <1>9, <1>10, <1>11, <1>12, <1>13, <1>14 DEF MInv

\* A step that neither locks nor lends: the mutexes and priorities stay.
LEMMA LocksKept ==
    ASSUME MInv, UNCHANGED <<count, task_owner, held, priority>>,
           \A t \in Task : loan'[t] = loan[t] \/ loan'[t] = NoLoan
    PROVE  Owners' /\ Lent' /\ LoanHonoured'
<1>1. Owners' /\ Lent'
  BY DataTypes DEF Owners, Lent
<1>2. ASSUME NEW t \in Task, loan'[t].to # NULL
      PROVE  priority[loan'[t].to] >= loan'[t].prio
  <2>1. loan'[t] = loan[t]
    BY <1>2 DEF NoLoan
  <2> QED BY <1>2, <2>1, DataTypes DEF LoanHonoured
<1> QED BY <1>1, <1>2 DEF LoanHonoured

\* task_resume() of a task that waits, or the end of its timeout.
LEMMA ResumeWaitingStep ==
    ASSUME MInv, ResumeWaiting
    PROVE  MInv'
<1> DEFINE t == Top.arg
<1>1. /\ ResumeInsert /\ UNCHANGED <<count, task_owner, search, held, priority>>
      /\ waiting' = [m \in Mutex |-> Without(waiting[m], t)]
      /\ loan' = [loan EXCEPT ![t] = NoLoan]
      /\ woken' = [m \in Mutex |-> IF waiting'[m] = <<>> THEN {} ELSE woken[m]]
  BY DEF ResumeWaiting, ResumeInsert
<1>2. t \in Task /\ Top.pc = "resume"
  BY <1>1, StackSeq, MTop DEF ResumeInsert, MFrameOK
<1>3. MStackInv'
  BY <1>1, StackSeq, MResumeInsert
<1>4. LooksKept(stack, stack')
  BY <1>1, StackSeq, LooksKeptIs DEF ResumeInsert
<1>5. /\ list' \in [ListId -> Seq(Task)] /\ OneList(list', priority)
      /\ \A u \in Task : Holds(list', Suspended, u) <=> u # t /\ Holds(list, Suspended, u)
  <2>1. /\ priority[t] \in Priority /\ priority[t] \in ListId /\ priority[t] # Suspended
    BY <1>2, StackSeq, PriorityAssumption DEF ListId, Priority, Suspended
  <2>2. Moves(list', list, t, priority[t])
    BY <1>1 DEF ResumeInsert, MoveLast, Moves
  <2> HIDE DEF t
  <2> QED BY <1>2, <2>1, <2>2, StackSeq, MoveIs
<1>6. higher_priority_task_ready' \in BOOLEAN
  BY <1>1, StackSeq DEF ResumeInsert
<1> HIDE DEF t
<1>7. /\ waiting' \in EventLists /\ OneEvent(waiting')
      /\ \A n \in Mutex, u \in Task :
            Contains(waiting'[n], u) <=> u # t /\ Contains(waiting[n], u)
  BY <1>1, <1>2, DataTypes, LeavesAll
<1>8. /\ loan' \in [Task -> LoanRecord]
      /\ \A u \in Task : loan'[u] = loan[u] \/ loan'[u] = NoLoan
  BY <1>1, <1>2, DataTypes DEF NoLoan, LoanRecord
<1>9. \A n \in Mutex : woken'[n] = IF waiting'[n] = <<>> THEN {} ELSE woken[n]
  BY <1>1
<1>10. woken' \in [Mutex -> SUBSET Task]
  BY <1>1, DataTypes
<1>11. MTypes'
  BY <1>1, <1>5, <1>6, <1>7, <1>8, <1>10 DEF MInv, MTypes
<1>12. SearchOK'
  <2>1. ASSUME search # NoSearch, OnList(search.task, Suspended)'
        PROVE  /\ OnList(search.task, Suspended)
               /\ Contains(waiting[search.event], search.task)
                     => Contains(waiting'[search.event], search.task)
    <3>1. search.task \in Task /\ search.event \in Mutex
      BY <2>1, Executing
    <3>2. search.task # t /\ OnList(search.task, Suspended)
      BY <1>1, <1>5, <2>1, <3>1 DEF OnList, Holds
    <3> QED BY <1>7, <3>1, <3>2
  <2> QED BY <1>1, <1>3, <1>4, <1>7, <2>1, SearchKept
<1>13. WokenLeft'
  BY <1>7, <1>9, DataTypes DEF WokenLeft
<1>14. SomeoneTries'
  <2>1. \A n \in Mutex : waiting'[n] # <<>> => waiting[n] # <<>>
    <3> SUFFICES ASSUME NEW n \in Mutex, waiting[n] = <<>> PROVE waiting'[n] = <<>>
      OBVIOUS
    <3>1. waiting[n] \in Seq(Task) /\ waiting'[n] \in Seq(Task)
      BY <1>7, DataTypes DEF EventLists
    <3> QED BY <1>7, <3>1, EmptyList
  <2> QED BY <1>1, <1>9, <2>1, DataTypes DEF SomeoneTries
<1>15. Owners' /\ Lent' /\ LoanHonoured'
  BY <1>1, <1>8, LocksKept
<1> QED BY <1>1, <1>3, <1>5, <1>7, <1>11, <1>12, <1>13, <1>14, <1>15 DEF MInv

\* The rest of a wait with a timeout.
LEMMA DelayInsertStep ==
    ASSUME MInv, DelayInsert
    PROVE  MInv'
<1> DEFINE t == Top.task
<1>1. /\ Top.pc = "delay" /\ stack' = Goto(stack, "unlock", NULL, 0)
      /\ UNCHANGED <<scheduler_depth, higher_priority_task_ready, current_task,
                     priority, running, count, task_owner, waiting, search, held,
                     loan, woken>>
      /\ list' = LastOn(list, t, Delayed0) \/ list' = list
  BY DEF DelayInsert
<1>2. t \in Task /\ search = NoSearch
  BY <1>1, Executing
<1>3. scheduler_depth' = scheduler_depth + 0
  BY <1>1, StackSeq, MTop
<1>4. MStackInv'
  BY <1>1, <1>3, StackSeq, MToUnlock
<1>5. list' \in [ListId -> Seq(Task)] /\ OneList(list', priority)
  <2>1. CASE list' = LastOn(list, t, Delayed0)
    <3>1. Moves(list', list, t, Delayed0) /\ Delayed0 \in ListId /\ Delayed0 \notin Priority
      BY <2>1, PriorityAssumption DEF Moves, ListId, Delayed0, Priority
    <3> HIDE DEF t
    <3> QED BY <1>2, <3>1, StackSeq, MoveIs
  <2>2. CASE list' = list
    BY <2>2, StackSeq
  <2> QED BY <1>1, <2>1, <2>2
<1>6. MTypes'
  BY <1>1, <1>5 DEF MInv, MTypes
<1>7. SearchOK'
  BY <1>1, <1>2 DEF SearchOK
<1>8. Owners' /\ Lent' /\ LoanHonoured'
  BY <1>1, LocksKept
<1>9. WokenLeft' /\ SomeoneTries' /\ OneEvent(waiting)' /\ OneList(list, priority)'
  BY <1>1, <1>5, DataTypes DEF WokenLeft, SomeoneTries
<1> QED BY <1>4, <1>6, <1>7, <1>8, <1>9 DEF MInv

-----------------------------------------------------------------------------
(* Steps that wait and search.                                               *)

\* A task is suspended and begins to look for its place on the list of m.
LEMMA StartWaitIs ==
    ASSUME MInv, NEW t \in Task, NEW m \in Mutex, NEW timed \in BOOLEAN,
           NEW ls \in [ListId -> Seq(Task)], NEW prio, OneList(ls, prio),
           NEW evs \in EventLists, OneEvent(evs), SameTasks(evs, waiting),
           ~Waiting(t), StartWait(t, m, timed, ls, evs)
    PROVE  /\ list' \in [ListId -> Seq(Task)] /\ OneList(list', prio)
           /\ waiting' \in EventLists /\ OneEvent(waiting')
           /\ \A n \in Mutex : n # m =>
                 woken'[n] = woken[n] /\ (waiting'[n] # <<>> => waiting[n] # <<>>)
           /\ search' \in SearchRecord /\ search' # NoSearch
           /\ search'.task = t /\ search'.event = m /\ search'.of = m
           /\ search'.call = "wait" /\ current_task' = t
           /\ Contains(waiting'[m], t)
           /\ woken' \in [Mutex -> SUBSET Task] /\ WokenLeft'
<1>1. /\ list' = FirstOn(ls, t, Suspended)
      /\ waiting' = [evs EXCEPT ![m] = Append(evs[m], t)]
      /\ search' = SearchFor(t, m, waiting', "wait", m, timed)
      /\ current_task' = t
      /\ woken' = [woken EXCEPT ![m] = woken[m] \ {t}]
  BY DEF StartWait
<1>2. list' \in [ListId -> Seq(Task)] /\ OneList(list', prio)
  <2>1. /\ Moves(list', ls, t, Suspended)
        /\ Suspended \in ListId /\ Suspended \notin Priority
    BY <1>1, PriorityAssumption DEF Moves, ListId, Suspended, Priority
  <2> QED BY <2>1, MoveIs
<1>3. /\ waiting' \in EventLists /\ OneEvent(waiting')
      /\ \A n \in Mutex, u \in Task :
            Contains(waiting'[n], u) <=> Contains(evs[n], u) \/ (n = m /\ u = t)
  <2>1. \A n \in Mutex : ~Contains(evs[n], t)
    BY DEF Waiting, SameTasks
  <2> DEFINE new == [evs EXCEPT ![m] = Append(evs[m], t)]
  <2>2. /\ new \in EventLists /\ OneEvent(new)
        /\ \A n \in Mutex, u \in Task :
              Contains(new[n], u) <=> Contains(evs[n], u) \/ (n = m /\ u = t)
    BY <2>1, ComesToWait, Zenon
  <2>3. waiting' = new
    BY <1>1
  <2> HIDE DEF new
  <2> QED BY <2>2, <2>3
<1>4. \A n \in Mutex : n # m => woken'[n] = woken[n] /\ waiting'[n] = evs[n]
  BY <1>1, DataTypes DEF EventLists
<1>5. \A n \in Mutex : evs[n] = <<>> <=> waiting[n] = <<>>
  BY DataTypes, SameEmpty
<1>6. Contains(waiting'[m], t)
  BY <1>3
<1>7. Head(waiting'[m]) \in Task
  <2>1. waiting'[m] \in Seq(Task)
    BY <1>3 DEF EventLists
  <2>2. waiting'[m] # <<>>
    BY <1>6, <2>1, EmptyList
  <2> QED BY <2>1, <2>2
<1>8. /\ search' \in SearchRecord
      /\ search'.task = t /\ search'.event = m /\ search'.of = m
      /\ search'.call = "wait"
  BY <1>1, <1>7 DEF SearchFor, SearchRecord
<1>9. search' # NoSearch
  BY <1>8, NullAssumption DEF NoSearch
<1>10. woken' \in [Mutex -> SUBSET Task]
  BY <1>1, DataTypes
<1>11. WokenLeft'
  <2> SUFFICES ASSUME NEW n \in Mutex, NEW u \in Task, u \in woken'[n]
               PROVE  ~Contains(waiting'[n], u)
    BY DEF WokenLeft
  <2>1. u \in woken[n] /\ (n = m => u # t)
    BY <1>1, DataTypes
  <2> QED BY <1>3, <2>1, DataTypes DEF WokenLeft, SameTasks
<1> QED BY <1>1, <1>2, <1>3, <1>4, <1>5, <1>6, <1>8, <1>9, <1>10, <1>11

\* A task that waits goes to the end of its list and its place is looked for.
LEMMA SearchForWaiting ==
    ASSUME MInv, NEW o \in Task, Waiting(o), NEW m \in Mutex,
           NEW call \in {"inherit", "unlock"}, NEW timed \in BOOLEAN,
           waiting' = [waiting EXCEPT ![EventOf(o)] =
                          Append(Without(waiting[EventOf(o)], o), o)],
           search' = SearchFor(o, EventOf(o), waiting', call, m, timed),
           UNCHANGED woken
    PROVE  /\ waiting' \in EventLists /\ OneEvent(waiting')
           /\ SameTasks(waiting', waiting)
           /\ \A n \in Mutex : waiting'[n] = <<>> <=> waiting[n] = <<>>
           /\ search' \in SearchRecord /\ search' # NoSearch
           /\ search'.task = o /\ search'.of = m /\ search'.call = call
           /\ search'.event \in Mutex
           /\ Contains(waiting'[search'.event], o)
           /\ WokenLeft'
<1> DEFINE e == EventOf(o)
<1>1. e \in Mutex /\ Contains(waiting[e], o)
  BY EventOfIs
<1> HIDE DEF e
<1>1a. /\ waiting' = [waiting EXCEPT ![e] = Append(Without(waiting[e], o), o)]
       /\ search' = SearchFor(o, e, waiting', call, m, timed)
  BY DEF e
<1>2. /\ waiting' \in EventLists /\ OneEvent(waiting')
      /\ SameTasks(waiting', waiting)
  <2> DEFINE new == [waiting EXCEPT ![e] = Append(Without(waiting[e], o), o)]
  <2>1. waiting \in EventLists /\ OneEvent(waiting)
    BY DataTypes
  <2>2. new \in EventLists /\ OneEvent(new) /\ SameTasks(new, waiting)
    BY <1>1, <2>1, WaitsAgain, Zenon
  <2>3. waiting' = new
    BY <1>1a
  <2> HIDE DEF new
  <2> QED BY <2>2, <2>3
<1>3. \A n \in Mutex : waiting'[n] = <<>> <=> waiting[n] = <<>>
  BY <1>2, DataTypes, SameEmpty
<1>4. Contains(waiting'[e], o)
  BY <1>1, <1>2 DEF SameTasks
<1>5. Head(waiting'[e]) \in Task
  <2>1. waiting'[e] \in Seq(Task)
    BY <1>1, <1>2 DEF EventLists
  <2>2. waiting'[e] # <<>>
    BY <1>4, <2>1, EmptyList
  <2> QED BY <2>1, <2>2
<1>6. /\ search' \in SearchRecord
      /\ search'.task = o /\ search'.event = e /\ search'.of = m
      /\ search'.call = call
  BY <1>1, <1>1a, <1>5 DEF SearchFor, SearchRecord
<1>7. search' # NoSearch
  BY <1>6, NullAssumption DEF NoSearch
<1>8. WokenLeft'
  BY <1>2, DataTypes DEF WokenLeft, SameTasks
<1> QED BY <1>1, <1>2, <1>3, <1>4, <1>6, <1>7, <1>8

\* mutex_suspend(): the owner inherits, and the task or the owner looks for a
\* place.
LEMMA MutexSuspendStep ==
    ASSUME MInv, NEW m \in Mutex, NEW timed \in BOOLEAN, MutexSuspend(m, timed)
    PROVE  MInv'
<1> DEFINE t == Top.task
           o == task_owner[m]
           lends == Lends(o, t)
           ls == IF lends THEN Requeued(list, o, InheritedPriority(t)) ELSE list
<1>1. /\ InUserCode /\ Top.kind = "task" /\ Unavailable(m) /\ ~Waiting(t)
      /\ scheduler_depth' = scheduler_depth + 1
      /\ stack' = Goto(stack, "event", NULL, 1)
      /\ priority' = IF lends THEN [priority EXCEPT ![o] = InheritedPriority(t)]
                              ELSE priority
      /\ loan' = IF lends THEN [loan EXCEPT ![t] = [to |-> o, prio |-> priority[t]]]
                          ELSE loan
      /\ UNCHANGED <<higher_priority_task_ready, running, count, task_owner, held>>
      /\ \/ /\ lends /\ Waiting(o)
            /\ list' = ls
            /\ waiting' = [waiting EXCEPT ![EventOf(o)] =
                              Append(Without(waiting[EventOf(o)], o), o)]
            /\ search' = SearchFor(o, EventOf(o), waiting', "inherit", m, timed)
            /\ current_task' = o
            /\ UNCHANGED woken
         \/ StartWait(t, m, timed, ls, waiting)
  BY DEF MutexSuspend
<1>2. t \in Task /\ search = NoSearch /\ current_task = t
  BY <1>1, Executing
<1>3. count[m] > 0
  BY <1>1, DataTypes DEF Unavailable, CanBeLocked
<1>4. lends => o \in Task /\ priority[o] < priority[t]
  BY DataTypes DEF Lends, Caller
<1>5. \A u \in Task : priority[u] \in Priority /\ priority[u] \in Nat
  BY StackSeq, PriorityAssumption DEF Priority
<1>6. /\ priority' \in [Task -> Priority]
      /\ ls \in [ListId -> Seq(Task)] /\ OneList(ls, priority')
  <2>1. CASE lends
    <3>1. priority' = [priority EXCEPT ![o] = InheritedPriority(t)]
      BY <1>1, <2>1
    <3>2. InheritedPriority(t) \in Priority /\ o \in Task
      BY <1>2, <1>4, <1>5, <2>1 DEF InheritedPriority
    <3>3. ls = Requeued(list, o, InheritedPriority(t))
      BY <2>1
    <3> HIDE DEF o, t, ls
    <3> QED BY <3>1, <3>2, <3>3, StackSeq, RequeuedIs
  <2>2. CASE ~lends
    BY <1>1, <2>2, StackSeq
  <2> QED BY <2>1, <2>2
<1> HIDE DEF ls
<1>7. /\ \A u \in Task : /\ priority'[u] >= priority[u]
                         /\ priority'[u] # priority[u] => lends /\ u = o
      /\ lends => priority'[o] = priority[t]
  <2>1. CASE lends
    BY <1>1, <1>2, <1>4, <1>5, <2>1, StackSeq DEF InheritedPriority
  <2>2. CASE ~lends
    BY <1>1, <1>5, <2>2
  <2> QED BY <2>1, <2>2
<1>8. Lent'
  <2> SUFFICES ASSUME NEW u \in Task, priority'[u] # original_priority[u]
               PROVE  \E n \in Mutex : task_owner[n] = u /\ count[n] > 0
    BY <1>1 DEF Lent
  <2>1. CASE priority'[u] = priority[u]
    BY <2>1, DataTypes DEF Lent
  <2>2. CASE priority'[u] # priority[u]
    BY <1>3, <1>7, <2>2
  <2> QED BY <2>1, <2>2
<1>9. loan' \in [Task -> LoanRecord]
  <2>1. lends => [to |-> o, prio |-> priority[t]] \in LoanRecord
    BY <1>2, <1>5, DataTypes DEF LoanRecord
  <2> QED BY <1>1, <2>1, DataTypes
<1>10. LoanHonoured'
  <2> SUFFICES ASSUME NEW u \in Task, loan'[u].to # NULL
               PROVE  priority'[loan'[u].to] >= loan'[u].prio
    BY DEF LoanHonoured
  <2>1. CASE lends /\ u = t
    <3>1. loan'[u] = [to |-> o, prio |-> priority[t]]
      BY <1>1, <1>2, <2>1, DataTypes
    <3> QED BY <1>2, <1>5, <1>7, <2>1, <3>1
  <2>2. CASE ~(lends /\ u = t)
    <3>1. loan'[u] = loan[u]
      BY <1>1, <2>2, DataTypes
    <3>2. /\ loan[u].to \in Task /\ loan[u].prio \in Nat
          /\ priority[loan[u].to] >= loan[u].prio
      BY <2>2, <3>1, DataTypes DEF LoanHonoured, LoanRecord, Caller
    <3>3. priority'[loan[u].to] \in Nat /\ priority'[loan[u].to] >= priority[loan[u].to]
      BY <1>6, <1>7, <3>2, PriorityAssumption DEF Priority
    <3> QED BY <1>5, <3>1, <3>2, <3>3
  <2> QED BY <2>1, <2>2
<1>11. Owners'
  BY <1>1, DataTypes DEF Owners
<1>12. \A i \in 1 .. Len(stack') : stack'[i].pc = "event" => stack'[i].task = t
  <2> DEFINE f == Moved(Last(stack), "event", NULL, 1)
  <2>1. f.task = t /\ stack' = [stack EXCEPT ![Len(stack)] = f]
    BY <1>1, StackSeq, MTop DEF Moved, Goto
  <2> HIDE DEF f
  <2>2. \A i \in 1 .. Len(stack) : stack[i].pc # "event"
    BY <1>2 DEF MInv, MStackInv, MStackOK, Searching, Looks
  <2> QED BY <2>1, <2>2, StackSeq
<1>14. CASE /\ lends /\ Waiting(o)
            /\ list' = ls
            /\ waiting' = [waiting EXCEPT ![EventOf(o)] =
                              Append(Without(waiting[EventOf(o)], o), o)]
            /\ search' = SearchFor(o, EventOf(o), waiting', "inherit", m, timed)
            /\ current_task' = o
            /\ UNCHANGED woken
  <2>1. o \in Task /\ o # NULL
    BY <1>4, <1>14, NullAssumption
  <2>2. /\ waiting' \in EventLists /\ OneEvent(waiting')
        /\ SameTasks(waiting', waiting)
        /\ \A n \in Mutex : waiting'[n] = <<>> <=> waiting[n] = <<>>
        /\ search' \in SearchRecord /\ search' # NoSearch
        /\ search'.task = o /\ search'.of = m /\ search'.call = "inherit"
        /\ search'.event \in Mutex
        /\ Contains(waiting'[search'.event], o)
        /\ WokenLeft'
    <3> HIDE DEF o, t, lends
    <3> QED BY <1>14, <2>1, SearchForWaiting
  <2>3. MStackInv'
    BY <1>1, <1>14, <2>2, StackSeq, MSearchBegins
  <2>4. MTypes'
    BY <1>1, <1>6, <1>9, <1>14, <2>2 DEF MInv, MTypes
  <2>5. SearchOK'
    <3>2. \A i \in 1 .. Len(stack') : stack'[i].pc = "event" =>
             \A n \in Mutex : ~Contains(waiting'[n], stack'[i].task)
      BY <1>1, <1>2, <1>12, <2>2 DEF Waiting, SameTasks
    <3> QED BY <1>1, <1>3, <2>1, <2>2, <3>2 DEF SearchOK, Waiting
  <2>6. SomeoneTries'
    <3>1. UNCHANGED <<count, woken>> /\ \A n \in Mutex : waiting'[n] = <<>> <=> waiting[n] = <<>>
      BY <1>1, <1>14, <2>2
    <3>2. \A n \in Mutex : waiting[n] # <<>> /\ count[n] = 0 => woken[n] # {}
      BY <1>2, DataTypes DEF SomeoneTries
    <3> QED BY <3>1, <3>2 DEF SomeoneTries
  <2> QED BY <1>6, <1>8, <1>10, <1>11, <1>14, <2>2, <2>3, <2>4, <2>5, <2>6 DEF MInv
<1>15. CASE StartWait(t, m, timed, ls, waiting)
  <2>1. /\ list' \in [ListId -> Seq(Task)] /\ OneList(list', priority')
        /\ waiting' \in EventLists /\ OneEvent(waiting')
        /\ \A n \in Mutex : n # m =>
              woken'[n] = woken[n] /\ (waiting'[n] # <<>> => waiting[n] # <<>>)
        /\ search' \in SearchRecord /\ search' # NoSearch
        /\ search'.task = t /\ search'.event = m /\ search'.of = m
        /\ search'.call = "wait" /\ current_task' = t
        /\ Contains(waiting'[m], t)
        /\ woken' \in [Mutex -> SUBSET Task] /\ WokenLeft'
    <3>1. SameTasks(waiting, waiting) /\ waiting \in EventLists /\ OneEvent(waiting)
      BY DataTypes DEF SameTasks
    <3> HIDE DEF t
    <3> DEFINE prio == priority'
    <3>2. OneList(ls, prio)
      BY <1>6
    <3> HIDE DEF prio
    <3>3. list' \in [ListId -> Seq(Task)] /\ OneList(list', prio)
      BY <1>1, <1>2, <1>6, <1>15, <3>1, <3>2, StartWaitIs
    <3> QED BY <1>1, <1>2, <1>6, <1>15, <3>1, <3>2, <3>3, StartWaitIs DEF prio
  <2>2. MStackInv'
    BY <1>1, <2>1, StackSeq, MSearchBegins
  <2>3. MTypes'
    BY <1>1, <1>6, <1>9, <2>1 DEF MInv, MTypes
  <2>4. SearchOK'
    BY <2>1 DEF SearchOK
  <2>5. SomeoneTries'
    <3>1. /\ UNCHANGED count
          /\ \A n \in Mutex : n # m =>
                woken'[n] = woken[n] /\ (waiting'[n] # <<>> => waiting[n] # <<>>)
      BY <1>1, <2>1
    <3>2. \A n \in Mutex : waiting[n] # <<>> /\ count[n] = 0 => woken[n] # {}
      BY <1>2, DataTypes DEF SomeoneTries
    <3>3. \A n \in Mutex : count[n] = 0 => n # m
      BY <1>3
    <3> QED BY <3>1, <3>2, <3>3 DEF SomeoneTries
  <2> QED BY <1>8, <1>10, <1>11, <2>1, <2>2, <2>3, <2>4, <2>5 DEF MInv
<1> QED BY <1>1, <1>14, <1>15

-----------------------------------------------------------------------------
(* mutex_unlock().                                                           *)

\* The mutex has one lock less; its holder is its owner.
LEMMA UnlockCounts ==
    ASSUME MInv, NEW m \in Mutex, MutexUnlock(m)
    PROVE  /\ InUserCode /\ count[m] > 0 /\ task_owner[m] = current_task
           /\ current_task \in Caller
           /\ count' \in [Mutex -> Nat] /\ held' \in [Mutex -> [Caller -> Nat]]
           /\ count'[m] = count[m] - 1
           /\ \A n \in Mutex : n # m => count'[n] = count[n] /\ held'[n] = held[n]
           /\ \A c \in Caller : held'[m][c] = IF c = current_task
                                             THEN count[m] - 1 ELSE 0
<1>1. /\ InUserCode /\ count[m] > 0 /\ task_owner[m] = current_task
      /\ count' = [count EXCEPT ![m] = count[m] - 1]
      /\ held' = [held EXCEPT ![m][current_task] = held[m][current_task] - 1]
  BY DEF MutexUnlock
<1>2. current_task \in Caller
  BY Executing
<1>3. /\ held[m] \in [Caller -> Nat] /\ held[m][current_task] = count[m]
      /\ \A c \in Caller : c # current_task => held[m][c] = 0
      /\ count[m] \in Nat /\ count[m] - 1 \in Nat
  BY <1>1, <1>2, DataTypes DEF Owners
<1> DEFINE h == [held[m] EXCEPT ![current_task] = held[m][current_task] - 1]
<1>4. /\ h \in [Caller -> Nat]
      /\ \A c \in Caller : h[c] = IF c = current_task THEN count[m] - 1 ELSE 0
  BY <1>2, <1>3
<1>5. held' = [held EXCEPT ![m] = h]
  BY <1>1
<1> HIDE DEF h
<1>6. /\ held' \in [Mutex -> [Caller -> Nat]] /\ held'[m] = h
      /\ \A n \in Mutex : n # m => held'[n] = held[n]
  BY <1>4, <1>5, DataTypes
<1>7. /\ count' \in [Mutex -> Nat] /\ count'[m] = count[m] - 1
      /\ \A n \in Mutex : n # m => count'[n] = count[n]
  BY <1>1, <1>3, DataTypes
<1> QED BY <1>1, <1>2, <1>4, <1>6, <1>7

\* A lock of several is undone.
LEMMA UnlockOne ==
    ASSUME MInv, NEW m \in Mutex, MutexUnlock(m), count[m] > 1
    PROVE  MInv'
<1>1. /\ UNCHANGED <<task_owner, waiting, search, loan, woken, list, priority, stack,
                     scheduler_depth, current_task, running,
                     higher_priority_task_ready>>
  <2>1. count[m] # 1
    BY DataTypes
  <2>2. UNCHANGED <<vars, task_owner, waiting, search, delayed, loan, woken>>
    BY <2>1, Zenon DEF MutexUnlock
  <2> QED BY <2>2 DEF vars
<1>2. MStackInv' /\ LooksKept(stack, stack')
  BY <1>1, StackSeq, MStackUnchanged, LooksKeptIs
<1>3. MTypes'
  BY <1>1, UnlockCounts DEF MInv, MTypes
<1>4. search = NoSearch /\ current_task # NULL
  BY UnlockCounts, Executing, DataTypes DEF Owners
<1>5. SearchOK'
  BY <1>1, <1>4 DEF SearchOK
<1>6. Owners'
  BY <1>1, <1>4, UnlockCounts, DataTypes DEF Owners
<1>7. \A n \in Mutex : count'[n] = count[n] \/ (count[n] > 0 /\ count'[n] > 0)
  <2>1. count[m] \in Nat /\ count'[m] = count[m] - 1
    BY UnlockCounts, DataTypes
  <2>2. count'[m] > 0
    BY <2>1
  <2>3. \A n \in Mutex : n # m => count'[n] = count[n]
    BY UnlockCounts
  <2> QED BY <2>1, <2>2, <2>3
<1>8. Lent'
  <2>1. Lent
    BY DEF MInv
  <2> QED BY <1>1, <1>7, <2>1 DEF Lent
<1>9. SomeoneTries'
  <2>1. SomeoneTries
    BY DEF MInv
  <2> QED BY <1>1, <1>7, <2>1 DEF SomeoneTries
<1>10. OneEvent(waiting)' /\ OneList(list, priority)' /\ LoanHonoured' /\ WokenLeft'
  BY <1>1 DEF MInv, LoanHonoured, WokenLeft
<1> QED BY <1>2, <1>3, <1>5, <1>6, <1>8, <1>9, <1>10 DEF MInv

\* The part of MutexUnlock for the last lock.
LastUnlock(m) ==
    LET o == task_owner[m]
        restored == Restored(o)
        prio == IF restored THEN [priority EXCEPT ![o] = original_priority[o]]
                            ELSE priority
        ls == IF restored THEN Requeued(list, o, original_priority[o]) ELSE list
    IN  /\ scheduler_depth' = scheduler_depth + 1
        /\ priority' = prio
        /\ UNCHANGED <<current_task, running>>
        /\ \/ /\ restored /\ Waiting(o)
              /\ list' = ls
              /\ waiting' = [waiting EXCEPT ![EventOf(o)] =
                                Append(Without(waiting[EventOf(o)], o), o)]
              /\ search' = SearchFor(o, EventOf(o), waiting', "unlock", m, FALSE)
              /\ loan' = [t \in Task |-> IF loan[t].to = o THEN NoLoan ELSE loan[t]]
              /\ stack' = Goto(stack, "event", NULL, 1)
              /\ UNCHANGED <<task_owner, higher_priority_task_ready, delayed, woken>>
           \/ /\ ~(restored /\ Waiting(o))
              /\ ReleaseTo(m, ls, prio, waiting)
              /\ stack' = Goto(stack, "unlock", NULL, 1)
              /\ UNCHANGED search

\* The last lock is undone: the owner has its own priority again, and then the
\* loans to it have ended.
LEMMA UnlockLast ==
    ASSUME MInv, NEW m \in Mutex, MutexUnlock(m), count[m] = 1
    PROVE  MInv'
<1> DEFINE o == task_owner[m]
           restored == Restored(o)
           prio == IF restored THEN [priority EXCEPT ![o] = original_priority[o]]
                               ELSE priority
           ls == IF restored THEN Requeued(list, o, original_priority[o]) ELSE list
<1>1. /\ scheduler_depth' = scheduler_depth + 1
      /\ priority' = prio
      /\ UNCHANGED <<current_task, running>>
      /\ \/ /\ restored /\ Waiting(o)
            /\ list' = ls
            /\ waiting' = [waiting EXCEPT ![EventOf(o)] =
                              Append(Without(waiting[EventOf(o)], o), o)]
            /\ search' = SearchFor(o, EventOf(o), waiting', "unlock", m, FALSE)
            /\ loan' = [t \in Task |-> IF loan[t].to = o THEN NoLoan ELSE loan[t]]
            /\ stack' = Goto(stack, "event", NULL, 1)
            /\ UNCHANGED <<task_owner, higher_priority_task_ready, woken>>
         \/ /\ ReleaseTo(m, ls, prio, waiting)
            /\ stack' = Goto(stack, "unlock", NULL, 1)
            /\ UNCHANGED search
  <2>1. ~(count[m] > 1)
    BY DataTypes
  <2>2. LastUnlock(m)
    BY <2>1, Zenon DEF MutexUnlock, LastUnlock
  <2> HIDE DEF restored
  <2> QED BY <2>2, Zenon DEF LastUnlock, restored
<1>2. /\ InUserCode /\ o = current_task /\ o \in Caller
      /\ o # NULL => o \in Task /\ Top.kind = "task" /\ Top.task = o
      /\ search # NoSearch => o = NULL
      /\ count'[m] = 0 /\ \A n \in Mutex : n # m => count'[n] = count[n]
  BY UnlockCounts, Executing DEF Caller
<1>3. original_priority \in [Task -> Priority]
  BY MutexAssumption
<1>4. /\ prio \in [Task -> Priority]
      /\ ls \in [ListId -> Seq(Task)] /\ OneList(ls, prio)
      /\ \A u \in Task : Holds(ls, Suspended, u) <=> OnList(u, Suspended)
  <2>1. CASE restored
    <3>1. o \in Task /\ original_priority[o] \in Priority
      BY <1>2, <1>3, <2>1 DEF Restored
    <3>2. /\ prio = [priority EXCEPT ![o] = original_priority[o]]
          /\ ls = Requeued(list, o, original_priority[o])
      BY <2>1
    <3> HIDE DEF o, prio, ls
    <3> QED BY <3>1, <3>2, StackSeq, RequeuedIs, OnListIs
  <2>2. CASE ~restored
    BY <2>2, StackSeq, OnListIs
  <2> QED BY <2>1, <2>2
<1>5. /\ \A u \in Task : u # o => prio[u] = priority[u]
      /\ o # NULL => prio[o] = original_priority[o]
  <2>1. CASE restored
    BY <1>2, <2>1, StackSeq DEF Restored
  <2>2. CASE ~restored
    BY <2>2 DEF Restored
  <2> QED BY <2>1, <2>2
<1> HIDE DEF prio, ls
<1>6. ASSUME NEW u \in Task, priority'[u] # original_priority[u]
      PROVE  \E n \in Mutex : n # m /\ task_owner[n] = u /\ count'[n] > 0
  <2>1. u # o /\ priority[u] # original_priority[u]
    BY <1>1, <1>2, <1>5, <1>6, DataTypes
  <2> QED BY <1>2, <2>1, DataTypes DEF Lent
<1>7. ASSUME \A t \in Task : loan'[t].to # NULL
                => loan'[t] = loan[t] /\ loan[t].to # o
      PROVE  LoanHonoured'
  <2> SUFFICES ASSUME NEW t \in Task, loan'[t].to # NULL
               PROVE  priority'[loan'[t].to] >= loan'[t].prio
    BY DEF LoanHonoured
  <2>1. loan'[t] = loan[t] /\ loan[t].to # o /\ loan[t].to # NULL
    BY <1>7
  <2>2. loan[t].to \in Task /\ priority[loan[t].to] >= loan[t].prio
    BY <2>1, DataTypes DEF LoanHonoured, LoanRecord, Caller
  <2> QED BY <1>1, <1>5, <2>1, <2>2
<1>8. ASSUME task_owner' = [task_owner EXCEPT ![m] = NULL] \/ task_owner' = task_owner
      PROVE  Owners' /\ Lent'
  <2>1. \A n \in Mutex : n # m => task_owner'[n] = task_owner[n] /\ held'[n] = held[n]
    BY <1>8, UnlockCounts, DataTypes
  <2>2. Lent'
    BY <1>6, <2>1 DEF Lent
  <2>3. \A c \in Caller : held'[m][c] = 0
    BY UnlockCounts
  <2>4. Owners'
    BY <1>2, <2>1, <2>3, DataTypes DEF Owners
  <2> QED BY <2>2, <2>4
<1>9. count' \in [Mutex -> Nat] /\ held' \in [Mutex -> [Caller -> Nat]]
  BY UnlockCounts
<1>10. CASE /\ restored /\ Waiting(o)
            /\ list' = ls
            /\ waiting' = [waiting EXCEPT ![EventOf(o)] =
                              Append(Without(waiting[EventOf(o)], o), o)]
            /\ search' = SearchFor(o, EventOf(o), waiting', "unlock", m, FALSE)
            /\ loan' = [t \in Task |-> IF loan[t].to = o THEN NoLoan ELSE loan[t]]
            /\ stack' = Goto(stack, "event", NULL, 1)
            /\ UNCHANGED <<task_owner, higher_priority_task_ready, woken>>
  <2>1. o \in Task /\ o # NULL /\ search = NoSearch
    BY <1>2, <1>10 DEF Restored
  <2>2. /\ waiting' \in EventLists /\ OneEvent(waiting')
        /\ \A n \in Mutex : waiting'[n] = <<>> <=> waiting[n] = <<>>
        /\ search' \in SearchRecord /\ search' # NoSearch
        /\ search'.task = o /\ search'.of = m /\ search'.call = "unlock"
        /\ search'.event \in Mutex
        /\ Contains(waiting'[search'.event], o)
        /\ WokenLeft'
    <3>1. "unlock" \in {"inherit", "unlock"} /\ FALSE \in BOOLEAN
      OBVIOUS
    <3> HIDE DEF o, restored
    <3> QED BY <1>10, <2>1, <3>1, SearchForWaiting
  <2>3. MStackInv'
    BY <1>1, <1>2, <1>10, <2>1, <2>2, StackSeq, MSearchBegins
  <2>4. /\ loan' \in [Task -> LoanRecord]
        /\ \A t \in Task : loan'[t].to # NULL => loan'[t] = loan[t] /\ loan[t].to # o
    BY <1>10, DataTypes DEF NoLoan, LoanRecord, Caller
  <2>5. MTypes'
    BY <1>1, <1>4, <1>9, <1>10, <2>2, <2>4 DEF MInv, MTypes
  <2>6. SearchOK'
    BY <1>2, <2>1, <2>2 DEF SearchOK
  <2>7. SomeoneTries'
    <3>1. \A n \in Mutex : waiting[n] # <<>> /\ count[n] = 0 => woken[n] # {}
      BY <2>1, DataTypes DEF SomeoneTries
    <3> QED BY <1>2, <1>10, <2>2, <3>1 DEF SomeoneTries
  <2>8. Owners' /\ Lent' /\ LoanHonoured'
    BY <1>7, <1>8, <1>10, <2>4
  <2>9. OneList(list, priority)'
    BY <1>1, <1>4, <1>10
  <2> QED BY <2>2, <2>3, <2>5, <2>6, <2>7, <2>8, <2>9 DEF MInv
<1>11. CASE /\ ReleaseTo(m, ls, prio, waiting)
            /\ stack' = Goto(stack, "unlock", NULL, 1)
            /\ UNCHANGED search
  <2>1. /\ higher_priority_task_ready' \in BOOLEAN
        /\ list' \in [ListId -> Seq(Task)]
        /\ OneList(list', prio)
        /\ waiting' \in EventLists /\ OneEvent(waiting')
        /\ \A n \in Mutex, u \in Task :
              Contains(waiting'[n], u) => Contains(waiting[n], u)
        /\ \A n \in Mutex, u \in Task :
              Contains(waiting[n], u) /\ OnList(u, Suspended)'
                 => Contains(waiting'[n], u) /\ OnList(u, Suspended)
        /\ \A u \in Task : OnList(u, Suspended)' => OnList(u, Suspended)
        /\ woken' \in [Mutex -> SUBSET Task] /\ WokenLeft'
        /\ waiting'[m] # <<>> => woken'[m] # {}
        /\ \A n \in Mutex : n # m =>
              woken'[n] = woken[n] /\ (waiting'[n] # <<>> => waiting[n] # <<>>)
        /\ task_owner' \in [Mutex -> Caller]
        /\ task_owner' = [task_owner EXCEPT ![m] = NULL]
        /\ loan' \in [Task -> LoanRecord]
        /\ \A t \in Task : loan'[t] = loan[t] \/ loan'[t] = NoLoan
        /\ \A t \in Task : loan'[t].to # NULL
              => loan'[t] = loan[t] /\ loan[t].to # task_owner[m]
    <3>1. SameTasks(waiting, waiting) /\ waiting \in EventLists /\ OneEvent(waiting)
      BY DataTypes DEF SameTasks
    <3> QED BY <1>4, <1>11, <3>1, ReleaseIs
  <2>2. MStackInv' /\ LooksKept(stack, stack')
    BY <1>1, <1>2, <1>11, StackSeq, MToUnlock, LooksKeptIs
  <2>3. MTypes'
    BY <1>1, <1>4, <1>9, <1>11, <2>1 DEF MInv, MTypes
  <2>4. SearchOK'
    <3>1. ASSUME search # NoSearch
          PROVE  /\ search.task \in Task /\ search.event \in Mutex /\ search.of \in Mutex
                 /\ task_owner[m] = NULL
      BY <1>2, <3>1, Executing
    <3>2. ASSUME search # NoSearch
          PROVE  /\ count[search.of] = 0 \/ task_owner[search.of] = NULL
                       => count'[search.of] = 0 \/ task_owner'[search.of] = NULL
                 /\ count[search.of] > 0 /\ task_owner[search.of] # NULL
                       => count'[search.of] > 0 /\ task_owner'[search.of] # NULL
      BY <1>2, <2>1, <3>1, <3>2, DataTypes
    <3>3. ASSUME search # NoSearch, OnList(search.task, Suspended)'
          PROVE  /\ OnList(search.task, Suspended)
                 /\ Contains(waiting[search.event], search.task)
                       => Contains(waiting'[search.event], search.task)
      <4> DEFINE e == search.event
      <4> DEFINE t == search.task
      <4>1. t \in Task /\ Holds(list', Suspended, t)
        BY <1>11, <3>1, <3>3 DEF OnList, Holds
      <4>2. e \in Mutex
        BY <3>1, <3>3
      <4> HIDE DEF t, e
      <4>3. \A u \in Task : OnList(u, Suspended)' <=> Holds(list', Suspended, u)
        BY DEF OnList, Holds
      <4>4. OnList(t, Suspended)
        BY <2>1, <4>1, <4>3
      <4>5. Contains(waiting[e], t) => Contains(waiting'[e], t)
        BY <2>1, <4>1, <4>2, <4>3
      <4> QED BY <4>4, <4>5 DEF t, e
    <3> QED BY <1>11, <2>1, <2>2, <3>2, <3>3, SearchKept
  <2>5. SomeoneTries'
    <3> SUFFICES ASSUME NEW n \in Mutex, waiting'[n] # <<>>, count'[n] = 0,
                        search = NoSearch \/ search.call # "unlock" \/ search.of # n
                 PROVE  woken'[n] # {}
      BY <1>11 DEF SomeoneTries
    <3>1. CASE n = m
      BY <2>1, <3>1
    <3>2. CASE n # m
      BY <1>2, <2>1, <3>2, DataTypes DEF SomeoneTries
    <3> QED BY <3>1, <3>2
  <2>6. Owners' /\ Lent' /\ LoanHonoured'
    BY <1>7, <1>8, <2>1
  <2>7. OneList(list, priority)'
    BY <1>1, <2>1
  <2> QED BY <2>1, <2>2, <2>3, <2>4, <2>5, <2>6, <2>7 DEF MInv
<1> QED BY <1>1, <1>10, <1>11

LEMMA MutexUnlockStep ==
    ASSUME MInv, NEW m \in Mutex, MutexUnlock(m)
    PROVE  MInv'
<1>1. count[m] > 1 \/ count[m] = 1
  BY UnlockCounts, DataTypes
<1> QED BY <1>1, UnlockOne, UnlockLast

-----------------------------------------------------------------------------
(* event_find_priority_position() and what follows it.                       *)

\* What a comparison knows.
LEMMA Comparing ==
    ASSUME MInv, Top.pc = "event"
    PROVE  /\ search # NoSearch /\ search \in SearchRecord
           /\ current_task = search.task
           /\ search.task \in Task /\ search.pos \in Task
           /\ search.event \in Mutex /\ search.of \in Mutex
           /\ search.call \in {"wait", "inherit", "unlock"} /\ search.timed \in BOOLEAN
           /\ Top.task \in Task
           /\ search.call # "inherit" => Top.task = search.task
           /\ search.call = "inherit" => ~Waiting(Top.task) /\ count[search.of] > 0
           /\ search.call = "unlock" => count[search.of] = 0 \/ task_owner[search.of] = NULL
<1>1. /\ search # NoSearch /\ search \in SearchRecord /\ Top.task \in Task
      /\ current_task = search.task
      /\ search.call # "inherit" => Top.task = search.task
  BY Executing
<1>2. \E i \in 1 .. Len(stack) : Top = stack[i]
  <2>1. Len(stack) \in 1 .. Len(stack)
    BY StackSeq
  <2>2. Top = stack[Len(stack)]
    BY StackSeq, MTop DEF Last
  <2> QED BY <2>1, <2>2
<1>3. SearchOK
  BY DEF MInv
<1>4. search.call = "inherit" => ~Waiting(Top.task) /\ count[search.of] > 0
  BY <1>1, <1>2, <1>3 DEF SearchOK
<1>5. search.call = "unlock" => count[search.of] = 0 \/ task_owner[search.of] = NULL
  BY <1>1, <1>3 DEF SearchOK
<1> QED BY <1>1, <1>4, <1>5 DEF SearchRecord

\* The place of a task that waits itself is found: it may be delayed then.
LEMMA WaitPlaced ==
    ASSUME MInv, Top.pc = "event", search.call = "wait",
           NEW evs \in EventLists, OneEvent(evs), SameTasks(evs, waiting),
           waiting' = evs, search' = NoSearch,
           list' = IF search.timed THEN FirstOn(list, Top.task, Suspended) ELSE list,
           stack' = Goto(stack, IF search.timed THEN "delay" ELSE "unlock", NULL, 0),
           UNCHANGED <<current_task, higher_priority_task_ready, task_owner, woken,
                       loan, scheduler_depth, priority, running, count, held>>
    PROVE  MInv'
<1>1. MStackInv'
  <2> DEFINE pc == IF search.timed THEN "delay" ELSE "unlock"
  <2>1. pc \in {"delay", "unlock"} /\ stack' = Goto(stack, pc, NULL, 0)
    OBVIOUS
  <2> HIDE DEF pc
  <2> QED BY <2>1, StackSeq, MSearchEnds
<1>2. list' \in [ListId -> Seq(Task)] /\ OneList(list', priority)
  <2>1. CASE search.timed
    <3>1. Suspended \in ListId /\ Suspended \notin Priority
      BY PriorityAssumption DEF ListId, Suspended, Priority
    <3>2. Moves(list', list, Top.task, Suspended)
      BY <2>1 DEF Moves
    <3> QED BY <3>1, <3>2, Comparing, StackSeq, MoveIs
  <2>2. CASE ~search.timed
    BY <2>2, StackSeq
  <2> QED BY <2>1, <2>2
<1>3. MTypes'
  BY <1>2 DEF MInv, MTypes
<1>4. SearchOK'
  BY DEF SearchOK
<1>5. Owners' /\ Lent' /\ LoanHonoured'
  BY LocksKept
<1>6. WokenLeft'
  BY DataTypes DEF WokenLeft, SameTasks
<1>7. SomeoneTries'
  <2>1. \A n \in Mutex : waiting'[n] = <<>> <=> waiting[n] = <<>>
    BY DataTypes, SameEmpty
  <2>2. \A n \in Mutex : waiting[n] # <<>> /\ count[n] = 0 => woken[n] # {}
    BY DataTypes DEF SomeoneTries
  <2> QED BY <2>1, <2>2 DEF SomeoneTries
<1> QED BY <1>1, <1>2, <1>3, <1>4, <1>5, <1>6, <1>7 DEF MInv

\* The place of an owner that inherits is found: the task waits itself.
LEMMA InheritPlaced ==
    ASSUME MInv, Top.pc = "event", search.call = "inherit",
           NEW evs \in EventLists, OneEvent(evs), SameTasks(evs, waiting),
           StartWait(Top.task, search.of, search.timed, list, evs),
           UNCHANGED <<stack, higher_priority_task_ready, task_owner, loan,
                       scheduler_depth, priority, running, count, held>>
    PROVE  MInv'
<1> DEFINE t == Top.task
           m == search.of
<1>1. t \in Task /\ m \in Mutex /\ search.timed \in BOOLEAN /\ ~Waiting(t) /\ count[m] > 0
  BY Comparing
<1>2. /\ list' \in [ListId -> Seq(Task)] /\ OneList(list', priority)
      /\ waiting' \in EventLists /\ OneEvent(waiting')
      /\ \A n \in Mutex : n # m =>
            woken'[n] = woken[n] /\ (waiting'[n] # <<>> => waiting[n] # <<>>)
      /\ search' \in SearchRecord /\ search' # NoSearch
      /\ search'.task = t /\ search'.event = m /\ search'.of = m
      /\ search'.call = "wait" /\ current_task' = t
      /\ Contains(waiting'[m], t)
      /\ woken' \in [Mutex -> SUBSET Task] /\ WokenLeft'
  <2>1. StartWait(t, m, search.timed, list, evs)
    OBVIOUS
  <2> HIDE DEF t, m
  <2> QED BY <1>1, <2>1, StackSeq, StartWaitIs
<1>3. MStackInv'
  <2>1. Top.task = search'.task /\ current_task' = search'.task
    BY <1>2
  <2> QED BY <1>2, <2>1, StackSeq, MSearchGoesOn
<1>4. MTypes'
  BY <1>2 DEF MInv, MTypes
<1>5. SearchOK'
  <2> HIDE DEF t, m
  <2> QED BY <1>2 DEF SearchOK
<1>6. Owners' /\ Lent' /\ LoanHonoured'
  BY LocksKept
<1>7. SomeoneTries'
  <2>1. \A n \in Mutex : waiting[n] # <<>> /\ count[n] = 0 => woken[n] # {}
    BY DataTypes DEF SomeoneTries
  <2>2. \A n \in Mutex : count[n] = 0 => n # m
    BY <1>1
  <2> HIDE DEF t, m
  <2> QED BY <1>2, <2>1, <2>2 DEF SomeoneTries
<1>8. OneList(list, priority)'
  BY <1>2
<1> QED BY <1>2, <1>3, <1>4, <1>5, <1>6, <1>7, <1>8 DEF MInv

\* The place of an owner is found: its unlock resumes the first task.
LEMMA UnlockPlaced ==
    ASSUME MInv, Top.pc = "event", search.call = "unlock",
           NEW evs \in EventLists, OneEvent(evs), SameTasks(evs, waiting),
           ReleaseTo(search.of, list, priority, evs),
           search' = NoSearch, stack' = Goto(stack, "unlock", NULL, 0),
           UNCHANGED <<current_task, scheduler_depth, priority, running, count, held>>
    PROVE  MInv'
<1> DEFINE m == search.of
<1>1. m \in Mutex /\ (count[m] = 0 \/ task_owner[m] = NULL)
  BY Comparing
<1>2. ReleaseTo(m, list, priority, evs)
  OBVIOUS
<1>3. \A n \in Mutex : /\ waiting[n] # <<>> /\ count[n] = 0 /\ n # m
                       => woken[n] # {}
  BY DataTypes DEF SomeoneTries
<1> HIDE DEF m
<1>4. /\ higher_priority_task_ready' \in BOOLEAN
      /\ list' \in [ListId -> Seq(Task)]
      /\ OneList(list', priority)
      /\ waiting' \in EventLists /\ OneEvent(waiting')
      /\ woken' \in [Mutex -> SUBSET Task] /\ WokenLeft'
      /\ waiting'[m] # <<>> => woken'[m] # {}
      /\ \A n \in Mutex : n # m =>
            woken'[n] = woken[n] /\ (waiting'[n] # <<>> => waiting[n] # <<>>)
      /\ task_owner' \in [Mutex -> Caller]
      /\ task_owner' = [task_owner EXCEPT ![m] = NULL]
      /\ loan' \in [Task -> LoanRecord]
      /\ \A t \in Task : loan'[t] = loan[t] \/ loan'[t] = NoLoan
  <2>1. \A u \in Task : Holds(list, Suspended, u) <=> OnList(u, Suspended)
    BY OnListIs
  <2> QED BY <1>1, <1>2, <2>1, StackSeq, ReleaseIs
<1>5. MStackInv'
  BY StackSeq, MSearchEnds
<1>6. MTypes'
  BY <1>4 DEF MInv, MTypes
<1>7. SearchOK'
  BY DEF SearchOK
<1>8. Owners'
  BY <1>1, <1>4, DataTypes DEF Owners
<1>9. Lent'
  <2> SUFFICES ASSUME NEW t \in Task, priority[t] # original_priority[t]
               PROVE  \E n \in Mutex : task_owner'[n] = t /\ count[n] > 0
    BY DEF Lent
  <2>1. PICK n \in Mutex : task_owner[n] = t /\ count[n] > 0
    BY DataTypes DEF Lent
  <2>2. n # m
    BY <1>1, <2>1, DataTypes
  <2> QED BY <1>4, <2>1, <2>2, DataTypes
<1>10. LoanHonoured'
  <2> SUFFICES ASSUME NEW t \in Task, loan'[t].to # NULL
               PROVE  priority[loan'[t].to] >= loan'[t].prio
    BY DEF LoanHonoured
  <2>1. loan'[t] = loan[t]
    BY <1>4 DEF NoLoan
  <2> QED BY <2>1, DataTypes DEF LoanHonoured
<1>11. SomeoneTries'
  BY <1>3, <1>4 DEF SomeoneTries
<1>12. OneList(list, priority)'
  BY <1>4
<1> QED BY <1>4, <1>5, <1>6, <1>7, <1>8, <1>9, <1>10, <1>11, <1>12 DEF MInv

LEMMA EventPlacedStep ==
    ASSUME MInv, Top.pc = "event", NEW pos,
           \/ pos = NULL
           \/ /\ pos \in Task /\ pos # search.task
              /\ Contains(waiting[search.event], pos),
           EventPlaced(pos),
           UNCHANGED <<scheduler_depth, priority, running, count, held>>
    PROVE  MInv'
<1> DEFINE evs == EventMove(pos)
<1>1. evs \in EventLists /\ OneEvent(evs) /\ SameTasks(evs, waiting)
  BY Comparing, EventMoveIs
<1>2. \/ /\ search.call = "wait"
         /\ waiting' = evs
         /\ search' = NoSearch
         /\ list' = IF search.timed THEN FirstOn(list, Top.task, Suspended) ELSE list
         /\ stack' = Goto(stack, IF search.timed THEN "delay" ELSE "unlock", NULL, 0)
         /\ UNCHANGED <<current_task, higher_priority_task_ready, task_owner,
                        delayed, woken, loan>>
      \/ /\ search.call = "inherit"
         /\ StartWait(Top.task, search.of, search.timed, list, evs)
         /\ UNCHANGED <<stack, higher_priority_task_ready, task_owner, delayed,
                        loan>>
      \/ /\ search.call = "unlock"
         /\ ReleaseTo(search.of, list, priority, evs)
         /\ search' = NoSearch
         /\ stack' = Goto(stack, "unlock", NULL, 0)
         /\ UNCHANGED current_task
  BY DEF EventPlaced
<1> HIDE DEF evs
<1>3. CASE search.call = "wait"
  BY <1>1, <1>2, <1>3, WaitPlaced
<1>4. CASE search.call = "inherit"
  BY <1>1, <1>2, <1>4, InheritPlaced
<1>5. CASE search.call = "unlock"
  BY <1>1, <1>2, <1>5, UnlockPlaced
<1> QED BY <1>2, <1>3, <1>4, <1>5

\* The search looks at the next task, or at the first one again.
LEMMA NextCompared ==
    ASSUME MInv, Top.pc = "event", NEW next \in Task,
           search' = [search EXCEPT !.pos = next],
           UNCHANGED <<current_task, list, stack, waiting, task_owner,
                       higher_priority_task_ready, woken, loan,
                       scheduler_depth, priority, running, count, held>>
    PROVE  MInv'
<1>1. /\ search' \in SearchRecord
      /\ search'.task = search.task /\ search'.event = search.event
      /\ search'.call = search.call /\ search'.of = search.of
  BY Comparing DEF SearchRecord
<1>2. search' # NoSearch /\ search # NoSearch
  BY <1>1, Comparing, NullAssumption DEF NoSearch
<1>3. MStackInv'
  BY <1>1, <1>2, Comparing, StackSeq, MSearchGoesOn
<1>4. MTypes'
  BY <1>1 DEF MInv, MTypes
<1>5. SearchOK'
  <2>1. OnList(search.task, Suspended)' => OnList(search.task, Suspended)
    BY <1>1 DEF OnList
  <2>2. SearchOK
    BY DEF MInv
  <2> QED BY <1>1, <1>2, <2>1, <2>2 DEF SearchOK, Waiting
<1>6. Owners' /\ Lent' /\ LoanHonoured'
  BY LocksKept
<1>7. WokenLeft' /\ SomeoneTries'
  BY <1>1, <1>2, DataTypes DEF WokenLeft, SomeoneTries
<1> QED BY <1>3, <1>4, <1>5, <1>6, <1>7, StackSeq, DataTypes DEF MInv

LEMMA EventCompareStep ==
    ASSUME MInv, EventCompare
    PROVE  MInv'
<1> DEFINE evs == waiting[search.event]
           found == /\ priority[search.task] > priority[search.pos]
                    /\ search.pos \in ToSet(evs)
           next == EventNext(evs)
<1>1. /\ Top.pc = "event"
      /\ \/ found /\ EventPlaced(search.pos)
         \/ next = NULL /\ EventPlaced(NULL)
         \/ /\ next # NULL
            /\ search' = [search EXCEPT !.pos = next]
            /\ UNCHANGED <<current_task, list, stack, waiting, task_owner,
                           higher_priority_task_ready, delayed, woken, loan>>
      /\ UNCHANGED <<scheduler_depth, priority, running, count, held>>
  BY DEF EventCompare
<1>2. evs \in Seq(Task) /\ search.pos \in Task
  BY <1>1, Comparing, DataTypes DEF EventLists
<1>3. CASE found /\ EventPlaced(search.pos)
  <2>1. Contains(evs, search.pos)
    BY <1>2, <1>3 DEF ToSet, Contains
  <2>2. search.pos # search.task
    <3>1. priority[search.pos] \in Nat
      BY <1>2, StackSeq, PriorityAssumption DEF Priority
    <3> QED BY <1>3, <3>1
  <2> QED BY <1>1, <1>2, <1>3, <2>1, <2>2, EventPlacedStep
<1>4. CASE next = NULL /\ EventPlaced(NULL)
  BY <1>1, <1>4, EventPlacedStep
<1>5. CASE /\ next # NULL
           /\ search' = [search EXCEPT !.pos = next]
           /\ UNCHANGED <<current_task, list, stack, waiting, task_owner,
                          higher_priority_task_ready, delayed, woken, loan>>
  <2>1. next \in Task
    BY <1>2, <1>5, EventNextIs
  <2> HIDE DEF next
  <2> QED BY <1>1, <1>5, <2>1, NextCompared
<1> QED BY <1>1, <1>3, <1>4, <1>5

-----------------------------------------------------------------------------
(* The invariant holds.                                                      *)

LEMMA SetToSeqIs ==
    ASSUME NEW S, IsFiniteSet(S)
    PROVE  /\ SetToSeq(S) \in Seq(S) /\ Injective(SetToSeq(S))
<1> DEFINE n == Cardinality(S)
<1>1. n \in Nat /\ \E f \in [1 .. n -> S] : IsInjective(f)
  BY FS_CardinalityType DEF ExistsBijection, Bijection, Injection
<1>2. SetToSeq(S) \in [1 .. n -> S] /\ IsInjective(SetToSeq(S))
  BY <1>1 DEF SetToSeq
<1> DEFINE s == SetToSeq(S)
<1> HIDE DEF n, s
<1>3. s \in [1 .. n -> S] /\ IsInjective(s)
  BY <1>2 DEF s
<1>4. s \in Seq(S) /\ Len(s) = n
  BY <1>1, <1>3
<1>5. Injective(s)
  BY <1>3, <1>4 DEF Injective, IsInjective
<1> QED BY <1>4, <1>5 DEF s

LEMMA MutexInitHolds == MutexInit => MInv
<1> SUFFICES ASSUME MutexInit PROVE MInv
  OBVIOUS
<1>1. MStackInv
  <2> DEFINE f == MainFrame("main", 0)
  <2>1. f \in MFrame /\ MFrameOK(f) /\ f.kind = "main" /\ f.locks = 0 /\ f.base = 0
        /\ f.pc = "run"
    BY DEF MainFrame, MFrame, Kind, MPC, PC, MFrameOK, LocksOfFrame
  <2>2. CurrentTaskOf(f) = NULL /\ Current(f, NoSearch) = NULL
    BY DEF MainFrame, CurrentTaskOf, Current
  <2> HIDE DEF f
  <2>3. /\ stack = <<f>> /\ stack \in Seq(MFrame) /\ stack # <<>> /\ Len(stack) = 1
        /\ stack[1] = f /\ \A i \in 1 .. Len(stack) : i = 1
    BY <2>1 DEF MutexInit, f
  <2>4. MShape(stack) /\ Once(stack)
    BY <2>1, <2>3 DEF MShape, Once
  <2>5. Grows(stack) /\ Balanced(stack, scheduler_depth)
    BY <2>1, <2>3 DEF Grows, Balanced, MutexInit
  <2>6. Linked(stack, current_task, search) /\ Searching(stack, search)
    BY <2>1, <2>2, <2>3 DEF Linked, Searching, Looks, MutexInit
  <2>7. MStackOK(stack, scheduler_depth, current_task, running, search)
    BY <2>1, <2>3, <2>4, <2>5, <2>6 DEF MStackOK, MutexInit, OnStack
  <2> QED BY <2>7 DEF MStackInv, MutexInit
<1>2. list \in [ListId -> Seq(Task)] /\ OneList(list, priority)
  <2>1. ASSUME NEW l \in Priority
        PROVE  /\ list[l] \in Seq(Task) /\ Injective(list[l])
               /\ \A i \in 1 .. Len(list[l]) : original_priority[list[l][i]] = l
    <3> DEFINE S == {t \in Task : original_priority[t] = l}
    <3>1. IsFiniteSet(S)
      BY MutexAssumption, FS_Subset
    <3>2. list[l] = SetToSeq(S)
      BY DEF MutexInit, ListId
    <3>3. \A t \in S : t \in Task /\ original_priority[t] = l
      OBVIOUS
    <3> HIDE DEF S
    <3>4. list[l] \in Seq(S) /\ Injective(list[l])
      BY <3>1, <3>2, SetToSeqIs
    <3> QED BY <3>3, <3>4
  <2>2. \A l \in ListId : l \notin Priority => list[l] = <<>>
    BY DEF MutexInit
  <2>3. list \in [ListId -> Seq(Task)]
    <3>1. ASSUME NEW l \in ListId PROVE list[l] \in Seq(Task)
      <4>1. <<>> \in Seq(Task)
        OBVIOUS
      <4>2. l \in Priority => list[l] \in Seq(Task)
        BY <2>1
      <4>3. l \notin Priority => list[l] = <<>>
        BY <2>2
      <4> QED BY <4>1, <4>2, <4>3, Zenon
    <3> DEFINE g == [l \in ListId |->
                 IF l \in Priority
                 THEN SetToSeq({t \in Task : original_priority[t] = l})
                 ELSE <<>>]
    <3>2. list = g
      BY DEF MutexInit
    <3>3. list = [l \in ListId |-> list[l]]
      BY <3>2
    <3> QED BY <3>1, <3>3
  <2>4. priority = original_priority
    BY DEF MutexInit
  <2>5. ASSUME NEW k \in ListId, NEW i \in 1 .. Len(list[k]), k \in Priority
        PROVE  priority[list[k][i]] = k
    BY <2>1, <2>4, <2>5
  <2>6. ASSUME NEW k \in ListId, NEW l \in ListId,
               NEW i \in 1 .. Len(list[k]), NEW j \in 1 .. Len(list[l]),
               list[k][i] = list[l][j]
        PROVE  k = l /\ i = j
    <3>1. k \in Priority /\ l \in Priority
      BY <2>2
    <3>2. k = l
      BY <2>1, <2>6, <3>1
    <3> QED BY <2>1, <2>6, <3>1, <3>2 DEF Injective
  <2> QED BY <2>3, <2>5, <2>6 DEF OneList
<1>3. MTypes
  BY <1>2, MutexAssumption
  DEF MTypes, MutexInit, EventLists, LoanRecord, NoLoan, Caller
<1>4. OneEvent(waiting)
  BY DEF MutexInit, OneEvent, Injective, Contains
<1>5. SearchOK /\ Lent /\ WokenLeft /\ SomeoneTries
  BY DEF SearchOK, Lent, WokenLeft, SomeoneTries, MutexInit
<1>6. Owners
  BY DEF Owners, MutexInit
<1>7. LoanHonoured
  BY DEF LoanHonoured, MutexInit, NoLoan
<1> QED BY <1>1, <1>2, <1>3, <1>4, <1>5, <1>6, <1>7 DEF MInv

LEMMA MutexStepKeeps == MInv /\ [MutexNext]_allVars => MInv'
<1> SUFFICES ASSUME MInv, [MutexNext]_allVars PROVE MInv'
  OBVIOUS
<1>1. ASSUME NEW m \in Mutex, MutexLock(m) PROVE MInv'
  BY <1>1, MutexLockStep
<1>2. ASSUME NEW m \in Mutex, MutexUnlock(m) PROVE MInv'
  BY <1>2, MutexUnlockStep
<1>3. ASSUME NEW m \in Mutex, NEW timed \in BOOLEAN, MutexSuspend(m, timed) PROVE MInv'
  BY <1>3, MutexSuspendStep
<1>4. CASE EventCompare
  BY <1>4, EventCompareStep
<1>5. CASE DelayInsert
  BY <1>5, DelayInsertStep
<1>6. CASE ResumeWaiting
  BY <1>6, ResumeWaitingStep
<1>7. ASSUME NEW t \in Others, SuspendTask(t) PROVE MInv'
  BY <1>7, MutexAssumption, SuspendTaskStep
<1>8. CASE KernelOperation
  BY <1>8, KernelOperationStep
<1>9. CASE UNCHANGED allVars
  <2>1. UNCHANGED <<mutexVars, priority, list, higher_priority_task_ready, stack,
                    scheduler_depth, current_task, running, search>>
    BY <1>9 DEF allVars, vars, mutexVars
  <2>2. MStackInv'
    BY <2>1, StackSeq, MStackUnchanged
  <2>3. LooksKept(stack, stack')
    BY <2>1, StackSeq, LooksKeptIs
  <2>4. OnList(search.task, Suspended)' => OnList(search.task, Suspended)
    BY <2>1 DEF OnList
  <2> QED BY <2>1, <2>2, <2>3, <2>4, StackSeq, MutexesKept
<1> QED BY <1>1, <1>2, <1>3, <1>4, <1>5, <1>6, <1>7, <1>8, <1>9 DEF MutexNext

THEOREM MutexInvariantHolds == MutexSpec => []MInv
<1>1. MutexInit => MInv
  BY MutexInitHolds
<1>2. MInv /\ [MutexNext]_allVars => MInv'
  BY MutexStepKeeps
<1> QED BY <1>1, <1>2, PTL DEF MutexSpec

\* Types; and a search is open just while a frame of the stack is in it.
THEOREM MutexTypesHold == MutexSpec => []MutexTypeOK
<1>1. ASSUME MInv PROVE MutexTypeOK
  <2>1. scheduler_depth \in Nat
    BY <1>1, StackSeq, MTop
  <2>2. search # NoSearch <=> \E i \in DOMAIN stack : stack[i].pc = "event"
    <3>1. /\ \A i \in 1 .. Len(stack) : Looks(stack[i], search)
          /\ search # NoSearch => \E i \in 1 .. Len(stack) : stack[i].pc = "event"
      BY <1>1 DEF MInv, MStackInv, MStackOK, Searching
    <3>2. DOMAIN stack = 1 .. Len(stack)
      BY <1>1, StackSeq
    <3> QED BY <3>1, <3>2 DEF Looks
  <2>3. waiting \in [Mutex -> Seq(Task)]
    BY <1>1, DataTypes DEF EventLists
  <2> QED BY <1>1, <2>1, <2>2, <2>3, DataTypes, StackSeq DEF MutexTypeOK
<1> QED BY <1>1, MutexInvariantHolds, PTL

\* Lists and task functions stay as Kernel has them, with priorities that
\* change and with tasks that wait: each task is on one list of the scheduler,
\* and no task function is called again before it returned.
THEOREM MutexListsHold == MutexSpec => [](EachTaskOnOneList /\ NoReentry)
<1>1. MInv => EachTaskOnOneList /\ NoReentry
  <2> SUFFICES ASSUME MInv PROVE EachTaskOnOneList /\ NoReentry
    OBVIOUS
  <2>1. EachTaskOnOneList
    BY DEF MInv, OneList, EachTaskOnOneList
  <2>2. OnStack(stack, running) /\ Once(stack)
    BY DEF MInv, MStackInv, MStackOK
  <2>3. NoReentry
    BY <2>2, Zenon DEF OnStack, Once, NoReentry
  <2> QED BY <2>1, <2>3
<1> QED BY <1>1, MutexInvariantHolds, PTL

\* Whoever got a lock has it alone until it undoes it.
THEOREM MutualExclusionHolds == MutexSpec => []MutualExclusion
<1>1. ASSUME MInv PROVE MutualExclusion
  <2> SUFFICES ASSUME NEW m \in Mutex
               PROVE  /\ held[m][NULL] <= 1
                      /\ \A c, d \in Caller : held[m][c] > 0 /\ held[m][d] > 0 => c = d
    BY DEF MutualExclusion
  <2> QED BY <1>1, DataTypes DEF Owners
<1> QED BY <1>1, MutexInvariantHolds, PTL

\* The owner keeps at least the priority that a waiting task lent to it.
THEOREM LoansHonoured == MutexSpec => []LoanHonoured
<1>1. MInv => LoanHonoured
  BY DEF MInv
<1> QED BY <1>1, MutexInvariantHolds, PTL

\* A task that holds no mutex has its own priority.
THEOREM PrioritiesRestored == MutexSpec => []PriorityRestored
<1>1. ASSUME MInv PROVE PriorityRestored
  <2> SUFFICES ASSUME NEW t \in Task, \A m \in Mutex : held[m][t] = 0,
                      priority[t] # original_priority[t]
               PROVE  FALSE
    BY DEF PriorityRestored
  <2>1. PICK m \in Mutex : task_owner[m] = t /\ count[m] > 0
    BY <1>1, DataTypes DEF Lent
  <2>2. held[m][t] = count[m]
    BY <1>1, <2>1, DataTypes DEF Owners
  <2> QED BY <2>1, <2>2
<1> QED BY <1>1, MutexInvariantHolds, PTL

\* While tasks wait for a free mutex, one that an unlock resumed has yet to try.
THEOREM NoMutexUnlockLost == MutexSpec => []NoLostMutexUnlock
<1>1. ASSUME MInv PROVE NoLostMutexUnlock
  <2> SUFFICES ASSUME NEW m \in Mutex, waiting[m] # <<>>, count[m] = 0,
                      search = NoSearch \/ search.call # "unlock" \/ search.of # m
               PROVE  \E t \in woken[m] : ~Contains(waiting[m], t)
    BY DEF NoLostMutexUnlock
  <2>1. PICK t \in woken[m] : TRUE
    BY <1>1, DataTypes DEF SomeoneTries
  <2> QED BY <1>1, <2>1, DataTypes DEF WokenLeft
<1> QED BY <1>1, MutexInvariantHolds, PTL

-----------------------------------------------------------------------------
(* The order of the event lists.                                             *)

\* A task that waits without a timeout is on no list of the scheduler but that
\* of the suspended tasks.
Asleep == \A t \in Task : Waiting(t) /\ t \notin delayed => OnList(t, Suspended)

\* No task of w but x has a lower priority than one behind it that is neither
\* delayed nor x.
Ordered(w, prio, del, x) ==
    \A m \in Mutex, t, u \in Task :
        Before(w[m], t, u) /\ t # x /\ u \notin del \cup {x} => prio[t] >= prio[u]

\* The task of the search is the last, and what the search has passed does not
\* have a lower priority.
LooksBehind ==
    search # NoSearch =>
        /\ \A t \in Task : Before(waiting[search.event], t, search.pos)
                           /\ t # search.task
                              => priority[t] >= priority[search.task]
        /\ \A m \in Mutex, u \in Task : ~Before(waiting[m], search.task, u)

WaitInv ==
    /\ delayed \subseteq Task
    /\ Asleep
    /\ Ordered(waiting, priority, delayed, search.task)
    /\ LooksBehind

KeepsOrder(new, w) ==
    \A m \in Mutex, t, u \in Task : Before(new[m], t, u) => Before(w[m], t, u)

LEMMA BeforeWaits ==
    ASSUME NEW w \in EventLists, NEW m \in Mutex, NEW t, NEW u, Before(w[m], t, u)
    PROVE  t \in Task /\ u \in Task /\ Contains(w[m], t) /\ Contains(w[m], u)
<1>1. w[m] \in Seq(Task)
  BY DEF EventLists
<1> QED BY <1>1, BeforeIn

\* A step that adds nobody to a list and leaves the search alone.
LEMMA OrderKept ==
    ASSUME MInv, WaitInv, UNCHANGED search, waiting' \in EventLists,
           KeepsOrder(waiting', waiting),
           \A t \in Task : Waiting(t)' => priority'[t] = priority[t],
           search # NoSearch => UNCHANGED priority,
           \A t \in Task : Waiting(t)' /\ t \in delayed => t \in delayed'
    PROVE  Ordered(waiting, priority, delayed, search.task)' /\ LooksBehind'
<1>1. ASSUME NEW m \in Mutex, NEW t \in Task, NEW u \in Task, Before(waiting'[m], t, u),
             t # search.task, u \notin delayed' \cup {search.task}
      PROVE  priority'[t] >= priority'[u]
  <2>1. Waiting(t)' /\ Waiting(u)'
    BY <1>1, BeforeWaits DEF Waiting
  <2>2. Before(waiting[m], t, u) /\ u \notin delayed
    BY <1>1, <2>1 DEF KeepsOrder
  <2> QED BY <1>1, <2>1, <2>2 DEF WaitInv, Ordered
<1>2. LooksBehind'
  <2> SUFFICES ASSUME search # NoSearch PROVE LooksBehind'
    BY DEF LooksBehind
  <2>1. search.event \in Mutex /\ search.task \in Task /\ search.pos \in Task
        /\ UNCHANGED priority
    BY Executing
  <2> QED BY <2>1 DEF WaitInv, LooksBehind, KeepsOrder
<1> QED BY <1>1, <1>2 DEF Ordered

LEMMA NothingWaits ==
    ASSUME WaitInv, UNCHANGED <<waiting, search, delayed, list, priority>>
    PROVE  WaitInv'
BY DEF WaitInv, Asleep, Ordered, LooksBehind, Waiting, OnList

\* A task moves between the lists of the scheduler.
LEMMA TaskMoves ==
    ASSUME MInv, WaitInv, UNCHANGED <<waiting, search, priority>>,
           delayed' \subseteq Task, delayed \subseteq delayed',
           \A t \in Task : Waiting(t) /\ t \notin delayed' =>
              (OnList(t, Suspended) => OnList(t, Suspended)')
    PROVE  WaitInv'
<1>1. Ordered(waiting, priority, delayed, search.task)' /\ LooksBehind'
  <2>1. waiting' \in EventLists /\ KeepsOrder(waiting', waiting)
    BY DataTypes DEF KeepsOrder
  <2> QED BY <2>1, OrderKept
<1>2. Asleep'
  <2> SUFFICES ASSUME NEW t \in Task, Waiting(t)', t \notin delayed'
               PROVE  OnList(t, Suspended)'
    BY DEF Asleep
  <2>1. Waiting(t) /\ t \notin delayed
    BY DEF Waiting
  <2> QED BY <2>1 DEF WaitInv, Asleep
<1> QED BY <1>1, <1>2 DEF WaitInv

LEMMA KernelOrder ==
    ASSUME MInv, WaitInv, KernelOperation
    PROVE  WaitInv'
<1>0. UNCHANGED <<waiting, search, delayed>>
  BY DEF KernelOperation, mutexVars
<1>1. ASSUME UNCHANGED <<list, priority>> PROVE WaitInv'
  BY <1>0, <1>1, NothingWaits
<1>2. ASSUME NEW t \in Task, Dispatch(t), \E p \in Priority : Holds(list, p, t)
      PROVE  WaitInv'
  <2>1. ~Holds(list, Suspended, t)
    <3>1. Suspended \notin Priority
      BY PriorityAssumption DEF Suspended, Priority
    <3> QED BY <1>2, <3>1, StackSeq DEF OneList, Holds, ListId
  <2>2. priority[t] \in ListId /\ priority' = priority
        /\ Moves(list', list, t, priority[t])
    BY <1>2, StackSeq DEF Dispatch, MoveLast, Moves, ListId
  <2>3. \A u \in Task : u # t => (Holds(list', Suspended, u) <=> Holds(list, Suspended, u))
    BY <2>2, StackSeq, MoveIs
  <2>4. \A u \in Task : OnList(u, Suspended) => OnList(u, Suspended)'
    BY <2>1, <2>3 DEF OnList, Holds
  <2>5. delayed' \subseteq Task
    BY <1>0 DEF WaitInv
  <2> QED BY <1>0, <2>2, <2>4, <2>5, TaskMoves
<1>3. ASSUME NEW t \in Task, SchedDispatch(t) PROVE WaitInv'
  <2>1. \E p \in Priority : Holds(list, p, t)
    BY <1>3, StackSeq, NullAssumption, MHigherPriorityTask DEF SchedDispatch
  <2> QED BY <1>2, <1>3, <2>1 DEF SchedDispatch
<1>4. ASSUME NEW t \in Task, TaskReturn(t) PROVE WaitInv'
  <2>1. \E p \in Priority : Holds(list, p, t)
    BY <1>4, StackSeq, NullAssumption, MHigherPriorityTask DEF TaskReturn
  <2> QED BY <1>2, <1>4, <2>1 DEF TaskReturn
<1>5. ASSUME NEW t \in Task, TaskResume(t) PROVE WaitInv'
  BY <1>1, <1>5 DEF TaskResume, LockFor
<1>6. CASE OperationUnlock
  BY <1>1, <1>6 DEF OperationUnlock, Unlock
<1>7. CASE SchedNothing
  BY <1>1, <1>7 DEF SchedNothing
<1>8. CASE TaskReturnLast
  BY <1>1, <1>8 DEF TaskReturnLast
<1>9. CASE MainLoop
  BY <1>1, <1>9 DEF MainLoop
<1>10. CASE InterruptEnter
  BY <1>1, <1>10 DEF InterruptEnter
<1>11. CASE InterruptUnlock
  BY <1>1, <1>11 DEF InterruptUnlock
<1>12. CASE InterruptReturn
  BY <1>1, <1>12 DEF InterruptReturn
<1>13. Others \subseteq Task
  BY MutexAssumption
<1> QED BY <1>3, <1>4, <1>5, <1>6, <1>7, <1>8, <1>9, <1>10, <1>11, <1>12, <1>13
        DEF KernelOperation

LEMMA SuspendOrder ==
    ASSUME MInv, WaitInv, NEW t \in Task, SuspendTask(t)
    PROVE  WaitInv'
<1>1. UNCHANGED <<waiting, search, priority, delayed>> /\ Moves(list', list, t, Suspended)
  BY DEF SuspendTask, TaskSuspend, mutexVars, MoveFirst, Moves
<1>2. Suspended \in ListId /\ Suspended \notin Priority
  BY PriorityAssumption DEF ListId, Suspended, Priority
<1>3. \A u \in Task : OnList(u, Suspended) => OnList(u, Suspended)'
  <2>1. \A u \in Task : Holds(list', Suspended, u)
           <=> IF u = t THEN Suspended = Suspended ELSE Holds(list, Suspended, u)
    BY <1>1, <1>2, StackSeq, MoveIs
  <2> QED BY <2>1 DEF OnList, Holds
<1> QED BY <1>1, <1>3, TaskMoves DEF WaitInv

LEMMA DelayOrder ==
    ASSUME MInv, WaitInv, DelayInsert
    PROVE  WaitInv'
<1> DEFINE t == Top.task
<1>1. /\ t \in Task /\ UNCHANGED <<waiting, search, priority>>
      /\ \/ /\ list' = LastOn(list, t, Delayed0)
            /\ delayed' = IF Waiting(t) THEN delayed \cup {t} ELSE delayed
         \/ UNCHANGED <<list, delayed>>
  BY Executing DEF DelayInsert
<1>2. CASE /\ list' = LastOn(list, t, Delayed0)
           /\ delayed' = IF Waiting(t) THEN delayed \cup {t} ELSE delayed
  <2>1. Moves(list', list, t, Delayed0) /\ Delayed0 \in ListId /\ Delayed0 \notin Priority
    BY <1>2, PriorityAssumption DEF Moves, ListId, Delayed0, Priority
  <2>2. delayed' \subseteq Task /\ delayed \subseteq delayed' /\ (Waiting(t) => t \in delayed')
    BY <1>1, <1>2 DEF WaitInv
  <2> HIDE DEF t
  <2>3. \A u \in Task : u # t => (Holds(list', Suspended, u) <=> Holds(list, Suspended, u))
    BY <1>1, <2>1, StackSeq, MoveIs
  <2>4. \A u \in Task : Waiting(u) /\ u \notin delayed' =>
           (OnList(u, Suspended) => OnList(u, Suspended)')
    BY <2>2, <2>3 DEF OnList, Holds
  <2> QED BY <1>1, <2>2, <2>4, TaskMoves
<1>3. CASE UNCHANGED <<list, delayed>>
  BY <1>1, <1>3, NothingWaits
<1> QED BY <1>1, <1>2, <1>3

LEMMA ResumeOrder ==
    ASSUME MInv, WaitInv, ResumeWaiting
    PROVE  WaitInv'
<1> DEFINE t == Top.arg
<1>1. /\ ResumeInsert /\ UNCHANGED <<search, priority>>
      /\ waiting' = [m \in Mutex |-> Without(waiting[m], t)]
      /\ delayed' = delayed \ {t}
  BY DEF ResumeWaiting, ResumeInsert
<1>2. t \in Task
  BY <1>1, StackSeq, MTop DEF ResumeInsert, MFrameOK
<1>3. Moves(list', list, t, priority[t]) /\ priority[t] \in ListId
  BY <1>1, <1>2, StackSeq DEF ResumeInsert, MoveLast, Moves, ListId
<1> HIDE DEF t
<1>4. /\ waiting' \in EventLists
      /\ \A n \in Mutex, u \in Task :
            Contains(waiting'[n], u) <=> u # t /\ Contains(waiting[n], u)
  BY <1>1, <1>2, DataTypes, LeavesAll
<1>5. KeepsOrder(waiting', waiting)
  <2> SUFFICES ASSUME NEW m \in Mutex, NEW a \in Task, NEW b \in Task,
                      Before(waiting'[m], a, b)
               PROVE  Before(waiting[m], a, b)
    BY DEF KeepsOrder
  <2> DEFINE q == waiting[m]
  <2>1. q \in Seq(Task) /\ Injective(q) /\ waiting'[m] = Without(q, t)
    BY <1>1, DataTypes DEF EventLists, OneEvent
  <2> HIDE DEF q
  <2>2. Before(q, a, b)
    BY <1>2, <2>1, OrderWithout
  <2> QED BY <2>2 DEF q
<1>6. \A u \in Task : Waiting(u)' => u # t /\ Waiting(u)
  BY <1>4 DEF Waiting
<1>7. Ordered(waiting, priority, delayed, search.task)' /\ LooksBehind'
  BY <1>1, <1>4, <1>5, <1>6, OrderKept
<1>8. Asleep'
  <2>1. \A u \in Task : u # t => (Holds(list', Suspended, u) <=> Holds(list, Suspended, u))
    BY <1>2, <1>3, StackSeq, MoveIs
  <2> QED BY <1>1, <1>6, <2>1 DEF WaitInv, Asleep, OnList, Holds
<1> QED BY <1>1, <1>7, <1>8 DEF WaitInv

-----------------------------------------------------------------------------
(* The order, where tasks come, move and go.                                 *)

\* A waiting task whose priority changed goes to the end and is looked for.
LEMMA OwnerLooks ==
    ASSUME MInv, WaitInv, search = NoSearch, NEW o \in Task, Waiting(o),
           NEW m \in Mutex, NEW call, NEW timed,
           waiting' = [waiting EXCEPT ![EventOf(o)] =
                          Append(Without(waiting[EventOf(o)], o), o)],
           search' = SearchFor(o, EventOf(o), waiting', call, m, timed),
           \A u \in Task : u # o => priority'[u] = priority[u],
           \A u \in Task : OnList(u, Suspended)' <=> OnList(u, Suspended),
           UNCHANGED delayed
    PROVE  WaitInv'
<1> DEFINE e == EventOf(o)
<1>1. e \in Mutex /\ Contains(waiting[e], o)
  BY EventOfIs
<1> HIDE DEF e
<1>2. /\ waiting' = [waiting EXCEPT ![e] = Append(Without(waiting[e], o), o)]
      /\ search'.task = o /\ search'.event = e /\ search'.pos = Head(waiting'[e])
  BY DEF e, SearchFor
<1> DEFINE q == waiting[e]
           r == Without(q, o)
<1>3. q \in Seq(Task) /\ Injective(q)
  BY <1>1, DataTypes DEF EventLists, OneEvent
<1>4. /\ waiting' \in EventLists /\ OneEvent(waiting') /\ SameTasks(waiting', waiting)
  <2> DEFINE new == [waiting EXCEPT ![e] = Append(Without(waiting[e], o), o)]
  <2>1. waiting \in EventLists /\ OneEvent(waiting)
    BY DataTypes
  <2>2. new \in EventLists /\ OneEvent(new) /\ SameTasks(new, waiting)
    BY <1>1, <2>1, WaitsAgain, Zenon
  <2>3. waiting' = new
    BY <1>2
  <2> HIDE DEF new
  <2> QED BY <2>2, <2>3
<1>5. waiting'[e] = Append(r, o) /\ \A n \in Mutex : n # e => waiting'[n] = waiting[n]
  BY <1>1, <1>2, DataTypes DEF EventLists
<1> HIDE DEF q
<1>6. r \in Seq(Task) /\ ~Contains(r, o)
  BY <1>3, WithoutIsRemoval DEF Contains
<1>7. ASSUME NEW a \in Task, NEW b \in Task, Before(r, a, b)
      PROVE  Before(waiting[e], a, b)
  <2>1. Before(q, a, b)
    BY <1>3, <1>7, OrderWithout
  <2> QED BY <2>1 DEF q
<1> HIDE DEF r
<1>8. ASSUME NEW a \in Task, NEW b \in Task, Before(waiting'[e], a, b)
      PROVE  a # o /\ (Before(r, a, b) \/ b = o)
  <2>1. Before(r, a, b) \/ (b = o /\ Contains(r, a))
    BY <1>5, <1>6, <1>8, OrderAppend
  <2>2. Contains(r, a)
    BY <1>6, <2>1, BeforeIn
  <2> QED BY <1>6, <2>1, <2>2
<1>9. \A n \in Mutex, u \in Task : ~Before(waiting'[n], o, u)
  <2> SUFFICES ASSUME NEW n \in Mutex, NEW u \in Task, Before(waiting'[n], o, u)
               PROVE  FALSE
    OBVIOUS
  <2>1. Contains(waiting'[n], o) /\ Contains(waiting'[e], o)
    BY <1>1, <1>4, BeforeWaits DEF SameTasks
  <2>2. n = e
    BY <1>1, <1>4, <2>1 DEF OneEvent
  <2> QED BY <1>8, <2>2
<1>10. Ordered(waiting, priority, delayed, search.task)'
  <2> SUFFICES ASSUME NEW n \in Mutex, NEW t \in Task, NEW u \in Task,
                      Before(waiting'[n], t, u), t # o, u # o, u \notin delayed
               PROVE  priority'[t] >= priority'[u]
    BY <1>2 DEF Ordered
  <2>1. Before(waiting[n], t, u)
    <3>1. CASE n = e
      BY <1>7, <1>8, <3>1
    <3>2. CASE n # e
      BY <1>5, <3>2
    <3> QED BY <3>1, <3>2
  <2>2. search.task = NULL /\ t # NULL /\ u # NULL
    BY NullAssumption DEF NoSearch
  <2> QED BY <2>1, <2>2 DEF WaitInv, Ordered
<1>11. LooksBehind'
  <2>1. waiting'[e] \in Seq(Task) /\ Injective(waiting'[e]) /\ Contains(waiting'[e], o)
    BY <1>1, <1>4 DEF EventLists, OneEvent, SameTasks
  <2>2. waiting'[e] # <<>>
    BY <2>1, EmptyList
  <2>3. \A a : ~Before(waiting'[e], a, Head(waiting'[e]))
    BY <2>1, <2>2, BeforeHead
  <2>4. \A a : ~Before(waiting'[search'.event], a, search'.pos)
    BY <1>2, <2>3
  <2>5. \A n \in Mutex, u \in Task : ~Before(waiting'[n], search'.task, u)
    BY <1>2, <1>9
  <2> QED BY <2>4, <2>5 DEF LooksBehind
<1>12. Asleep'
  <2> SUFFICES ASSUME NEW u \in Task, Waiting(u)', u \notin delayed'
               PROVE  OnList(u, Suspended)'
    BY DEF Asleep
  <2>1. Waiting(u)
    BY <1>4 DEF Waiting, SameTasks
  <2> QED BY <2>1 DEF WaitInv, Asleep
<1> QED BY <1>10, <1>11, <1>12 DEF WaitInv

\* A task comes to wait at the end of an ordered list.
LEMMA StartWaitOrder ==
    ASSUME MInv, WaitInv, NEW t \in Task, NEW m \in Mutex, NEW timed,
           NEW ls \in [ListId -> Seq(Task)], NEW prio, OneList(ls, prio),
           \A u \in Task : Holds(ls, Suspended, u) <=> OnList(u, Suspended),
           NEW evs \in EventLists, OneEvent(evs), SameTasks(evs, waiting),
           Ordered(evs, priority', delayed, NULL),
           ~Waiting(t), StartWait(t, m, timed, ls, evs), UNCHANGED delayed
    PROVE  WaitInv'
<1>1. /\ list' = FirstOn(ls, t, Suspended)
      /\ waiting' = [evs EXCEPT ![m] = Append(evs[m], t)]
      /\ search'.task = t /\ search'.event = m /\ search'.pos = Head(waiting'[m])
  BY DEF StartWait, SearchFor
<1>2. /\ waiting' \in EventLists /\ OneEvent(waiting')
      /\ \A n \in Mutex, u \in Task :
            Contains(waiting'[n], u) <=> Contains(evs[n], u) \/ (n = m /\ u = t)
  <2>1. \A n \in Mutex : ~Contains(evs[n], t)
    BY DEF Waiting, SameTasks
  <2> DEFINE new == [evs EXCEPT ![m] = Append(evs[m], t)]
  <2>2. /\ new \in EventLists /\ OneEvent(new)
        /\ \A n \in Mutex, u \in Task :
              Contains(new[n], u) <=> Contains(evs[n], u) \/ (n = m /\ u = t)
    BY <2>1, ComesToWait, Zenon
  <2>3. waiting' = new
    BY <1>1
  <2> HIDE DEF new
  <2> QED BY <2>2, <2>3
<1>3. \A n \in Mutex : ~Contains(evs[n], t)
  BY DEF Waiting, SameTasks
<1>4. ASSUME NEW n \in Mutex, NEW a \in Task, NEW b \in Task, Before(waiting'[n], a, b)
      PROVE  (Before(evs[n], a, b) /\ a # t) \/ (b = t /\ a # t)
  <2>1. evs[n] \in Seq(Task) /\ waiting'[n] = IF n = m THEN Append(evs[n], t) ELSE evs[n]
    BY <1>1 DEF EventLists
  <2>2. Before(evs[n], a, b) \/ (b = t /\ Contains(evs[n], a))
    <3> DEFINE s == evs[n]
    <3>1. s \in Seq(Task) /\ (Before(s, a, b) \/ Before(Append(s, t), a, b))
      BY <1>4, <2>1
    <3> HIDE DEF s
    <3>2. Before(s, a, b) \/ (b = t /\ Contains(s, a))
      BY <3>1, OrderAppend
    <3> QED BY <3>2 DEF s
  <2>3. Contains(evs[n], a)
    BY <2>1, <2>2, BeforeIn
  <2> QED BY <1>3, <2>2, <2>3
<1>5. Ordered(waiting, priority, delayed, search.task)'
  BY <1>1, <1>4, NullAssumption DEF Ordered
<1>6. LooksBehind'
  <2>1. waiting'[m] \in Seq(Task) /\ Injective(waiting'[m]) /\ Contains(waiting'[m], t)
    BY <1>2 DEF EventLists, OneEvent
  <2>2. waiting'[m] # <<>>
    BY <2>1, EmptyList
  <2>3. \A a : ~Before(waiting'[m], a, Head(waiting'[m]))
    BY <2>1, <2>2, BeforeHead
  <2>4. \A n \in Mutex, u \in Task : ~Before(waiting'[n], t, u)
    BY <1>4
  <2> QED BY <1>1, <2>3, <2>4 DEF LooksBehind
<1>7. Asleep'
  <2>1. Suspended \in ListId /\ Suspended \notin Priority
    BY PriorityAssumption DEF ListId, Suspended, Priority
  <2>2. Moves(list', ls, t, Suspended)
    BY <1>1 DEF Moves
  <2>3. \A u \in Task : Holds(list', Suspended, u)
           <=> IF u = t THEN Suspended = Suspended ELSE Holds(ls, Suspended, u)
    BY <2>1, <2>2, MoveIs
  <2> SUFFICES ASSUME NEW u \in Task, Waiting(u)', u \notin delayed'
               PROVE  OnList(u, Suspended)'
    BY DEF Asleep
  <2>4. u = t \/ Waiting(u)
    BY <1>2 DEF Waiting, SameTasks
  <2>5. u # t => OnList(u, Suspended)
    BY <2>4 DEF WaitInv, Asleep
  <2> QED BY <2>3, <2>5 DEF OnList, Holds
<1> QED BY <1>5, <1>6, <1>7 DEF WaitInv

\* The end of event_add_task_to_event(): the task is in its place.
LEMMA PlacedInOrder ==
    ASSUME MInv, WaitInv, search # NoSearch, NEW pos,
           \/ /\ pos = NULL
              /\ \A t \in Task : Contains(waiting[search.event], t) /\ t # search.task
                                    => priority[t] >= priority[search.task]
           \/ /\ pos = search.pos /\ pos # search.task
              /\ Contains(waiting[search.event], pos)
              /\ priority[search.task] > priority[pos]
    PROVE  Ordered(EventMove(pos), priority, delayed, NULL)
<1> DEFINE x == search.task
           m == search.event
<1>1. x \in Task /\ m \in Mutex /\ search.pos \in Task
  BY Executing
<1>2. /\ waiting \in EventLists /\ OneEvent(waiting)
      /\ \A u \in Task : priority[u] \in Nat /\ u # NULL
  BY DataTypes, StackSeq, PriorityAssumption DEF Priority
<1>3. /\ Ordered(waiting, priority, delayed, x)
      /\ \A n \in Mutex, u \in Task : ~Before(waiting[n], x, u)
      /\ \A t \in Task : Before(waiting[m], t, search.pos) /\ t # x
                            => priority[t] >= priority[x]
  BY DEF WaitInv, LooksBehind
<1>4. CASE ~OnList(x, Suspended)
  <2>1. EventMove(pos) = waiting
    BY <1>4 DEF EventMove
  <2>2. ASSUME NEW n \in Mutex, NEW t \in Task, NEW u \in Task,
               Before(waiting[n], t, u), u \notin delayed
        PROVE  priority[t] >= priority[u]
    <3>1. Waiting(u)
      BY <1>2, <2>2, BeforeWaits DEF Waiting
    <3>2. u # x
      BY <1>4, <2>2, <3>1 DEF WaitInv, Asleep
    <3>3. t # x
      BY <1>3, <2>2
    <3> HIDE DEF x, m
    <3> QED BY <1>3, <2>2, <3>2, <3>3 DEF Ordered
  <2> QED BY <2>1, <2>2 DEF Ordered
<1>5. CASE OnList(x, Suspended)
  <2> DEFINE q == waiting[m]
             r == Without(q, x)
             k == IF pos = NULL THEN Len(r) + 1
                  ELSE CHOOSE i \in DOMAIN r : r[i] = pos
  <2>1. Contains(q, x)
    BY <1>5 DEF MInv, SearchOK
  <2>2. EventMove(pos) = [waiting EXCEPT ![m] = InsertAt(r, k, x)]
    BY <1>5 DEF EventMove
  <2>3. \/ /\ pos = NULL
           /\ \A t \in Task : Contains(q, t) /\ t # x => priority[t] >= priority[x]
        \/ /\ pos = search.pos /\ pos # x /\ Contains(q, pos)
           /\ priority[x] > priority[pos]
    OBVIOUS
  <2>4. \A n \in Mutex : n # m => ~Contains(waiting[n], x)
    BY <1>1, <1>2, <2>1 DEF OneEvent
  <2>5. \A t \in Task : Before(q, t, search.pos) /\ t # x => priority[t] >= priority[x]
    BY <1>3
  <2>6. \A a, b \in Task : /\ Before(q, a, b) /\ a # x /\ b \notin delayed \cup {x}
                           => priority[a] >= priority[b]
    BY <1>1, <1>3 DEF Ordered
  <2>7. q \in Seq(Task) /\ Injective(q)
    BY <1>1, <1>2 DEF EventLists, OneEvent
  <2> HIDE DEF q, x, m
  <2>8. /\ r \in Seq(Task)
        /\ \A u \in Task : Contains(r, u) <=> u # x /\ Contains(q, u)
    BY <1>1, <2>7, WithoutIsRemoval DEF Contains
  <2>9. \A a, b \in Task : Before(r, a, b) => Before(q, a, b) /\ a # x /\ b # x
    <3> SUFFICES ASSUME NEW a \in Task, NEW b \in Task, Before(r, a, b)
                 PROVE  Before(q, a, b) /\ a # x /\ b # x
      OBVIOUS
    <3>1. Contains(r, a) /\ Contains(r, b)
      BY <2>8, BeforeIn
    <3> QED BY <1>1, <2>7, <2>8, <3>1, OrderWithout
  <2> HIDE DEF r
  <2>10. ASSUME NEW a \in Task, NEW b \in Task, Before(InsertAt(r, k, x), a, b),
                b \notin delayed
         PROVE  priority[a] >= priority[b]
    <3>1. CASE pos = NULL
      <4>1. k = Len(r) + 1
        BY <3>1
      <4>2. Before(r, a, b) \/ (b = x /\ Contains(r, a))
        BY <1>1, <2>8, <2>10, <4>1, OrderInsertLast
      <4> QED BY <1>1, <1>2, <2>3, <2>6, <2>8, <2>9, <2>10, <3>1, <4>2
    <3>2. CASE pos # NULL
      <4>1. pos \in Task /\ Contains(r, pos)
        BY <1>1, <2>3, <2>8, <3>2
      <4>2. \E i \in DOMAIN r : r[i] = pos
        BY <2>8, <4>1 DEF Contains
      <4>3. k \in 1 .. Len(r) /\ r[k] = pos
        BY <2>8, <3>2, <4>2
      <4> HIDE DEF k
      <4>4. \/ Before(r, a, b)
            \/ b = x /\ Before(r, a, pos)
            \/ a = x /\ (b = pos \/ Before(r, pos, b))
        <5>1. \/ Before(r, a, b)
              \/ b = x /\ Before(r, a, r[k])
              \/ a = x /\ (b = r[k] \/ Before(r, r[k], b))
          BY <1>1, <2>8, <2>10, <4>3, OrderInsert
        <5> QED BY <4>3, <5>1
      <4>5. CASE Before(r, a, b)
        BY <2>6, <2>9, <2>10, <4>5
      <4>6. CASE b = x /\ Before(r, a, pos)
        BY <2>3, <2>5, <2>9, <3>2, <4>1, <4>6
      <4>7. CASE a = x /\ (b = pos \/ Before(r, pos, b))
        <5>1. priority[x] > priority[pos] /\ (b = pos \/ priority[pos] >= priority[b])
          BY <2>3, <2>6, <2>9, <2>10, <3>2, <4>1, <4>7
        <5> QED BY <1>1, <1>2, <4>1, <4>7, <5>1
      <4> QED BY <4>4, <4>5, <4>6, <4>7
    <3> QED BY <3>1, <3>2
  <2> HIDE DEF k
  <2>11. ASSUME NEW n \in Mutex, NEW a \in Task, NEW b \in Task, n # m,
                Before(waiting[n], a, b), b \notin delayed
         PROVE  priority[a] >= priority[b]
    <3>1. Contains(waiting[n], a) /\ Contains(waiting[n], b)
      BY <1>2, <2>11, BeforeWaits
    <3>2. a # x /\ b # x
      BY <2>4, <2>11, <3>1
    <3> QED BY <1>3, <2>11, <3>2 DEF Ordered
  <2>12. \A n \in Mutex : EventMove(pos)[n] = IF n = m THEN InsertAt(r, k, x) ELSE waiting[n]
    BY <1>1, <1>2, <2>2 DEF EventLists
  <2> QED BY <2>10, <2>11, <2>12 DEF Ordered
<1> QED BY <1>4, <1>5

\* event_resume_task() at the end of mutex_unlock(m).
LEMMA ReleaseOrder ==
    ASSUME MInv, WaitInv, NEW m \in Mutex, NEW ls \in [ListId -> Seq(Task)],
           NEW prio \in [Task -> Priority], OneList(ls, prio),
           \A u \in Task : Holds(ls, Suspended, u) <=> OnList(u, Suspended),
           NEW evs \in EventLists, OneEvent(evs), SameTasks(evs, waiting),
           ReleaseTo(m, ls, prio, evs)
    PROVE  /\ waiting' \in EventLists /\ KeepsOrder(waiting', evs)
           /\ \A u \in Task : Waiting(u)' => Waiting(u)
           /\ \A u \in Task : Waiting(u)' /\ u \in delayed => u \in delayed'
           /\ delayed' \subseteq Task /\ Asleep'
<1> DEFINE w == Head(evs[m])
<1>1. CASE evs[m] = <<>>
  <2>1. list' = ls /\ waiting' = evs /\ delayed' = delayed
    BY <1>1 DEF ReleaseTo
  <2>2. \A u \in Task : Waiting(u)' => Waiting(u)
    BY <2>1 DEF Waiting, SameTasks
  <2>3. Asleep'
    BY <2>1, <2>2 DEF WaitInv, Asleep, OnList, Holds
  <2> QED BY <2>1, <2>2, <2>3 DEF WaitInv, KeepsOrder
<1>2. CASE evs[m] # <<>>
  <2>1. /\ list' = LastOn(ls, w, prio[w])
        /\ waiting' = [evs EXCEPT ![m] = Tail(evs[m])]
        /\ delayed' = delayed \ {w}
    BY <1>2 DEF ReleaseTo
  <2>2. /\ waiting' \in EventLists
        /\ w \in Task
        /\ \A n \in Mutex, u \in Task :
              Contains(waiting'[n], u) <=> Contains(evs[n], u) /\ u # w
    BY <1>2, <2>1, FirstLeaves
  <2>3. KeepsOrder(waiting', evs)
    <3> SUFFICES ASSUME NEW n \in Mutex, NEW a \in Task, NEW b \in Task,
                        Before(waiting'[n], a, b)
                 PROVE  Before(evs[n], a, b)
      BY DEF KeepsOrder
    <3>1. CASE n = m
      <4> DEFINE q == evs[m]
      <4>1. q \in Seq(Task) /\ q # <<>> /\ waiting'[m] = Tail(q)
        BY <1>2, <2>1 DEF EventLists
      <4> HIDE DEF q
      <4>2. Before(q, a, b)
        BY <3>1, <4>1, OrderTail
      <4> QED BY <3>1, <4>2 DEF q
    <3>2. CASE n # m
      BY <2>1, <3>2 DEF EventLists
    <3> QED BY <3>1, <3>2
  <2> HIDE DEF w
  <2>4. \A u \in Task : Waiting(u)' => Waiting(u) /\ u # w
    BY <2>2 DEF Waiting, SameTasks
  <2>5. Asleep'
    <3>1. /\ prio[w] \in Priority /\ prio[w] \in ListId
      BY <2>2 DEF ListId
    <3>2. Moves(list', ls, w, prio[w])
      BY <2>1 DEF Moves
    <3>3. \A u \in Task : u # w => (Holds(list', Suspended, u) <=> Holds(ls, Suspended, u))
      BY <2>2, <3>1, <3>2, MoveIs
    <3> QED BY <2>1, <2>4, <3>3 DEF WaitInv, Asleep, OnList, Holds
  <2> QED BY <2>1, <2>2, <2>3, <2>4, <2>5 DEF WaitInv
<1> QED BY <1>1, <1>2

LEMMA MutexSuspendOrder ==
    ASSUME MInv, WaitInv, NEW m \in Mutex, NEW timed \in BOOLEAN, MutexSuspend(m, timed)
    PROVE  WaitInv'
<1> DEFINE t == Top.task
           o == task_owner[m]
           lends == Lends(o, t)
           ls == IF lends THEN Requeued(list, o, InheritedPriority(t)) ELSE list
<1>1. /\ InUserCode /\ Top.kind = "task" /\ ~Waiting(t)
      /\ priority' = IF lends THEN [priority EXCEPT ![o] = InheritedPriority(t)]
                              ELSE priority
      /\ UNCHANGED delayed
      /\ \/ /\ lends /\ Waiting(o)
            /\ list' = ls
            /\ waiting' = [waiting EXCEPT ![EventOf(o)] =
                              Append(Without(waiting[EventOf(o)], o), o)]
            /\ search' = SearchFor(o, EventOf(o), waiting', "inherit", m, timed)
         \/ /\ ~(lends /\ Waiting(o))
            /\ StartWait(t, m, timed, ls, waiting)
  BY DEF MutexSuspend
<1>2. t \in Task /\ search = NoSearch
  BY <1>1, Executing
<1>3. lends => o \in Task
  BY DataTypes DEF Lends, Caller
<1>4. /\ ls \in [ListId -> Seq(Task)] /\ OneList(ls, priority')
      /\ \A u \in Task : Holds(ls, Suspended, u) <=> OnList(u, Suspended)
  <2>1. CASE lends
    <3>1. priority' = [priority EXCEPT ![o] = InheritedPriority(t)]
      BY <1>1, <2>1
    <3>2. InheritedPriority(t) \in Priority /\ o \in Task
      BY <1>2, <1>3, <2>1, StackSeq DEF InheritedPriority
    <3>3. ls = Requeued(list, o, InheritedPriority(t))
      BY <2>1
    <3> HIDE DEF o, t, ls
    <3> QED BY <3>1, <3>2, <3>3, StackSeq, RequeuedIs, OnListIs
  <2>2. CASE ~lends
    BY <1>1, <2>2, StackSeq, OnListIs
  <2> QED BY <2>1, <2>2
<1>5. \A u \in Task : priority'[u] # priority[u] => lends /\ u = o
  BY <1>1, <1>3, StackSeq
<1> HIDE DEF ls, t, o, lends
<1>6. CASE /\ lends /\ Waiting(o)
           /\ list' = ls
           /\ waiting' = [waiting EXCEPT ![EventOf(o)] =
                             Append(Without(waiting[EventOf(o)], o), o)]
           /\ search' = SearchFor(o, EventOf(o), waiting', "inherit", m, timed)
  <2>1. \A u \in Task : OnList(u, Suspended)' <=> OnList(u, Suspended)
    BY <1>4, <1>6 DEF OnList, Holds
  <2> QED BY <1>1, <1>2, <1>3, <1>5, <1>6, <2>1, OwnerLooks
<1>7. CASE ~(lends /\ Waiting(o)) /\ StartWait(t, m, timed, ls, waiting)
  <2>1. Ordered(waiting, priority', delayed, NULL)
    <3> SUFFICES ASSUME NEW n \in Mutex, NEW a \in Task, NEW b \in Task,
                        Before(waiting[n], a, b), b \notin delayed
                 PROVE  priority'[a] >= priority'[b]
      BY DEF Ordered
    <3>1. Waiting(a) /\ Waiting(b)
      BY DataTypes, BeforeWaits DEF Waiting
    <3>2. priority'[a] = priority[a] /\ priority'[b] = priority[b]
      BY <1>5, <1>7, <3>1
    <3>3. search.task = NULL /\ a # NULL /\ b # NULL
      BY <1>2, NullAssumption DEF NoSearch
    <3> QED BY <3>2, <3>3 DEF WaitInv, Ordered
  <2>2. SameTasks(waiting, waiting) /\ waiting \in EventLists /\ OneEvent(waiting)
    BY DataTypes DEF SameTasks
  <2> DEFINE prio == priority'
  <2>3. OneList(ls, prio)
    BY <1>4
  <2> HIDE DEF prio
  <2> QED BY <1>1, <1>2, <1>4, <1>7, <2>1, <2>2, <2>3, StartWaitOrder
<1> QED BY <1>1, <1>6, <1>7

LEMMA MutexUnlockOrder ==
    ASSUME MInv, WaitInv, NEW m \in Mutex, MutexUnlock(m)
    PROVE  WaitInv'
<1>1. CASE count[m] > 1
  <2>1. count[m] # 1
    BY <1>1, DataTypes
  <2>2. UNCHANGED <<vars, task_owner, waiting, search, delayed, loan, woken>>
    BY <2>1, Zenon DEF MutexUnlock
  <2>3. UNCHANGED <<waiting, search, delayed, list, priority>>
    BY <2>2 DEF vars
  <2> QED BY <2>3, NothingWaits
<1>2. CASE count[m] = 1
  <2> DEFINE o == task_owner[m]
             prio == IF Restored(o) THEN [priority EXCEPT ![o] = original_priority[o]]
                                    ELSE priority
             ls == IF Restored(o) THEN Requeued(list, o, original_priority[o]) ELSE list
  <2>1. LastUnlock(m)
    <3>1. ~(count[m] > 1)
      BY <1>2, DataTypes
    <3> QED BY <3>1, Zenon DEF MutexUnlock, LastUnlock
  <2>2. /\ priority' = prio
        /\ \/ /\ Restored(o) /\ Waiting(o)
              /\ list' = ls
              /\ waiting' = [waiting EXCEPT ![EventOf(o)] =
                                Append(Without(waiting[EventOf(o)], o), o)]
              /\ search' = SearchFor(o, EventOf(o), waiting', "unlock", m, FALSE)
              /\ UNCHANGED delayed
           \/ /\ ~(Restored(o) /\ Waiting(o))
              /\ ReleaseTo(m, ls, prio, waiting)
              /\ UNCHANGED search
    BY <2>1 DEF LastUnlock
  <2>3. /\ Restored(o) => o \in Task /\ search = NoSearch
    BY UnlockCounts, Executing DEF Restored, Caller
  <2>4. /\ prio \in [Task -> Priority]
        /\ ls \in [ListId -> Seq(Task)] /\ OneList(ls, prio)
        /\ \A u \in Task : Holds(ls, Suspended, u) <=> OnList(u, Suspended)
    <3>1. CASE Restored(o)
      <4>1. original_priority[o] \in Priority /\ o \in Task
        BY <2>3, <3>1, MutexAssumption
      <4>2. /\ prio = [priority EXCEPT ![o] = original_priority[o]]
            /\ ls = Requeued(list, o, original_priority[o])
        BY <3>1
      <4> HIDE DEF o, prio, ls
      <4> QED BY <4>1, <4>2, StackSeq, RequeuedIs, OnListIs
    <3>2. CASE ~Restored(o)
      BY <3>2, StackSeq, OnListIs
    <3> QED BY <3>1, <3>2
  <2>5. \A u \in Task : priority'[u] # priority[u] => Restored(o) /\ u = o
    BY <2>2, <2>3, StackSeq
  <2>5a. ~Restored(o) => UNCHANGED priority
    BY <2>2
  <2> HIDE DEF o, prio, ls
  <2>6. CASE /\ Restored(o) /\ Waiting(o)
             /\ list' = ls
             /\ waiting' = [waiting EXCEPT ![EventOf(o)] =
                               Append(Without(waiting[EventOf(o)], o), o)]
             /\ search' = SearchFor(o, EventOf(o), waiting', "unlock", m, FALSE)
             /\ UNCHANGED delayed
    <3>1. \A u \in Task : OnList(u, Suspended)' <=> OnList(u, Suspended)
      BY <2>4, <2>6 DEF OnList, Holds
    <3> QED BY <2>3, <2>5, <2>6, <3>1, OwnerLooks
  <2>7. CASE /\ ~(Restored(o) /\ Waiting(o))
             /\ ReleaseTo(m, ls, prio, waiting)
             /\ UNCHANGED search
    <3>1. SameTasks(waiting, waiting) /\ waiting \in EventLists /\ OneEvent(waiting)
      BY DataTypes DEF SameTasks
    <3>2. /\ waiting' \in EventLists /\ KeepsOrder(waiting', waiting)
          /\ \A u \in Task : Waiting(u)' => Waiting(u)
          /\ \A u \in Task : Waiting(u)' /\ u \in delayed => u \in delayed'
          /\ delayed' \subseteq Task /\ Asleep'
      BY <2>4, <2>7, <3>1, ReleaseOrder
    <3>3. \A u \in Task : Waiting(u)' => priority'[u] = priority[u]
      BY <2>5, <2>7, <3>2
    <3>4. search # NoSearch => UNCHANGED priority
      BY <2>3, <2>5a
    <3>5. Ordered(waiting, priority, delayed, search.task)' /\ LooksBehind'
      BY <2>7, <3>2, <3>3, <3>4, OrderKept
    <3> QED BY <3>2, <3>5 DEF WaitInv
  <2> QED BY <2>2, <2>6, <2>7
<1> QED BY <1>1, <1>2, UnlockCounts, DataTypes

LEMMA EventPlacedOrder ==
    ASSUME MInv, WaitInv, Top.pc = "event", NEW pos,
           \/ /\ pos = NULL
              /\ \A t \in Task : Contains(waiting[search.event], t) /\ t # search.task
                                    => priority[t] >= priority[search.task]
           \/ /\ pos = search.pos /\ pos # search.task
              /\ Contains(waiting[search.event], pos)
              /\ priority[search.task] > priority[pos],
           EventPlaced(pos), UNCHANGED priority
    PROVE  WaitInv'
<1> DEFINE evs == EventMove(pos)
<1>1. /\ evs \in EventLists /\ OneEvent(evs) /\ SameTasks(evs, waiting)
      /\ Ordered(evs, priority, delayed, NULL)
  <2>1. /\ search # NoSearch
        /\ \/ pos = NULL
           \/ /\ pos \in Task /\ pos # search.task
              /\ Contains(waiting[search.event], pos)
    BY Comparing
  <2>2. evs \in EventLists /\ OneEvent(evs) /\ SameTasks(evs, waiting)
    BY <2>1, EventMoveIs
  <2>3. Ordered(evs, priority, delayed, NULL)
    BY <2>1, PlacedInOrder
  <2> QED BY <2>2, <2>3
<1>2. \/ /\ search.call = "wait"
         /\ waiting' = evs
         /\ search' = NoSearch
         /\ list' = IF search.timed THEN FirstOn(list, Top.task, Suspended) ELSE list
         /\ UNCHANGED delayed
      \/ /\ search.call = "inherit"
         /\ StartWait(Top.task, search.of, search.timed, list, evs)
         /\ UNCHANGED delayed
      \/ /\ search.call = "unlock"
         /\ ReleaseTo(search.of, list, priority, evs)
         /\ search' = NoSearch
  BY DEF EventPlaced
<1> HIDE DEF evs
<1>3. \A u \in Task : Holds(list, Suspended, u) <=> OnList(u, Suspended)
  BY OnListIs
<1>4. CASE /\ search.call = "wait"
           /\ waiting' = evs
           /\ search' = NoSearch
           /\ list' = IF search.timed THEN FirstOn(list, Top.task, Suspended) ELSE list
           /\ UNCHANGED delayed
  <2>1. \A u \in Task : OnList(u, Suspended) => OnList(u, Suspended)'
    <3>1. CASE search.timed
      <4>1. Moves(list', list, Top.task, Suspended) /\ Top.task \in Task
        BY <1>4, <3>1, Comparing DEF Moves
      <4>2. Suspended \in ListId /\ Suspended \notin Priority
        BY PriorityAssumption DEF ListId, Suspended, Priority
      <4> DEFINE t == Top.task
      <4>3. Moves(list', list, t, Suspended) /\ t \in Task
        BY <4>1
      <4> HIDE DEF t
      <4>4. \A u \in Task : Holds(list', Suspended, u)
               <=> IF u = t THEN Suspended = Suspended ELSE Holds(list, Suspended, u)
        BY <4>2, <4>3, StackSeq, MoveIs
      <4> QED BY <4>4 DEF OnList, Holds
    <3>2. CASE ~search.timed
      BY <1>4, <3>2 DEF OnList
    <3> QED BY <3>1, <3>2
  <2>2. Asleep'
    <3> SUFFICES ASSUME NEW u \in Task, Waiting(u)', u \notin delayed'
                 PROVE  OnList(u, Suspended)'
      BY DEF Asleep
    <3>1. Waiting(u) /\ u \notin delayed
      BY <1>1, <1>4 DEF Waiting, SameTasks
    <3> QED BY <2>1, <3>1 DEF WaitInv, Asleep
  <2>3. Ordered(waiting, priority, delayed, search.task)'
    BY <1>1, <1>4 DEF NoSearch
  <2> QED BY <1>4, <2>2, <2>3 DEF WaitInv, LooksBehind
<1>5. CASE /\ search.call = "inherit"
           /\ StartWait(Top.task, search.of, search.timed, list, evs)
           /\ UNCHANGED delayed
  <2> DEFINE t == Top.task
             m == search.of
             timed == search.timed
  <2>1. /\ t \in Task /\ m \in Mutex /\ ~Waiting(t)
        /\ StartWait(t, m, timed, list, evs)
    BY <1>5, Comparing
  <2>2. Ordered(evs, priority', delayed, NULL)
    BY <1>1
  <2> HIDE DEF t, m, timed
  <2> QED BY <1>1, <1>3, <1>5, <2>1, <2>2, StackSeq, StartWaitOrder
<1>6. CASE /\ search.call = "unlock"
           /\ ReleaseTo(search.of, list, priority, evs)
           /\ search' = NoSearch
  <2> DEFINE m == search.of
  <2>1. m \in Mutex /\ ReleaseTo(m, list, priority, evs)
    BY <1>6, Comparing
  <2> HIDE DEF m
  <2>2. /\ waiting' \in EventLists /\ KeepsOrder(waiting', evs)
        /\ \A u \in Task : Waiting(u)' /\ u \in delayed => u \in delayed'
        /\ delayed' \subseteq Task /\ Asleep'
    BY <1>1, <1>3, <2>1, StackSeq, ReleaseOrder
  <2>3. Ordered(waiting', priority, delayed', NULL)
    <3> SUFFICES ASSUME NEW n \in Mutex, NEW a \in Task, NEW b \in Task,
                        Before(waiting'[n], a, b), b \notin delayed'
                 PROVE  priority[a] >= priority[b]
      BY DEF Ordered
    <3>1. Waiting(b)'
      BY <2>2, BeforeWaits DEF Waiting
    <3>2. Before(evs[n], a, b) /\ b \notin delayed /\ a # NULL /\ b # NULL
      BY <2>2, <3>1, NullAssumption DEF KeepsOrder
    <3> QED BY <1>1, <3>2 DEF Ordered
  <2> QED BY <1>6, <2>2, <2>3 DEF WaitInv, LooksBehind, NoSearch
<1> QED BY <1>2, <1>4, <1>5, <1>6

\* A search ends with the last task of the list, and passes a task when it goes
\* on to the next.
LEMMA EventNextPasses ==
    ASSUME NEW s \in Seq(Task), Injective(s), s # <<>>, search.pos \in Task
    PROVE  /\ EventNext(s) = NULL => search.pos = Last(s)
           /\ \A a : EventNext(s) # NULL /\ Before(s, a, EventNext(s))
                       => a = search.pos \/ Before(s, a, search.pos)
           /\ \A a : EventNext(s) # NULL /\ Before(s, a, EventNext(s))
                       => Contains(s, search.pos)
<1>1. CASE search.pos \notin ToSet(s)
  <2>1. Head(s \o <<NULL>>) = Head(s) /\ Head(s) \in Task
    OBVIOUS
  <2>2. EventNext(s) = Head(s) /\ EventNext(s) # NULL
    BY <1>1, <2>1, NullAssumption DEF EventNext
  <2> QED BY <2>2, BeforeHead
<1>2. CASE search.pos \in ToSet(s) /\ search.pos = Last(s)
  <2>1. EventNext(s) = NULL
    BY <1>2 DEF EventNext
  <2> QED BY <1>2, <2>1
<1>3. CASE search.pos \in ToSet(s) /\ search.pos # Last(s)
  <2> DEFINE k == CHOOSE i \in DOMAIN s : s[i] = search.pos
  <2>1. k \in 1 .. Len(s) /\ s[k] = search.pos
    BY <1>3 DEF ToSet
  <2>2. EventNext(s) = s[1 + k]
    BY <1>3 DEF EventNext
  <2> HIDE DEF k
  <2>3. k + 1 \in 1 .. Len(s) /\ 1 + k = k + 1
    BY <1>3, <2>1 DEF Last
  <2>4. EventNext(s) = s[k + 1] /\ s[k + 1] \in Task
    BY <2>2, <2>3
  <2>5. ASSUME NEW a, Before(s, a, s[k + 1])
        PROVE  a = search.pos \/ Before(s, a, search.pos)
    BY <2>1, <2>3, <2>5, BeforeNext
  <2>6. Contains(s, search.pos)
    BY <2>1 DEF Contains
  <2> QED BY <2>4, <2>5, <2>6, NullAssumption
<1> QED BY <1>1, <1>2, <1>3

LEMMA EventCompareOrder ==
    ASSUME MInv, WaitInv, EventCompare
    PROVE  WaitInv'
<1> DEFINE evs == waiting[search.event]
           found == /\ priority[search.task] > priority[search.pos]
                    /\ search.pos \in ToSet(evs)
           next == EventNext(evs)
<1>1. /\ Top.pc = "event" /\ UNCHANGED priority
      /\ \/ found /\ EventPlaced(search.pos)
         \/ ~found /\ next = NULL /\ EventPlaced(NULL)
         \/ /\ ~found /\ next # NULL
            /\ search' = [search EXCEPT !.pos = next]
            /\ UNCHANGED <<list, waiting, delayed>>
  BY DEF EventCompare
<1>2. /\ search # NoSearch /\ search \in SearchRecord /\ search.event \in Mutex
      /\ search.task \in Task /\ search.pos \in Task
      /\ evs \in Seq(Task) /\ Injective(evs)
  BY <1>1, Comparing, DataTypes DEF EventLists, OneEvent
<1>3. Contains(evs, search.pos) <=> search.pos \in ToSet(evs)
  BY <1>2 DEF Contains, ToSet
<1>4. priority[search.pos] \in Nat /\ priority[search.task] \in Nat
  BY <1>2, StackSeq, PriorityAssumption DEF Priority
<1>5. ~found /\ Contains(evs, search.pos) => priority[search.pos] >= priority[search.task]
  BY <1>3, <1>4
<1>6. \A t \in Task : Before(evs, t, search.pos) /\ t # search.task
                         => priority[t] >= priority[search.task]
  BY <1>2 DEF WaitInv, LooksBehind
<1>7. CASE found /\ EventPlaced(search.pos)
  BY <1>1, <1>3, <1>4, <1>7, EventPlacedOrder
<1>8. CASE ~found /\ next = NULL /\ EventPlaced(NULL)
  <2>1. evs # <<>> => search.pos = Last(evs)
    BY <1>2, <1>8, EventNextPasses
  <2>2. ASSUME NEW t \in Task, Contains(evs, t)
        PROVE  t = search.pos \/ Before(evs, t, search.pos)
    <3>1. evs # <<>>
      BY <2>2 DEF Contains
    <3> QED BY <1>2, <2>1, <2>2, <3>1, BeforeLast
  <2>3. \A t \in Task : Contains(evs, t) /\ t # search.task
                           => priority[t] >= priority[search.task]
    BY <1>5, <1>6, <1>8, <2>2
  <2> QED BY <1>1, <1>8, <2>3, EventPlacedOrder
<1>9. CASE /\ ~found /\ next # NULL
           /\ search' = [search EXCEPT !.pos = next]
           /\ UNCHANGED <<list, waiting, delayed>>
  <2>1. search'.pos = next /\ search'.task = search.task /\ search'.event = search.event
    BY <1>2, <1>9 DEF SearchRecord
  <2>2. \A a : Before(evs, a, next) => /\ a = search.pos \/ Before(evs, a, search.pos)
                                       /\ Contains(evs, search.pos)
    <3>1. CASE evs = <<>>
      BY <3>1 DEF Before
    <3>2. CASE evs # <<>>
      BY <1>2, <1>9, <3>2, EventNextPasses
    <3> QED BY <3>1, <3>2
  <2>3. ASSUME NEW t \in Task, Before(evs, t, next), t # search.task
        PROVE  priority[t] >= priority[search.task]
    BY <1>5, <1>6, <1>9, <2>2, <2>3
  <2>4. \A m \in Mutex, u \in Task : ~Before(waiting[m], search.task, u)
    BY <1>2 DEF WaitInv, LooksBehind
  <2> HIDE DEF next
  <2>5. LooksBehind'
    BY <1>1, <1>9, <2>1, <2>3, <2>4 DEF LooksBehind
  <2>6. Ordered(waiting, priority, delayed, search.task)'
    BY <1>1, <1>9, <2>1 DEF WaitInv
  <2>7. Asleep'
    BY <1>9 DEF WaitInv, Asleep, Waiting, OnList
  <2> QED BY <1>9, <2>5, <2>6, <2>7 DEF WaitInv
<1> QED BY <1>1, <1>7, <1>8, <1>9

LEMMA MutexInitOrder == MutexInit => WaitInv
<1> SUFFICES ASSUME MutexInit PROVE WaitInv
  OBVIOUS
<1>1. \A m \in Mutex : waiting[m] = <<>>
  BY DEF MutexInit
<1>2. \A m \in Mutex : \A t : ~Contains(waiting[m], t)
  BY <1>1 DEF Contains
<1>3. \A m \in Mutex : \A t, u : ~Before(waiting[m], t, u)
  BY <1>1 DEF Before
<1>4. delayed = {} /\ search = NoSearch
  BY DEF MutexInit
<1> QED BY <1>2, <1>3, <1>4 DEF WaitInv, Asleep, Waiting, Ordered, LooksBehind

LEMMA MutexStepOrder == MInv /\ WaitInv /\ [MutexNext]_allVars => WaitInv'
<1> SUFFICES ASSUME MInv, WaitInv, [MutexNext]_allVars PROVE WaitInv'
  OBVIOUS
<1>1. ASSUME NEW m \in Mutex, MutexLock(m) PROVE WaitInv'
  BY <1>1, NothingWaits DEF MutexLock, vars
<1>2. ASSUME NEW m \in Mutex, MutexUnlock(m) PROVE WaitInv'
  BY <1>2, MutexUnlockOrder
<1>3. ASSUME NEW m \in Mutex, NEW timed \in BOOLEAN, MutexSuspend(m, timed)
      PROVE  WaitInv'
  BY <1>3, MutexSuspendOrder
<1>4. CASE EventCompare
  BY <1>4, EventCompareOrder
<1>5. CASE DelayInsert
  BY <1>5, DelayOrder
<1>6. CASE ResumeWaiting
  BY <1>6, ResumeOrder
<1>7. ASSUME NEW t \in Others, SuspendTask(t) PROVE WaitInv'
  BY <1>7, MutexAssumption, SuspendOrder
<1>8. CASE KernelOperation
  BY <1>8, KernelOrder
<1>9. CASE UNCHANGED allVars
  BY <1>9, NothingWaits DEF allVars, vars, mutexVars
<1> QED BY <1>1, <1>2, <1>3, <1>4, <1>5, <1>6, <1>7, <1>8, <1>9 DEF MutexNext

\* The event lists are sorted by the priorities that the tasks have now.
THEOREM MutexWaitersAreSorted == MutexSpec => []MutexWaitersSorted
<1>1. MutexInit => WaitInv
  BY MutexInitOrder
<1>2. MInv /\ WaitInv /\ [MutexNext]_allVars => WaitInv'
  BY MutexStepOrder
<1>3. ASSUME MInv, WaitInv PROVE MutexWaitersSorted
  <2> SUFFICES ASSUME NEW m \in Mutex, NEW i \in DOMAIN waiting[m],
                      NEW j \in DOMAIN waiting[m], i < j,
                      {waiting[m][i], waiting[m][j]} \cap (delayed \cup {search.task}) = {}
               PROVE  priority[waiting[m][i]] >= priority[waiting[m][j]]
    BY Zenon DEF MutexWaitersSorted
  <2>1. waiting[m] \in Seq(Task)
    BY <1>3, DataTypes DEF EventLists
  <2>2. i \in 1 .. Len(waiting[m]) /\ j \in 1 .. Len(waiting[m])
    BY <2>1
  <2> DEFINE t == waiting[m][i]
             u == waiting[m][j]
  <2>3. Before(waiting[m], t, u) /\ t \in Task /\ u \in Task
    BY <2>1, <2>2 DEF Before
  <2>4. t # search.task /\ u \notin delayed \cup {search.task}
    OBVIOUS
  <2> HIDE DEF t, u
  <2>5. priority[t] >= priority[u]
    BY <1>3, <2>3, <2>4 DEF WaitInv, Ordered
  <2> QED BY <2>5 DEF t, u
<1> QED BY <1>1, <1>2, <1>3, MutexInvariantHolds, PTL DEF MutexSpec

=============================================================================
