------------------------- MODULE TaskThread_proofs -------------------------
(***************************************************************************)
(* Proofs about TaskThread, for every number of threads, callers, tasks    *)
(* and timers: no wakeup is lost, whichever thread a signal reaches, tasks *)
(* are given out once and in order, and a timer that is run late keeps to  *)
(* its grid.                                                               *)
(***************************************************************************)
EXTENDS TaskThread, TLAPS, SequenceTheorems

-----------------------------------------------------------------------------
(* Helpers. *)

(* The end of an armed timer is a time. *)
LEMMA EndType ==
    ASSUME TypeOK, NEW id \in armed
    PROVE  /\ id \in Timers /\ EndOf(id) \in Nat
           /\ interval[id] \in Nat /\ interval[id] > 0
           /\ start[id] \in Nat /\ base[id] \in Nat
  <1>1. id \in Timers /\ start[id] \in Nat /\ base[id] \in Nat /\ interval[id] \in Elapses
    BY DEF TypeOK
  <1>2. interval[id] \in Nat \ {0}
    BY <1>1, PoolAssumption, Zenon
  <1>3. \A n \in Nat \ {0} : n \in Nat /\ n > 0
    OBVIOUS
  <1> QED
    BY <1>1, <1>2, <1>3 DEF EndOf

LEMMA GotoType ==
    ASSUME TypeOK, NEW w \in Workers, NEW until \in Nat,
           NEW to \in {"start", "waiting", "woken", "timer", "task", "gone"},
           Goto(w, to, until)
    PROVE  /\ pc' \in [Workers -> {"none", "start", "waiting", "woken", "timer", "task", "gone"}]
           /\ deadline' \in [Workers -> Nat]
           /\ pc'[w] = to /\ deadline'[w] = until
           /\ \A v \in Workers \ {w} : pc'[v] = pc[v] /\ deadline'[v] = deadline[v]
  BY DEF TypeOK, Goto

LEMMA WaitType ==
    ASSUME TypeOK, NEW w \in Workers, Wait(w)
    PROVE  \E d \in Nat : GetWaitTime(d) /\ Goto(w, "waiting", d)
  <1>1. PICK d \in {Forever} \cup {EndOf(id) : id \in armed} :
                GetWaitTime(d) /\ Goto(w, "waiting", d)
    BY DEF Wait
  <1>2. d \in Nat
    BY <1>1, EndType, PoolAssumption
  <1> QED
    BY <1>1, <1>2

(* What a thread does while it has the mutex, in four cases. *)
LEMMA DoWhileCases ==
    ASSUME NEW w \in Workers, DoWhile(w)
    PROVE  /\ pc[w] \in {"start", "woken", "timer", "task"}
           /\ UNCHANGED <<phase, threads, owes, now, posted, urgent, armed, interval, base>>
           /\ \/ ExitFlag /\ Leave(w)
              \/ queue = <<>> /\ Wait(w)
              \/ Pop(w)
              \/ \E id \in armed : Peek(w, id)
  BY DEF DoWhile, Start, Wake, TimerDone, TaskDone, Loop, DoOneTimer, DoOneTask

-----------------------------------------------------------------------------
(* Every step stays in the types. *)

LEMMA TypeInit == Init => TypeOK
  BY PoolAssumption DEF Init, TypeOK

LEMMA DoWhileTypes ==
    ASSUME TypeOK, NEW w \in Workers, DoWhile(w)
    PROVE  TypeOK'
  <1>1. /\ UNCHANGED <<phase, threads, owes, now, posted, urgent, armed, interval, base>>
        /\ \/ Leave(w) \/ Wait(w) \/ Pop(w) \/ \E id \in armed : Peek(w, id)
    BY DoWhileCases
  <1>2. CASE Leave(w)
    BY <1>1, <1>2, GotoType DEF Leave, TypeOK
  <1>3. CASE Wait(w)
    <2>1. PICK d \in Nat : Goto(w, "waiting", d)
      BY <1>3, WaitType
    <2> QED
      BY <1>1, <1>3, <2>1, GotoType DEF Wait, TypeOK
  <1>4. CASE Pop(w)
    <2>1. /\ queue \in Seq(Tasks) /\ queue # <<>> /\ taken \in Seq(Tasks)
          /\ queue' = Tail(queue) /\ taken' = Append(taken, Head(queue)) /\ start' = start
          /\ Goto(w, "task", 0)
      BY <1>4 DEF Pop, TypeOK
    <2>2. queue' \in Seq(Tasks) /\ taken' \in Seq(Tasks)
      BY <2>1
    <2> QED
      BY <1>1, <2>1, <2>2, GotoType DEF TypeOK
  <1>5. CASE \E id \in armed : Peek(w, id)
    <2>1. PICK id \in armed : Peek(w, id)
      BY <1>5
    <2>2. start' \in [Timers -> Nat]
      BY <2>1, EndType DEF Peek, Rearmed, TypeOK
    <2> QED
      BY <1>1, <2>1, <2>2, GotoType DEF Peek, TypeOK
  <1> QED
    BY <1>1, <1>2, <1>3, <1>4, <1>5

LEMMA CallTypes ==
    ASSUME TypeOK, NEW c \in Threads, Call(c)
    PROVE  TypeOK'
  <1>1. ASSUME NEW t \in Tasks, PostTask(c, t) PROVE TypeOK'
    <2>1. Append(queue, t) \in Seq(Tasks) /\ Append(posted, t) \in Seq(Tasks)
      BY DEF TypeOK
    <2> QED
      BY <1>1, <2>1 DEF PostTask, Unlock, TypeOK, threadVars, timerVars
  <1>2. ASSUME NEW t \in Tasks, PostFrontTask(c, t) PROVE TypeOK'
    <2>1. <<t>> \o queue \in Seq(Tasks)
      BY DEF TypeOK
    <2> QED
      BY <1>2, <2>1 DEF PostFrontTask, Unlock, TypeOK, threadVars, timerVars
  <1>3. ASSUME NEW id \in Timers, KillTimer(c, id) PROVE TypeOK'
    BY <1>3 DEF KillTimer, TypeOK, threadVars, taskVars
  <1>4. ASSUME NEW id \in Timers, NEW e \in Elapses, SetTimer(c, id, e) PROVE TypeOK'
    BY <1>4, PoolAssumption DEF SetTimer, Unlock, TypeOK, threadVars, taskVars
  <1> QED
    BY <1>1, <1>2, <1>3, <1>4 DEF Call

LEMMA TypeStep == TypeOK /\ [Next]_vars => TypeOK'
  <1> SUFFICES ASSUME TypeOK, [Next]_vars PROVE TypeOK'
    OBVIOUS
  <1>1. ASSUME NEW w \in Workers, DoWhile(w) PROVE TypeOK'
    BY <1>1, DoWhileTypes
  <1>2. ASSUME NEW w \in Workers, Rouse(w) PROVE TypeOK'
    BY <1>2, GotoType DEF Rouse, TypeOK, taskVars, timerVars
  <1>3. ASSUME NEW w \in Workers, Begin(w) PROVE TypeOK'
    BY <1>3, GotoType DEF Begin, TypeOK, taskVars, timerVars
  <1>4. ASSUME NEW c \in Threads, Call(c) PROVE TypeOK'
    BY <1>4, CallTypes
  <1>5. ASSUME NEW c \in Threads, Signal(c) PROVE TypeOK'
    <2>1. /\ pc' \in [Workers -> {"none", "start", "waiting", "woken", "timer", "task", "gone"}]
          /\ deadline' \in [Workers -> Nat]
      BY <1>5, GotoType DEF Signal, threadVars, Waiting, TypeOK
    <2> QED
      BY <1>5, <2>1 DEF Signal, TypeOK, taskVars, timerVars
  <1>6. CASE BeginReturns \/ NotifyExit \/ Join
    BY <1>6 DEF BeginReturns, NotifyExit, Join, Owner, TypeOK, taskVars, timerVars, threadVars
  <1>7. CASE Broadcast
    BY <1>7 DEF Broadcast, Owner, TypeOK, taskVars, timerVars
  <1>8. CASE Tick
    BY <1>8, PoolAssumption DEF Tick, TypeOK, taskVars, timerVars, threadVars
  <1>9. CASE UNCHANGED vars
    BY <1>9 DEF vars, TypeOK, taskVars, timerVars, threadVars
  <1> QED
    BY <1>1, <1>2, <1>3, <1>4, <1>5, <1>6, <1>7, <1>8, <1>9 DEF Next, End

(* Every reachable state of the pool is well typed. *)
THEOREM TypeCorrect == Spec => []TypeOK
  BY TypeInit, TypeStep, PTL DEF Spec

-----------------------------------------------------------------------------
(* No lost wakeup.  It is inductive together with where the threads are:   *)
(* one that has been created is in do_while until the flag is set.         *)

Placed == \A w \in Workers : /\ pc[w] = "none" <=> w \notin threads
                             /\ pc[w] = "gone" => ExitFlag

(* The two halves of NoLostWakeup for an open pool.                        *)
SleepInTime(w) == pc[w] = "waiting" /\ \A id \in armed : deadline[w] <= EndOf(id)
TasksCovered == queue # <<>> => SomeoneComes
TimersCovered == armed # {} => SomeoneComes \/ \E w \in Workers : SleepInTime(w)

WakeInv == TypeOK /\ Placed /\ NoLostWakeup

LEMMA Halves ==
    NoLostWakeup <=> (threads # {} /\ ~ExitFlag => TasksCovered /\ TimersCovered)
  BY DEF NoLostWakeup, TasksCovered, TimersCovered, SleepInTime, Waiting

(* A thread that is awake, or a caller that has not signalled yet, will do. *)
LEMMA AwakeCovers ==
    ASSUME NEW w \in Workers, pc[w] \in {"start", "woken", "timer", "task"}
    PROVE  NoLostWakeup
  BY DEF NoLostWakeup, SomeoneComes, Awake

LEMMA OwingCovers ==
    ASSUME NEW c \in Threads, owes[c]
    PROVE  NoLostWakeup
  BY DEF NoLostWakeup, SomeoneComes

LEMMA PlacedStep == TypeOK /\ Placed /\ [Next]_vars => Placed'
  <1> SUFFICES ASSUME TypeOK, Placed, [Next]_vars PROVE Placed'
    OBVIOUS
  <1>1. ASSUME NEW w \in Workers, DoWhile(w) PROVE Placed'
    <2>1. /\ pc[w] \in {"start", "woken", "timer", "task"}
          /\ UNCHANGED <<phase, threads>>
          /\ \/ ExitFlag /\ Leave(w)
             \/ queue = <<>> /\ Wait(w)
             \/ Pop(w)
             \/ \E id \in armed : Peek(w, id)
      BY <1>1, DoWhileCases
    <2>2. \E to \in {"waiting", "timer", "task", "gone"} :
              /\ pc' = [pc EXCEPT ![w] = to]
              /\ to = "gone" => ExitFlag
      BY <2>1 DEF Leave, Wait, Pop, Peek, Goto
    <2> QED
      BY <2>1, <2>2 DEF Placed, TypeOK, ExitFlag
  <1>2. ASSUME NEW w \in Workers, Rouse(w) PROVE Placed'
    BY <1>2 DEF Rouse, Goto, Placed, TypeOK, ExitFlag
  <1>3. ASSUME NEW w \in Workers, Begin(w) PROVE Placed'
    BY <1>3 DEF Begin, Goto, Placed, TypeOK, ExitFlag
  <1>4. ASSUME NEW c \in Threads, Call(c) PROVE Placed'
    <2>1. UNCHANGED <<phase, threads, threadVars>>
      BY <1>4 DEF Call, PostTask, PostFrontTask, KillTimer, SetTimer
    <2> QED
      BY <2>1 DEF Placed, ExitFlag, threadVars
  <1>5. ASSUME NEW c \in Threads, Signal(c) PROVE Placed'
    BY <1>5 DEF Signal, Goto, Waiting, Placed, TypeOK, ExitFlag, threadVars
  <1>6. CASE BeginReturns \/ NotifyExit \/ Join
    BY <1>6 DEF BeginReturns, NotifyExit, Join, Owner, Placed, ExitFlag, threadVars
  <1>7. CASE Broadcast
    BY <1>7 DEF Broadcast, Owner, Waiting, Placed, ExitFlag, TypeOK
  <1>8. CASE Tick \/ UNCHANGED vars
    BY <1>8 DEF Tick, vars, Placed, ExitFlag, threadVars
  <1> QED
    BY <1>1, <1>2, <1>3, <1>4, <1>5, <1>6, <1>7, <1>8 DEF Next, End

(* A thread that waits has seen an empty queue and the first timer.        *)
LEMMA WaitCovers ==
    ASSUME TypeOK, NEW w \in Workers, queue = <<>>, Wait(w), UNCHANGED <<armed, interval>>
    PROVE  NoLostWakeup'
  <1>1. PICK d \in Nat : GetWaitTime(d) /\ Goto(w, "waiting", d)
    BY WaitType
  <1>2. pc'[w] = "waiting" /\ deadline'[w] = d
    BY <1>1 DEF Goto, TypeOK
  <1>3. queue' = <<>> /\ \A id \in armed : EndOf(id)' = EndOf(id)
    BY DEF Wait, EndOf
  <1>4. ASSUME NEW id \in armed PROVE d <= EndOf(id)
    <2>1. PICK first \in armed : IsFirst(first) /\ d = EndOf(first)
      BY <1>1, <1>4 DEF GetWaitTime
    <2>2. EndOf(first) \in Nat /\ EndOf(id) \in Nat
      BY EndType
    <2> QED
      BY <2>1, <2>2 DEF IsFirst
  <1>5. SleepInTime(w)'
    BY <1>2, <1>3, <1>4 DEF SleepInTime
  <1> QED
    BY <1>3, <1>5 DEF NoLostWakeup, SleepInTime, Waiting

LEMMA WakeStep == WakeInv /\ [Next]_vars => WakeInv'
  <1> SUFFICES ASSUME WakeInv, [Next]_vars PROVE NoLostWakeup'
    BY TypeStep, PlacedStep DEF WakeInv
  <1> USE DEF WakeInv
  <1>0. TypeOK' /\ Placed'
    BY TypeStep, PlacedStep
  <1>1. ASSUME NEW w \in Workers, DoWhile(w) PROVE NoLostWakeup'
    <2>1. /\ UNCHANGED <<phase, armed, interval>>
          /\ \/ ExitFlag /\ Leave(w)
             \/ queue = <<>> /\ Wait(w)
             \/ Pop(w)
             \/ \E id \in armed : Peek(w, id)
      BY <1>1, DoWhileCases
    <2>2. CASE ExitFlag
      BY <2>1, <2>2 DEF NoLostWakeup, ExitFlag
    <2>3. CASE queue = <<>> /\ Wait(w)
      BY <2>1, <2>3, WaitCovers
    <2>4. CASE Pop(w) \/ \E id \in armed : Peek(w, id)
      <3>1. pc'[w] \in {"timer", "task"}
        BY <2>4 DEF Pop, Peek, Goto, TypeOK
      <3> QED
        BY <3>1 DEF NoLostWakeup, SomeoneComes, Awake
    <2> QED
      BY <2>1, <2>2, <2>3, <2>4
  <1>2. ASSUME NEW w \in Workers, Rouse(w) \/ Begin(w) PROVE NoLostWakeup'
    <2>1. pc'[w] \in {"woken", "start"}
      BY <1>2 DEF Rouse, Begin, Goto, TypeOK
    <2> QED
      BY <2>1 DEF NoLostWakeup, SomeoneComes, Awake
  <1>3. ASSUME NEW c \in Threads, Call(c) PROVE NoLostWakeup'
    <2>1. CASE \E t \in Tasks : PostTask(c, t) \/ PostFrontTask(c, t)
      <3>1. owes'[c]
        BY <2>1 DEF PostTask, PostFrontTask, Unlock, TypeOK
      <3> QED
        BY <3>1 DEF NoLostWakeup, SomeoneComes
    <2>2. CASE \E id \in Timers : \E e \in Elapses : SetTimer(c, id, e)
      <3>1. owes'[c]
        BY <2>2 DEF SetTimer, Unlock, TypeOK
      <3> QED
        BY <3>1 DEF NoLostWakeup, SomeoneComes
    <2>3. ASSUME NEW killed \in Timers, KillTimer(c, killed) PROVE NoLostWakeup'
      <3>1. /\ UNCHANGED <<phase, threads, owes, pc, deadline, queue>>
            /\ armed' = armed \ {killed}
            /\ \A id \in armed' : EndOf(id)' = EndOf(id)
        BY <2>3 DEF KillTimer, threadVars, taskVars, EndOf, TypeOK
      <3> QED
        BY <3>1 DEF NoLostWakeup, SomeoneComes, Awake, Waiting, ExitFlag
    <2> QED
      BY <1>3, <2>1, <2>2, <2>3 DEF Call
  <1>4. ASSUME NEW c \in Threads, Signal(c) PROVE NoLostWakeup'
    <2>1. CASE Waiting = {}
      <3>1. UNCHANGED <<phase, threads, pc>>
        BY <1>4, <2>1 DEF Signal, threadVars
      <3>2. ASSUME NEW w \in threads, ~ExitFlag PROVE w \in Awake
        BY <2>1, <3>2 DEF Placed, Awake, Waiting, TypeOK
      <3> QED
        BY <3>1, <3>2 DEF NoLostWakeup, SomeoneComes, Awake, ExitFlag
    <2>2. CASE Waiting # {}
      <3>1. PICK w \in Workers : pc'[w] = "woken"
        BY <1>4, <2>2 DEF Signal, Goto, Waiting, TypeOK
      <3> QED
        BY <3>1 DEF NoLostWakeup, SomeoneComes, Awake
    <2> QED
      BY <2>1, <2>2
  <1>5. CASE BeginReturns
    BY <1>5 DEF BeginReturns, Owner, threadVars, taskVars, timerVars, NoLostWakeup,
                SomeoneComes, Awake, Waiting, ExitFlag, EndOf
  <1>6. CASE End
    BY <1>6 DEF End, NotifyExit, Broadcast, Join, Owner, NoLostWakeup, ExitFlag
  <1>7. CASE Tick \/ UNCHANGED vars
    BY <1>7 DEF Tick, vars, threadVars, taskVars, timerVars, NoLostWakeup,
                SomeoneComes, Awake, Waiting, ExitFlag, EndOf
  <1> QED
    BY <1>1, <1>2, <1>3, <1>4, <1>5, <1>6, <1>7 DEF Next

(* As long as the pool is open, some thread comes for the tasks that wait  *)
(* and in time for the first timer (thread-queue.h: unlock, then signal).  *)
THEOREM NoWakeupLost == Spec => []NoLostWakeup
  <1>1. Init => WakeInv
    BY TypeInit DEF Init, WakeInv, Placed, NoLostWakeup
  <1>2. WakeInv /\ [Next]_vars => WakeInv'
    BY WakeStep
  <1>3. WakeInv => NoLostWakeup
    BY DEF WakeInv
  <1> QED
    BY <1>1, <1>2, <1>3, PTL DEF Spec

-----------------------------------------------------------------------------
(* Tasks are given out in order.  What has been given out and what waits   *)
(* make one line; a thread moves the boundary between the two, post_task   *)
(* adds at the end and post_front_task at the boundary.                    *)

InLine(all, inOrder, ahead) ==
    /\ Items(all) = Items(inOrder) \cup ahead
    /\ \A i, j \in DOMAIN all : all[i] = all[j] => i = j
    /\ \A i, j \in DOMAIN all, p, q \in DOMAIN inOrder :
           i < j /\ inOrder[p] = all[i] /\ inOrder[q] = all[j] => p < q

LEMMA OneLine == TasksInOrder <=> InLine(taken \o queue, posted, urgent)
  BY DEF TasksInOrder, InLine

(* Behind the last one. *)
LEMMA AddedBehind ==
    ASSUME NEW all \in Seq(Tasks), NEW inOrder \in Seq(Tasks), NEW ahead,
           InLine(all, inOrder, ahead), NEW t \in Tasks, t \notin Items(inOrder) \cup ahead
    PROVE  InLine(Append(all, t), Append(inOrder, t), ahead)
  <1> DEFINE more == Append(all, t)
             then == Append(inOrder, t)
  <1>1. /\ DOMAIN all = 1..Len(all) /\ Len(all) \in Nat
        /\ DOMAIN more = 1..(Len(all) + 1) /\ more[Len(all) + 1] = t
        /\ \A i \in 1..Len(all) : more[i] = all[i]
    OBVIOUS
  <1>2. /\ DOMAIN inOrder = 1..Len(inOrder) /\ Len(inOrder) \in Nat
        /\ DOMAIN then = 1..(Len(inOrder) + 1) /\ then[Len(inOrder) + 1] = t
        /\ \A i \in 1..Len(inOrder) : then[i] = inOrder[i]
    OBVIOUS
  <1> HIDE DEF more, then
  <1>3. Items(more) = Items(all) \cup {t}
    BY <1>1 DEF Items
  <1>4. Items(then) = Items(inOrder) \cup {t}
    BY <1>2 DEF Items
  <1>5. t \notin Items(all)
    BY DEF InLine
  <1>6. \A i, j \in DOMAIN more : more[i] = more[j] => i = j
    BY <1>1, <1>5 DEF InLine, Items
  <1>7. ASSUME NEW i \in DOMAIN more, NEW j \in DOMAIN more,
               NEW p \in DOMAIN then, NEW q \in DOMAIN then,
               i < j, then[p] = more[i], then[q] = more[j]
        PROVE  p < q
    <2>1. i \in DOMAIN all /\ more[i] = all[i]
      BY <1>1, <1>7
    <2>2. p \in DOMAIN inOrder /\ then[p] = inOrder[p]
      BY <1>2, <1>5, <1>7, <2>1 DEF Items
    <2>3. CASE j = Len(all) + 1
      <3>1. then[q] = t
        BY <1>1, <1>7, <2>3
      <3>2. q = Len(inOrder) + 1
        BY <1>2, <3>1 DEF Items
      <3> QED
        BY <1>2, <2>2, <3>2
    <2>4. CASE j \in DOMAIN all
      <3>1. more[j] = all[j]
        BY <1>1, <2>4
      <3>2. q \in DOMAIN inOrder /\ then[q] = inOrder[q]
        BY <1>2, <1>5, <1>7, <2>4, <3>1 DEF Items
      <3> QED
        BY <1>7, <2>1, <2>2, <2>4, <3>1, <3>2 DEF InLine
    <2> QED
      BY <1>1, <2>3, <2>4
  <1>8. InLine(more, then, ahead)
    BY <1>3, <1>4, <1>6, <1>7 DEF InLine
  <1> QED
    BY <1>8 DEF more, then

(* Where the waiting ones begin. *)
LEMMA AddedAhead ==
    ASSUME NEW gone \in Seq(Tasks), NEW waits \in Seq(Tasks), NEW inOrder \in Seq(Tasks),
           NEW ahead, InLine(gone \o waits, inOrder, ahead),
           NEW t \in Tasks, t \notin Items(inOrder) \cup ahead
    PROVE  InLine(gone \o (<<t>> \o waits), inOrder, ahead \cup {t})
  <1> DEFINE all == gone \o waits
             more == gone \o (<<t>> \o waits)
             at == Len(gone) + 1
             Was(i) == IF i < at THEN i ELSE i - 1
  <1>1. /\ Len(gone) \in Nat /\ Len(waits) \in Nat
        /\ DOMAIN all = 1..(Len(gone) + Len(waits))
        /\ DOMAIN more = 1..(Len(gone) + Len(waits) + 1)
    <2>1. all \in Seq(Tasks) /\ Len(all) = Len(gone) + Len(waits)
      BY ConcatProperties
    <2>2. <<t>> \o waits \in Seq(Tasks) /\ Len(<<t>> \o waits) = 1 + Len(waits)
      BY ConcatProperties
    <2>3. more \in Seq(Tasks) /\ Len(more) = Len(gone) + (1 + Len(waits))
      BY <2>2, ConcatProperties
    <2>4. Len(gone) \in Nat /\ Len(waits) \in Nat
      BY LenProperties
    <2>5. DOMAIN all = 1..Len(all) /\ DOMAIN more = 1..Len(more)
      BY <2>1, <2>3, LenProperties
    <2> HIDE DEF all, more
    <2> QED
      BY <2>1, <2>3, <2>4, <2>5
  <1>2. more[at] = t
    BY <1>1
  <1>3. \A i \in DOMAIN more \ {at} : Was(i) \in DOMAIN all /\ more[i] = all[Was(i)]
    BY <1>1
  <1>4. \A k \in DOMAIN all : \E i \in DOMAIN more \ {at} : Was(i) = k
    <2> TAKE k \in DOMAIN all
    <2> WITNESS (IF k < at THEN k ELSE k + 1) \in DOMAIN more \ {at}
    <2> QED
      BY <1>1
  <1>5. /\ at \in DOMAIN more
        /\ \A i, j \in DOMAIN more \ {at} : Was(i) = Was(j) => i = j
        /\ \A i, j \in DOMAIN more \ {at} : i < j => Was(i) < Was(j)
    BY <1>1
  <1> HIDE DEF more, all, Was, at
  <1>6. InLine(all, inOrder, ahead)
    BY DEF all
  <1>7. t \notin Items(all)
    BY <1>6 DEF InLine
  <1>8. Items(more) = Items(all) \cup {t}
    <2>1. \A i \in DOMAIN more : more[i] \in Items(all) \cup {t}
      BY <1>2, <1>3 DEF Items
    <2>2. \A k \in DOMAIN all : all[k] \in Items(more)
      BY <1>3, <1>4 DEF Items
    <2>3. t \in Items(more)
      BY <1>2, <1>5 DEF Items
    <2> QED
      BY <2>1, <2>2, <2>3 DEF Items
  <1>9. \A i, j \in DOMAIN more : more[i] = more[j] => i = j
    <2> SUFFICES ASSUME NEW i \in DOMAIN more, NEW j \in DOMAIN more, more[i] = more[j]
                 PROVE  i = j
      OBVIOUS
    <2>1. \A k \in DOMAIN more \ {at} : more[k] # t
      BY <1>3, <1>7 DEF Items
    <2>2. CASE i = at \/ j = at
      BY <1>2, <2>1, <2>2
    <2>3. CASE i # at /\ j # at
      <3>1. /\ Was(i) \in DOMAIN all /\ more[i] = all[Was(i)]
            /\ Was(j) \in DOMAIN all /\ more[j] = all[Was(j)]
        BY <1>3, <2>3
      <3>2. Was(i) = Was(j)
        BY <1>6, <3>1 DEF InLine
      <3> QED
        BY <1>5, <2>3, <3>2
    <2> QED
      BY <2>2, <2>3
  <1>10. ASSUME NEW i \in DOMAIN more, NEW j \in DOMAIN more,
                NEW p \in DOMAIN inOrder, NEW q \in DOMAIN inOrder,
                i < j, inOrder[p] = more[i], inOrder[q] = more[j]
         PROVE  p < q
    <2>1. i # at /\ j # at
      BY <1>2, <1>10 DEF Items
    <2>2. /\ Was(i) \in DOMAIN all /\ Was(j) \in DOMAIN all /\ Was(i) < Was(j)
          /\ more[i] = all[Was(i)] /\ more[j] = all[Was(j)]
      <3>1. i \in DOMAIN more \ {at} /\ j \in DOMAIN more \ {at}
        BY <2>1
      <3>2. Was(i) < Was(j)
        BY <1>5, <1>10, <3>1
      <3> QED
        BY <1>3, <3>1, <3>2
    <2> QED
      BY <1>6, <1>10, <2>2 DEF InLine
  <1>11. InLine(more, inOrder, ahead \cup {t})
    BY <1>6, <1>8, <1>9, <1>10 DEF InLine
  <1> QED
    BY <1>11 DEF more

LEMMA OrderStep == TypeOK /\ TasksInOrder /\ [Next]_vars => TasksInOrder'
  <1> SUFFICES ASSUME TypeOK, TasksInOrder, [Next]_vars PROVE TasksInOrder'
    OBVIOUS
  <1>0. /\ queue \in Seq(Tasks) /\ posted \in Seq(Tasks) /\ taken \in Seq(Tasks)
        /\ taken \o queue \in Seq(Tasks)
        /\ InLine(taken \o queue, posted, urgent)
    BY OneLine, ConcatProperties DEF TypeOK
  <1>a. InLine(taken' \o queue', posted', urgent') => TasksInOrder'
    BY DEF TasksInOrder, InLine
  <1>1. CASE UNCHANGED taskVars
    BY <1>1 DEF TasksInOrder, taskVars
  <1>2. ASSUME NEW w \in Workers, DoWhile(w) PROVE TasksInOrder'
    <2>1. /\ UNCHANGED <<posted, urgent>>
          /\ Leave(w) \/ Wait(w) \/ Pop(w) \/ \E id \in armed : Peek(w, id)
      BY <1>2, DoWhileCases
    <2>2. CASE Pop(w)
      <3>1. /\ queue # <<>> /\ queue' = Tail(queue) /\ taken' = Append(taken, Head(queue))
        BY <2>2 DEF Pop
      <3>2. Append(taken, Head(queue)) \o Tail(queue) = taken \o queue
        BY <1>0, <3>1
      <3> QED
        BY <1>0, <1>a, <2>1, <3>1, <3>2
    <2>3. CASE Leave(w) \/ Wait(w) \/ \E id \in armed : Peek(w, id)
      BY <1>1, <2>1, <2>3 DEF Leave, Wait, Peek, taskVars
    <2> QED
      BY <2>1, <2>2, <2>3
  <1>3. ASSUME NEW c \in Threads, NEW t \in Tasks, PostTask(c, t) PROVE TasksInOrder'
    <2>1. /\ t \notin Items(posted) \cup urgent
          /\ queue' = Append(queue, t) /\ posted' = Append(posted, t)
          /\ UNCHANGED <<urgent, taken>>
      BY <1>3 DEF PostTask
    <2>2. taken \o Append(queue, t) = Append(taken \o queue, t)
      BY <1>0
    <2>3. InLine(Append(taken \o queue, t), Append(posted, t), urgent)
      BY <1>0, <2>1, AddedBehind
    <2> QED
      BY <1>a, <2>1, <2>2, <2>3
  <1>4. ASSUME NEW c \in Threads, NEW t \in Tasks, PostFrontTask(c, t) PROVE TasksInOrder'
    <2>1. /\ t \notin Items(posted) \cup urgent
          /\ queue' = <<t>> \o queue /\ urgent' = urgent \cup {t}
          /\ UNCHANGED <<posted, taken>>
      BY <1>4 DEF PostFrontTask
    <2>2. InLine(taken \o (<<t>> \o queue), posted, urgent \cup {t})
      BY <1>0, <2>1, AddedAhead
    <2> QED
      BY <1>a, <2>1, <2>2
  <1>5. ASSUME NEW c \in Threads, Call(c) PROVE TasksInOrder'
    <2>1. CASE \E id \in Timers : KillTimer(c, id) \/ \E e \in Elapses : SetTimer(c, id, e)
      BY <1>1, <2>1 DEF KillTimer, SetTimer
    <2> QED
      BY <1>3, <1>4, <1>5, <2>1 DEF Call
  <1>6. ASSUME NEW c \in Threads, Signal(c) PROVE TasksInOrder'
    BY <1>1, <1>6 DEF Signal
  <1>7. ASSUME NEW w \in Workers, Rouse(w) \/ Begin(w) PROVE TasksInOrder'
    BY <1>1, <1>7 DEF Rouse, Begin
  <1>8. CASE BeginReturns \/ End \/ Tick \/ UNCHANGED vars
    BY <1>1, <1>8 DEF BeginReturns, End, NotifyExit, Broadcast, Join, Owner, Tick, vars
  <1> QED
    BY <1>2, <1>5, <1>6, <1>7, <1>8 DEF Next

(* However the threads take turns, a task is given out once, none is lost, *)
(* and of two posted with post_task the first goes first (TaskQueue::pop   *)
(* and both posts, each under the mutex).                                  *)
THEOREM TasksKeepOrder == Spec => []TasksInOrder
  <1>1. Init => TypeOK /\ TasksInOrder
    BY TypeInit DEF Init, TasksInOrder, Items
  <1>2. TypeOK /\ TasksInOrder /\ [Next]_vars => (TypeOK /\ TasksInOrder)'
    BY TypeStep, OrderStep
  <1> QED
    BY <1>1, <1>2, PTL DEF Spec

-----------------------------------------------------------------------------
(* Timers keep to their grid. *)

LEMMA NextOnGrid ==
    ASSUME NEW b \in Nat, NEW s \in Nat, NEW i \in Nat, i > 0,
           NEW k \in 0..s, s = b + k * i
    PROVE  \E m \in 0..(s + i) : s + i = b + m * i
  <1>1. k + 1 \in 0..(s + i)
    OBVIOUS
  <1>2. (k + 1) * i = k * i + i
    OBVIOUS
  <1> QED
    BY <1>1, <1>2

LEMMA DriftStep == TypeOK /\ NoDrift /\ [Next]_vars => NoDrift'
  <1> SUFFICES ASSUME TypeOK, NoDrift, [Next]_vars PROVE NoDrift'
    OBVIOUS
  <1> DEFINE OnGrid(id) == \E k \in 0..start[id] : start[id] = base[id] + k * interval[id]
  <1>1. ASSUME NEW w \in Workers, NEW due \in armed, Peek(w, due),
               UNCHANGED <<armed, interval, base, now>>
        PROVE  NoDrift'
    <2>1. /\ start[due] \in Nat /\ base[due] \in Nat
          /\ interval[due] \in Nat /\ interval[due] > 0 /\ due \in Timers
      BY EndType
    <2>2. start' = [start EXCEPT ![due] = start[due] + interval[due]]
      BY <1>1 DEF Peek, Rearmed, EndOf
    <2>3. start'[due] = start[due] + interval[due] /\ start'[due] <= now
      BY <1>1, <2>1, <2>2 DEF Peek, EndOf, TypeOK
    <2>4. OnGrid(due)
      BY DEF NoDrift
    <2>5. \E m \in 0..start'[due] : start'[due] = base[due] + m * interval[due]
      <3>1. PICK k \in 0..start[due] : start[due] = base[due] + k * interval[due]
        BY <2>4
      <3>2. \E m \in 0..(start[due] + interval[due]) :
                start[due] + interval[due] = base[due] + m * interval[due]
        BY <2>1, <3>1, NextOnGrid
      <3> QED
        BY <2>3, <3>2
    <2>6. \A id \in armed \ {due} : start'[id] = start[id]
      BY <2>2 DEF TypeOK
    <2> QED
      BY <1>1, <2>3, <2>5, <2>6 DEF NoDrift
  <1>2. ASSUME NEW w \in Workers, DoWhile(w) PROVE NoDrift'
    <2>1. /\ UNCHANGED <<armed, interval, base, now>>
          /\ Leave(w) \/ Wait(w) \/ Pop(w) \/ \E id \in armed : Peek(w, id)
      BY <1>2, DoWhileCases
    <2>2. CASE Leave(w) \/ Wait(w) \/ Pop(w)
      <3>1. start' = start
        BY <2>2 DEF Leave, Wait, Pop
      <3> QED
        BY <2>1, <3>1 DEF NoDrift
    <2> QED
      BY <1>1, <2>1, <2>2
  <1>3. ASSUME NEW c \in Threads, NEW id \in Timers, NEW e \in Elapses, SetTimer(c, id, e)
        PROVE  NoDrift'
    <2>1. /\ now \in Nat /\ e \in Nat
          /\ start'[id] = now /\ base'[id] = now /\ interval'[id] = e /\ now' = now
          /\ armed' = armed \cup {id}
          /\ \A other \in armed \ {id} : /\ start'[other] = start[other]
                                         /\ base'[other] = base[other]
                                         /\ interval'[other] = interval[other]
      BY <1>3, PoolAssumption DEF SetTimer, TypeOK
    <2>2. 0 \in 0..now /\ now = now + 0 * e
      BY <2>1
    <2> QED
      BY <2>1, <2>2 DEF NoDrift
  <1>4. ASSUME NEW c \in Threads, NEW id \in Timers, KillTimer(c, id) PROVE NoDrift'
    <2>1. /\ now' = now /\ armed' = armed \ {id}
          /\ \A other \in armed' : /\ start'[other] = start[other]
                                   /\ base'[other] = base[other]
                                   /\ interval'[other] = interval[other]
      BY <1>4 DEF KillTimer, TypeOK
    <2> QED
      BY <2>1 DEF NoDrift
  <1>5. CASE UNCHANGED <<timerVars, now>>
    BY <1>5 DEF NoDrift, timerVars
  <1>6. CASE Tick
    <2>1. UNCHANGED timerVars /\ now \in Nat /\ now' = now + 1
      BY <1>6, PoolAssumption DEF Tick, TypeOK
    <2>2. ASSUME NEW id \in armed PROVE start[id] <= now'
      BY <2>1, EndType DEF NoDrift
    <2> QED
      BY <2>1, <2>2 DEF NoDrift, timerVars
  <1>7. ASSUME NEW c \in Threads, Call(c) PROVE NoDrift'
    <2>1. CASE \E t \in Tasks : PostTask(c, t) \/ PostFrontTask(c, t)
      BY <1>5, <2>1 DEF PostTask, PostFrontTask
    <2> QED
      BY <1>3, <1>4, <1>7, <2>1 DEF Call
  <1>8. ASSUME NEW c \in Threads, Signal(c) PROVE NoDrift'
    BY <1>5, <1>8 DEF Signal
  <1>9. ASSUME NEW w \in Workers, Rouse(w) \/ Begin(w) PROVE NoDrift'
    BY <1>5, <1>9 DEF Rouse, Begin
  <1>10. CASE BeginReturns \/ End
    BY <1>5, <1>10 DEF BeginReturns, End, NotifyExit, Broadcast, Join, Owner
  <1>11. CASE UNCHANGED vars
    BY <1>5, <1>11 DEF vars, timerVars
  <1> QED
    BY <1>2, <1>6, <1>7, <1>8, <1>9, <1>10, <1>11 DEF Next

(* A timer is never run before its time, and a late run does not put off   *)
(* the next one (TimerQueue::peek adds the interval to the old start).     *)
THEOREM TimersKeepTime == Spec => []NoDrift
  <1>1. Init => TypeOK /\ NoDrift
    BY TypeInit DEF Init, NoDrift
  <1>2. TypeOK /\ NoDrift /\ [Next]_vars => (TypeOK /\ NoDrift)'
    BY TypeStep, DriftStep
  <1> QED
    BY <1>1, <1>2, PTL DEF Spec
=============================================================================
