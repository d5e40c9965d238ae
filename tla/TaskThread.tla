----------------------------- MODULE TaskThread -----------------------------
(***************************************************************************)
(* The pool of task threads of the samples: TaskThread begins and ends     *)
(* the threads, each of which runs ThreadQueue::do_while over a TaskQueue  *)
(* and a TimerQueue that one mutex protects.  A thread keeps the mutex     *)
(* from the moment it gets it until it waits, runs a callback or leaves,   *)
(* so what it does in between is one step here; a call that changes the    *)
(* queues is one step, and its pthread_cond_signal, made after the unlock, *)
(* another.                                                                *)
(***************************************************************************)
EXTENDS Naturals, Sequences

CONSTANTS
    Workers,    \* the threads begin() may create
    Callers,    \* the application's threads; callbacks call as well
    Tasks,      \* each is posted at most once
    Timers,     \* timer ids
    Elapses,    \* the intervals set_timer is given
    MaxTime,    \* bound: the clock stops here
    Forever     \* kWaitInfinite: an hour from now, which the clock does not reach

ASSUME PoolAssumption ==
    /\ Workers \cap Callers = {}
    /\ Timers \subseteq Nat
    /\ Elapses \subseteq Nat \ {0}
    /\ MaxTime \in Nat
    /\ Forever \in Nat /\ Forever > MaxTime

VARIABLES
    phase,      \* how far the owner of the pool is with begin() and end()
    threads,    \* m_threads
    pc,         \* where each pool thread is in do_while
    deadline,   \* when its pthread_cond_timedwait gives up, 0 when it is not in one
    queue,      \* m_task_queue
    armed,      \* the ids in ms_timers, with
    start,      \*   mull_start and
    interval,   \*   mull_interval of each
    owes,       \* the caller has unlocked and not yet signalled
    now,        \* get_tick_count()
    posted,     \* history: the tasks of post_task, in order
    urgent,     \* history: the tasks of post_front_task
    taken,      \* history: the tasks given to a thread, in order
    base        \* history: when each timer was set

timerVars == <<armed, start, interval, base>>
taskVars == <<queue, posted, urgent, taken>>
threadVars == <<pc, deadline>>
vars == <<phase, threads, owes, now, threadVars, taskVars, timerVars>>

Threads == Workers \cup Callers
ExitFlag == phase \in {"exiting", "joining", "ended"}
Waiting == {w \in Workers : pc[w] = "waiting"}
Awake == {w \in Workers : pc[w] \in {"start", "woken", "timer", "task"}}
EndOf(id) == start[id] + interval[id]
Items(s) == {s[i] : i \in DOMAIN s}

(* Timer::operator<: the earliest end, then the smallest id.               *)
IsFirst(id) ==
    /\ id \in armed
    /\ \A other \in armed : \/ EndOf(id) < EndOf(other)
                            \/ EndOf(id) = EndOf(other) /\ id <= other

TypeOK ==
    /\ phase \in {"new", "begun", "exiting", "joining", "ended"}
    /\ threads \subseteq Workers
    /\ pc \in [Workers -> {"none", "start", "waiting", "woken", "timer", "task", "gone"}]
    /\ deadline \in [Workers -> Nat]
    /\ queue \in Seq(Tasks) /\ posted \in Seq(Tasks) /\ taken \in Seq(Tasks)
    /\ urgent \subseteq Tasks
    /\ armed \subseteq Timers
    /\ start \in [Timers -> Nat] /\ base \in [Timers -> Nat]
    /\ interval \in [Timers -> Elapses \cup {0}]
    /\ \A id \in armed : interval[id] \in Elapses
    /\ owes \in [Threads -> BOOLEAN]
    /\ now \in 0..MaxTime

Init ==
    /\ phase = "new" /\ threads = {}
    /\ pc = [w \in Workers |-> "none"]
    /\ deadline = [w \in Workers |-> 0]
    /\ queue = <<>> /\ posted = <<>> /\ urgent = {} /\ taken = <<>>
    /\ armed = {}
    /\ start = [id \in Timers |-> 0] /\ interval = [id \in Timers |-> 0]
    /\ base = [id \in Timers |-> 0]
    /\ owes = [c \in Threads |-> FALSE]
    /\ now = 0

-----------------------------------------------------------------------------
(* A pool thread: what it does while it has the mutex.                     *)

Goto(w, to, until) ==
    /\ pc' = [pc EXCEPT ![w] = to]
    /\ deadline' = [deadline EXCEPT ![w] = until]

Leave(w) == Goto(w, "gone", 0) /\ UNCHANGED <<queue, taken, start>>

(* get_wait_time and pthread_cond_timedwait.                               *)
GetWaitTimeForever(d) == d = Forever
GetWaitTime(d) ==
    \/ armed = {} /\ d = Forever
    \/ \E id \in armed : IsFirst(id) /\ d = EndOf(id)

Wait(w) ==
    /\ \E d \in {Forever} \cup {EndOf(id) : id \in armed} :
           GetWaitTime(d) /\ Goto(w, "waiting", d)
    /\ UNCHANGED <<queue, taken, start>>

(* TimerQueue::peek takes the first timer if it is due and puts it back    *)
(* one interval later, before its callback runs.                           *)
RearmedNow(id) == now
Rearmed(id) == EndOf(id)
Peek(w, id) ==
    /\ IsFirst(id) /\ EndOf(id) <= now
    /\ start' = [start EXCEPT ![id] = Rearmed(id)]
    /\ Goto(w, "timer", 0)
    /\ UNCHANGED <<queue, taken>>
NothingDue == \A id \in armed : IsFirst(id) => EndOf(id) > now

(* TaskQueue::pop.                                                         *)
Pop(w) ==
    /\ queue # <<>>
    /\ queue' = Tail(queue)
    /\ taken' = Append(taken, Head(queue))
    /\ Goto(w, "task", 0)
    /\ UNCHANGED start

(* do_one_task; with nothing to do the loop comes round to its wait.       *)
DoOneTask(w) == Pop(w) \/ (queue = <<>> /\ Wait(w))
DoOneTimer(w) == (\E id \in armed : Peek(w, id)) \/ (NothingDue /\ DoOneTask(w))

(* The head of the while.                                                  *)
Loop(w) == IF queue = <<>> THEN Wait(w) ELSE DoOneTimer(w)

Start(w) == pc[w] = "start" /\ IF ExitFlag THEN Leave(w) ELSE Loop(w)
Wake(w) == pc[w] = "woken" /\ IF ExitFlag THEN Leave(w) ELSE DoOneTimer(w)
TimerDone(w) == pc[w] = "timer" /\ ~owes[w] /\ IF ExitFlag THEN Leave(w) ELSE DoOneTask(w)
TaskDone(w) == pc[w] = "task" /\ ~owes[w] /\ IF ExitFlag THEN Leave(w) ELSE Loop(w)

DoWhile(w) ==
    /\ Start(w) \/ Wake(w) \/ TimerDone(w) \/ TaskDone(w)
    /\ UNCHANGED <<phase, threads, owes, now, posted, urgent, armed, interval, base>>

(* The wait times out, or ends without a reason, as POSIX allows.          *)
Rouse(w) ==
    /\ pc[w] = "waiting"
    /\ Goto(w, "woken", 0)
    /\ UNCHANGED <<phase, threads, owes, now, taskVars, timerVars>>
TimeOut(w) == now >= deadline[w] /\ Rouse(w)

-----------------------------------------------------------------------------
(* The calls, by the application or from a callback.                       *)

CanCall(c) == ~owes[c] /\ c \in Callers \cup {w \in Workers : pc[w] \in {"timer", "task"}}
Unlock(c) == owes' = [owes EXCEPT ![c] = TRUE]

PostTaskFirst(c, t) ==
    /\ CanCall(c) /\ t \notin Items(posted) \cup urgent
    /\ queue' = <<t>> \o queue /\ posted' = Append(posted, t)
    /\ Unlock(c)
    /\ UNCHANGED <<phase, threads, now, threadVars, urgent, taken, timerVars>>
PostTaskQuiet(c, t) ==
    /\ CanCall(c) /\ t \notin Items(posted) \cup urgent
    /\ queue' = Append(queue, t) /\ posted' = Append(posted, t)
    /\ UNCHANGED <<phase, threads, now, owes, threadVars, urgent, taken, timerVars>>
PostTask(c, t) ==
    /\ CanCall(c) /\ t \notin Items(posted) \cup urgent
    /\ queue' = Append(queue, t) /\ posted' = Append(posted, t)
    /\ Unlock(c)
    /\ UNCHANGED <<phase, threads, now, threadVars, urgent, taken, timerVars>>

PostFrontTask(c, t) ==
    /\ CanCall(c) /\ t \notin Items(posted) \cup urgent
    /\ queue' = <<t>> \o queue /\ urgent' = urgent \cup {t}
    /\ Unlock(c)
    /\ UNCHANGED <<phase, threads, now, threadVars, posted, taken, timerVars>>

SetTimerShort(c, id, elapse) ==
    /\ CanCall(c)
    /\ armed' = armed \cup {id}
    /\ start' = [start EXCEPT ![id] = now] /\ base' = [base EXCEPT ![id] = now]
    /\ Unlock(c)
    /\ UNCHANGED <<phase, threads, now, interval, threadVars, taskVars>>
SetTimer(c, id, elapse) ==
    /\ CanCall(c)
    /\ armed' = armed \cup {id}
    /\ start' = [start EXCEPT ![id] = now]
    /\ interval' = [interval EXCEPT ![id] = elapse]
    /\ base' = [base EXCEPT ![id] = now]
    /\ Unlock(c)
    /\ UNCHANGED <<phase, threads, now, threadVars, taskVars>>

(* kill_timer signals nobody: who waits for this timer wakes for nothing.  *)
KillTimer(c, id) ==
    /\ CanCall(c) /\ id \in armed
    /\ armed' = armed \ {id}
    /\ start' = [start EXCEPT ![id] = 0]
    /\ interval' = [interval EXCEPT ![id] = 0]
    /\ base' = [base EXCEPT ![id] = 0]
    /\ UNCHANGED <<phase, threads, owes, now, threadVars, taskVars>>

(* pthread_cond_signal.                                                    *)
SignalNobody(c) ==
    /\ owes[c] /\ owes' = [owes EXCEPT ![c] = FALSE]
    /\ UNCHANGED <<phase, threads, now, threadVars, taskVars, timerVars>>
Signal(c) ==
    /\ owes[c] /\ owes' = [owes EXCEPT ![c] = FALSE]
    /\ IF Waiting = {} THEN UNCHANGED threadVars
       ELSE \E w \in Waiting : Goto(w, "woken", 0)
    /\ UNCHANGED <<phase, threads, now, taskVars, timerVars>>

Call(c) ==
    \/ \E t \in Tasks : PostTask(c, t) \/ PostFrontTask(c, t)
    \/ \E id \in Timers : KillTimer(c, id) \/ \E e \in Elapses : SetTimer(c, id, e)

-----------------------------------------------------------------------------
(* The owner: TaskThread::begin creates one thread after another, of which *)
(* some may fail to come; end() sets the flag, broadcasts and joins.       *)

Begin(w) ==
    /\ phase = "new" /\ pc[w] = "none"
    /\ Goto(w, "start", 0)
    /\ threads' = threads \cup {w}
    /\ UNCHANGED <<phase, owes, now, taskVars, timerVars>>

Owner(from, to) ==
    /\ phase = from /\ phase' = to
    /\ UNCHANGED <<threads, owes, now, taskVars, timerVars>>
BeginReturns == Owner("new", "begun") /\ UNCHANGED threadVars
NotifyExit == Owner("begun", "exiting") /\ UNCHANGED threadVars
BroadcastOne ==
    /\ Owner("exiting", "joining")
    /\ IF Waiting = {} THEN UNCHANGED threadVars
       ELSE \E w \in Waiting : Goto(w, "woken", 0)
Broadcast ==
    /\ Owner("exiting", "joining")
    /\ pc' = [w \in Workers |-> IF w \in Waiting THEN "woken" ELSE pc[w]]
    /\ deadline' = [w \in Workers |-> 0]
Join ==
    /\ \A w \in threads : pc[w] = "gone"
    /\ Owner("joining", "ended") /\ UNCHANGED threadVars
End == NotifyExit \/ Broadcast \/ Join

Tick ==
    /\ now < MaxTime /\ now' = now + 1
    /\ UNCHANGED <<phase, threads, owes, threadVars, taskVars, timerVars>>

Next ==
    \/ \E w \in Workers : DoWhile(w) \/ Rouse(w) \/ Begin(w)
    \/ \E c \in Threads : Call(c) \/ Signal(c)
    \/ BeginReturns \/ End \/ Tick

Spec == Init /\ [][Next]_vars

(* Every thread is scheduled, a wait that has timed out ends, and a        *)
(* callback returns however many calls it makes (SF: each call disables    *)
(* its return for a moment).  Nobody need post, and nobody need call       *)
(* end(); but an end() that has begun goes on.                             *)
FairSpec ==
    /\ Spec
    /\ \A w \in Workers : SF_vars(DoWhile(w)) /\ WF_vars(TimeOut(w))
    /\ \A c \in Threads : WF_vars(Signal(c))
    /\ WF_vars(Broadcast) /\ WF_vars(Join)

-----------------------------------------------------------------------------
(* No lost wakeup: whenever a task waits or a timer is armed and the pool  *)
(* is not on its way out, some thread is awake, or a caller is about to    *)
(* signal one, or (for the timer) a thread sleeps no longer than to the    *)
(* end of the first timer.  This is about unlocking before signalling,     *)
(* threads that wait with old deadlines, and signals that wake a thread    *)
(* which then does something else.                                         *)
SomeoneComes == Awake # {} \/ \E c \in Threads : owes[c]
NoLostWakeup ==
    threads # {} /\ ~ExitFlag =>
        /\ queue # <<>> => SomeoneComes
        /\ armed # {} =>
               \/ SomeoneComes
               \/ \E w \in Waiting : \A id \in armed : deadline[w] <= EndOf(id)

(* No posted task is lost, given out twice, or overtaken by one posted     *)
(* after it with post_task; only post_front_task goes ahead.               *)
TasksInOrder ==
    LET all == taken \o queue
    IN  /\ Items(all) = Items(posted) \cup urgent
        /\ \A i, j \in DOMAIN all : all[i] = all[j] => i = j
        /\ \A i, j \in DOMAIN all, p, q \in DOMAIN posted :
               i < j /\ posted[p] = all[i] /\ posted[q] = all[j] => p < q

(* However late a timer is run, it keeps to the grid on which it was set,  *)
(* and it is never run before its time.                                    *)
NoDrift ==
    \A id \in armed :
        /\ start[id] <= now
        /\ \E k \in 0..start[id] : start[id] = base[id] + k * interval[id]

(* A posted task is taken, unless the pool is ended first.                 *)
PostedIsTaken ==
    \A t \in Tasks : t \in Items(queue) /\ threads # {} ~> t \in Items(taken) \/ ExitFlag

(* A timer that is due is run, killed or set anew.                         *)
DueIsRun ==
    \A id \in Timers :
        id \in armed /\ EndOf(id) <= now /\ threads # {} ~>
            id \notin armed \/ EndOf(id) > now \/ ExitFlag

(* end() returns: a thread that waits is woken and sees the flag, however  *)
(* the broadcast and its wait overlap.                                     *)
EndReturns == phase = "exiting" ~> phase = "ended"
=============================================================================
