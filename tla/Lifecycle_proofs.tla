--------------------------- MODULE Lifecycle_proofs ---------------------------
(***************************************************************************)
(* Proofs about Lifecycle, for either library, any number of inits and     *)
(* links, and creations that fail anywhere: no thread outlives its object  *)
(* or the lock, and nothing is left when the library has been stopped.     *)
(***************************************************************************)
EXTENDS Lifecycle, TLAPS

-----------------------------------------------------------------------------
(* The invariant.  A thread that runs is the one its object has on record, *)
(* so that end(), which joins what is on record, joins every one of them.  *)
(* The rest says between which places of init and end() threads may run,   *)
(* an epoll set may be open, and links may be registered.                  *)

BeforeThreads == {"out", "instance", "epoll_create", "init_link", "worker"}
AfterClose == {"collect", "free", "destroy_lock", "release"}
IsRunning(t) == thread[t].pc # "done"

OnRecord ==
    \A t \in Threads : IsRunning(t) =>
        /\ thread[t].this = m_pInstance /\ lock
        /\ \/ thread[t].kind = "worker" /\ m_pthread_id[m_pInstance] = t
           \/ thread[t].kind = "timeout" /\ m_pthread_timeout[m_pInstance] = t /\ ~Udp
NoneRuns == main \in BeforeThreads \cup AfterClose \cup {"close"} => \A t \in Threads : ~IsRunning(t)
WorkerGone ==
    main \in {"stop_timer", "join_timer"} =>
        \A t \in Threads : IsRunning(t) => thread[t].kind = "timeout"
TimerToCome ==
    main = "timeout" => ~Udp /\ \A t \in Threads : IsRunning(t) => thread[t].kind = "worker"
LockReady == main \in {"worker", "timeout"} => lock
OneObject ==
    /\ main \in {"out", "instance"} <=> m_pInstance = None
    /\ i_object <= i_init /\ (main = "instance" => i_object < i_init)
SetOfObject ==
    /\ epoll \subseteq {m_pInstance}
    /\ main \in AfterClose => epoll = {}
LinksFreed ==
    /\ main = "free" => m_maplink = link_list
    /\ main \in {"destroy_lock", "release", "out"} => m_maplink = {}

LifeInv ==
    /\ TypeOK /\ OnRecord /\ NoneRuns /\ WorkerGone /\ TimerToCome /\ LockReady
    /\ OneObject /\ SetOfObject /\ LinksFreed

-----------------------------------------------------------------------------
(* Type correctness. *)

LEMMA NoneIsNoObject == None \notin Objects /\ None \notin Threads
  BY DEF None, Objects, Threads

LEMMA SpawnType ==
    ASSUME TypeOK, NEW t \in Threads, NEW kind \in {"worker", "timeout"},
           NEW label \in {"start", "test"}, Spawn(kind, label, t)
    PROVE  thread' \in [Threads -> Thread]
  BY DEF TypeOK, Thread, Spawn, this

LEMMA GotoType ==
    ASSUME TypeOK, NEW t \in Threads, NEW label \in {"start", "test", "work", "done"}, Goto(t, label)
    PROVE  /\ thread' \in [Threads -> Thread]
           /\ thread'[t] = [thread[t] EXCEPT !.pc = label]
           /\ \A u \in Threads \ {t} : thread'[u] = thread[u]
  BY DEF TypeOK, Thread, Goto

LEMMA TypeInit == Init => TypeOK
  BY LifecycleAssumption DEF Init, TypeOK, Thread, MainPcs, None

LEMMA InitStepType ==
    ASSUME TypeOK, OneObject, InCall, InitStep
    PROVE  TypeOK'
<1> USE LifecycleAssumption, NoneIsNoObject
<1> USE DEF TypeOK, MainPcs, InitPcs, objectVars, linkVars, countVars
<1>0. lib' = lib
  BY DEF InCall
<1>1. CASE Instance
  <2>1. i_object + 1 \in Objects \/ m_pInstance # None
    BY <1>1 DEF Instance, OneObject, Objects
  <2>2. m_pInstance' \in Objects /\ i_object' \in 0 .. MaxInit
    BY <1>1, <2>1 DEF Instance, Objects, OneObject
  <2> QED
    BY <1>0, <1>1, <2>2 DEF Instance
<1>2. CASE EpollCreate
  BY <1>0, <1>2 DEF EpollCreate, this
<1>3. CASE InitLink
  BY <1>0, <1>3 DEF InitLink
<1>4. CASE CreateWorker
  <2>1. thread' \in [Threads -> Thread]
    BY <1>4, SpawnType DEF CreateWorker
  <2> QED
    BY <1>0, <1>4, <2>1 DEF CreateWorker, this
<1>5. CASE CreateTimeout
  <2>1. thread' \in [Threads -> Thread]
    BY <1>5, SpawnType DEF CreateTimeout
  <2> QED
    BY <1>0, <1>5, <2>1 DEF CreateTimeout, this
<1> QED
  BY <1>1, <1>2, <1>3, <1>4, <1>5 DEF InitStep

LEMMA EndStepType ==
    ASSUME TypeOK, InCall, EndStep
    PROVE  TypeOK'
<1> USE LifecycleAssumption, NoneIsNoObject
<1> USE DEF TypeOK, MainPcs, EndPcs, objectVars, linkVars, countVars
<1>0. lib' = lib
  BY DEF InCall
<1>1. CASE EndSignal
  BY <1>0, <1>1 DEF EndSignal, this
<1>2. CASE EndJoinWorker
  BY <1>0, <1>2 DEF EndJoinWorker, this
<1>3. CASE EndStopTimer
  BY <1>0, <1>3 DEF EndStopTimer
<1>4. CASE EndJoinTimer
  BY <1>0, <1>4 DEF EndJoinTimer, this
<1>5. CASE EndClose
  BY <1>0, <1>5 DEF EndClose
<1>6. CASE EndCollect
  BY <1>0, <1>6 DEF EndCollect
<1>7. CASE EndFree
  BY <1>0, <1>7 DEF EndFree
<1>8. CASE EndDestroyLock
  BY <1>0, <1>8 DEF EndDestroyLock
<1>9. CASE Release
  BY <1>0, <1>9 DEF Release
<1> QED
  BY <1>1, <1>2, <1>3, <1>4, <1>5, <1>6, <1>7, <1>8, <1>9 DEF EndStep

LEMMA AppStepType ==
    ASSUME TypeOK, AppStep
    PROVE  TypeOK'
<1> USE LifecycleAssumption, NoneIsNoObject
<1> USE DEF TypeOK, MainPcs, InitPcs, EndPcs, objectVars, linkVars, countVars
<1>1. CASE CallInit /\ UNCHANGED lib
  BY <1>1 DEF CallInit
<1>2. CASE AddLink /\ UNCHANGED lib
  <2>1. i_link + 1 \in Links /\ i_link' \in 0 .. MaxLinks
    BY <1>2 DEF AddLink, Links
  <2> QED
    BY <1>2, <2>1 DEF AddLink
<1>3. CASE CallUninit /\ UNCHANGED lib
  BY <1>3 DEF CallUninit
<1> QED
  BY <1>1, <1>2, <1>3 DEF AppStep

LEMMA ThreadStepType ==
    ASSUME TypeOK, NEW t \in Threads, ThreadStep(t)
    PROVE  TypeOK'
<1> USE LifecycleAssumption
<1> USE DEF TypeOK, objectVars, linkVars, countVars
<1>0. lib' = lib
  BY DEF ThreadStep
<1>1. CASE WorkerStart(t)
  <2>1. thread' \in [Threads -> Thread]
    BY <1>1, GotoType DEF WorkerStart
  <2> QED
    BY <1>0, <1>1, <2>1 DEF WorkerStart
<1>2. CASE WorkerTest(t)
  <2>1. thread' \in [Threads -> Thread]
    BY <1>2, GotoType DEF WorkerTest
  <2> QED
    BY <1>0, <1>2, <2>1 DEF WorkerTest
<1>3. CASE WorkerWork(t)
  <2>1. thread' \in [Threads -> Thread]
    BY <1>3, GotoType DEF WorkerWork
  <2>2. m_maplink' \subseteq Links /\ i_link' \in 0 .. MaxLinks
    <3>1. CASE i_link < MaxLinks /\ i_link' = i_link + 1 /\ m_maplink' = m_maplink \cup {i_link + 1}
      <4>1. i_link + 1 \in Links
        BY <3>1 DEF Links
      <4> QED
        BY <3>1, <4>1
    <3>2. CASE UNCHANGED <<m_maplink, i_link>>
      BY <3>2
    <3> QED
      BY <1>3, <3>1, <3>2 DEF WorkerWork
  <2> QED
    BY <1>0, <1>3, <2>1, <2>2 DEF WorkerWork
<1>4. CASE TimeoutThread(t)
  <2>1. thread' \in [Threads -> Thread]
    BY <1>4, GotoType DEF TimeoutThread
  <2> QED
    BY <1>0, <1>4, <2>1 DEF TimeoutThread
<1> QED
  BY <1>1, <1>2, <1>3, <1>4 DEF ThreadStep

LEMMA TypeStep ==
    ASSUME TypeOK, OneObject, [Next]_vars
    PROVE  TypeOK'
<1>1. CASE UNCHANGED vars
  BY <1>1 DEF vars, TypeOK
<1>2. CASE Next
  <2>1. CASE \E t \in Threads : ThreadStep(t)
    BY <2>1, ThreadStepType
  <2>2. CASE InCall
    BY <2>2, InitStepType, EndStepType DEF InCall
  <2> QED
    BY <1>2, <2>1, <2>2, AppStepType DEF Next
<1> QED
  BY <1>1, <1>2

-----------------------------------------------------------------------------
(* The invariant is inductive. *)

LEMMA InvInit == Init => LifeInv
<1> SUFFICES ASSUME Init PROVE LifeInv
  OBVIOUS
<1>1. \A t \in Threads : ~IsRunning(t)
  BY DEF Init, IsRunning
<1> QED
  BY <1>1, TypeInit, LifecycleAssumption
  DEF Init, LifeInv, OnRecord, NoneRuns, WorkerGone, TimerToCome, LockReady, OneObject, SetOfObject,
      LinksFreed, AfterClose, None

LEMMA InitStepInv ==
    ASSUME LifeInv, TypeOK', InCall, InitStep
    PROVE  LifeInv'
<1> USE NoneIsNoObject
<1> USE DEF LifeInv, OnRecord, NoneRuns, WorkerGone, TimerToCome, LockReady, OneObject, SetOfObject,
            LinksFreed, BeforeThreads, AfterClose, IsRunning, objectVars, linkVars, countVars
<1>0. lib' = lib
  BY DEF InCall
<1>1. CASE Instance
  <2>1. epoll = {}
    BY <1>1 DEF Instance, TypeOK
  <2> QED
    BY <1>0, <1>1, <2>1 DEF Instance, TypeOK
<1>2. CASE EpollCreate
  BY <1>0, <1>2 DEF EpollCreate, this, TypeOK
<1>3. CASE InitLink
  BY <1>0, <1>3 DEF InitLink, TypeOK
<1>4. CASE CreateWorker
  BY <1>0, <1>4 DEF CreateWorker, Spawn, this, Udp, TypeOK
<1>5. CASE CreateTimeout
  BY <1>0, <1>5 DEF CreateTimeout, Spawn, this, Udp, TypeOK
<1> QED
  BY <1>1, <1>2, <1>3, <1>4, <1>5 DEF InitStep

LEMMA EndStepInv ==
    ASSUME LifeInv, TypeOK', InCall, EndStep
    PROVE  LifeInv'
<1> USE NoneIsNoObject
<1> USE DEF LifeInv, OnRecord, NoneRuns, WorkerGone, TimerToCome, LockReady, OneObject, SetOfObject,
            LinksFreed, BeforeThreads, AfterClose, IsRunning, objectVars, linkVars, countVars
<1>0. lib' = lib
  BY DEF InCall
<1>1. CASE EndSignal
  BY <1>0, <1>1 DEF EndSignal, TypeOK, Udp
<1>2. CASE EndJoinWorker
  <2>1. \A t \in Threads : IsRunning(t) => thread[t].kind = "timeout" /\ ~Udp
    BY <1>2 DEF EndJoinWorker, this
  <2> QED
    BY <1>0, <1>2, <2>1 DEF EndJoinWorker, this, Udp, TypeOK
<1>3. CASE EndStopTimer
  BY <1>0, <1>3 DEF EndStopTimer, TypeOK, Udp
<1>4. CASE EndJoinTimer
  <2>1. \A t \in Threads : ~IsRunning(t)
    BY <1>4 DEF EndJoinTimer, this
  <2> QED
    BY <1>0, <1>4, <2>1 DEF EndJoinTimer, this, TypeOK
<1>5. CASE EndClose
  BY <1>0, <1>5 DEF EndClose, this, TypeOK
<1>6. CASE EndCollect
  BY <1>0, <1>6 DEF EndCollect, TypeOK
<1>7. CASE EndFree
  BY <1>0, <1>7 DEF EndFree, TypeOK
<1>8. CASE EndDestroyLock
  BY <1>0, <1>8 DEF EndDestroyLock, TypeOK
<1>9. CASE Release
  BY <1>0, <1>9 DEF Release, TypeOK
<1> QED
  BY <1>1, <1>2, <1>3, <1>4, <1>5, <1>6, <1>7, <1>8, <1>9 DEF EndStep

LEMMA AppStepInv ==
    ASSUME LifeInv, TypeOK', AppStep
    PROVE  LifeInv'
<1> USE DEF LifeInv, OnRecord, NoneRuns, WorkerGone, TimerToCome, LockReady, OneObject, SetOfObject,
            LinksFreed, BeforeThreads, AfterClose, IsRunning, objectVars, linkVars, countVars
<1>1. CASE CallInit /\ UNCHANGED lib
  BY <1>1 DEF CallInit, TypeOK
<1>2. CASE AddLink /\ UNCHANGED lib
  BY <1>2 DEF AddLink, TypeOK, Udp
<1>3. CASE CallUninit /\ UNCHANGED lib
  BY <1>3 DEF CallUninit, TypeOK, Udp
<1> QED
  BY <1>1, <1>2, <1>3 DEF AppStep

LEMMA ThreadStepInv ==
    ASSUME LifeInv, TypeOK', NEW t \in Threads, ThreadStep(t)
    PROVE  LifeInv'
<1> USE DEF LifeInv, objectVars, linkVars, countVars
<1>1. IsRunning(t)
  BY DEF ThreadStep, WorkerStart, WorkerTest, WorkerWork, TimeoutThread, At, IsRunning
<1>2. /\ \A u \in Threads : /\ IsRunning(u)' => IsRunning(u)
                            /\ thread'[u].this = thread[u].this
                            /\ thread'[u].kind = thread[u].kind
      /\ UNCHANGED <<lib, main, m_pInstance, epoll, m_pthread_id, m_pthread_timeout, lock,
                     link_list, i_init, i_object>>
      /\ m_maplink' # m_maplink => WorkerWork(t)
  <2>1. PICK label \in {"start", "test", "work", "done"} : Goto(t, label)
    BY DEF ThreadStep, WorkerStart, WorkerTest, WorkerWork, TimeoutThread
  <2>2. /\ thread'[t] = [thread[t] EXCEPT !.pc = label]
        /\ \A u \in Threads \ {t} : thread'[u] = thread[u]
    BY <2>1, GotoType
  <2>3. thread[t] \in Thread
    BY DEF TypeOK
  <2>4. \A u \in Threads : /\ IsRunning(u)' => IsRunning(u)
                           /\ thread'[u].this = thread[u].this
                           /\ thread'[u].kind = thread[u].kind
    BY <1>1, <2>2, <2>3 DEF IsRunning, Thread
  <2> QED
    BY <2>4 DEF ThreadStep, WorkerStart, WorkerTest, WorkerWork, TimeoutThread
<1>3. main \notin {"out", "free", "destroy_lock", "release"}
  BY <1>1 DEF NoneRuns, BeforeThreads, AfterClose
<1>4. OnRecord' /\ NoneRuns' /\ WorkerGone' /\ TimerToCome'
  BY <1>2 DEF OnRecord, NoneRuns, WorkerGone, TimerToCome, Udp
<1>5. LockReady' /\ OneObject' /\ SetOfObject' /\ LinksFreed'
  BY <1>2, <1>3 DEF LockReady, OneObject, SetOfObject, LinksFreed
<1> QED
  BY <1>4, <1>5

LEMMA InvStep == LifeInv /\ [Next]_vars => LifeInv'
<1> SUFFICES ASSUME LifeInv, [Next]_vars PROVE LifeInv'
  OBVIOUS
<1>1. TypeOK'
  BY TypeStep DEF LifeInv
<1>2. CASE UNCHANGED vars
  BY <1>1, <1>2
  DEF vars, LifeInv, OnRecord, NoneRuns, WorkerGone, TimerToCome, LockReady, OneObject, SetOfObject,
      LinksFreed, IsRunning, Udp
<1>3. CASE Next
  <2>1. CASE \E t \in Threads : ThreadStep(t)
    BY <1>1, <2>1, ThreadStepInv
  <2>2. CASE InCall
    BY <1>1, <2>2, InitStepInv, EndStepInv DEF InCall
  <2> QED
    BY <1>1, <1>3, <2>1, <2>2, AppStepInv DEF Next
<1> QED
  BY <1>2, <1>3

LEMMA LifeCorrect == Spec => []LifeInv
  BY InvInit, InvStep, PTL DEF Spec

-----------------------------------------------------------------------------
(* What follows from it. *)

(* The state of ms_tcp_init and ms_tcp_uninit, of their object and of its  *)
(* threads stays in its type; every step of end() has its object.          *)
THEOREM TypeCorrect == Spec => []TypeOK
<1>1. LifeInv => TypeOK
  BY DEF LifeInv
<1> QED
  BY <1>1, LifeCorrect, PTL

(* A thread that runs has an object that has not been deleted and a lock   *)
(* that has not been destroyed: MsEpoll::end and MsUdpEpoll::end join      *)
(* every thread that was started, whatever failed while it was, before     *)
(* they destroy the lock and Release deletes the object.                   *)
THEOREM ThreadsKeepTheirObject == Spec => []ThreadsHaveTheirObject
<1>1. LifeInv => ThreadsHaveTheirObject
  BY DEF LifeInv, OnRecord, IsRunning, ThreadsHaveTheirObject
<1> QED
  BY <1>1, LifeCorrect, PTL

(* After ms_tcp_uninit or ms_udp_uninit no link is registered and no epoll *)
(* set is open, the links the worker accepted while it was being stopped   *)
(* included: free_all_link_map runs when no thread can add one.            *)
THEOREM NothingRemains == Spec => []NothingLeft
<1>1. LifeInv => NothingLeft
  <2> SUFFICES ASSUME LifeInv, main = "out" PROVE m_maplink = {} /\ epoll = {}
    BY DEF NothingLeft
  <2>1. epoll \subseteq {None} /\ epoll \subseteq Objects
    BY DEF LifeInv, OneObject, SetOfObject, TypeOK
  <2> QED
    BY <2>1, NoneIsNoObject DEF LifeInv, LinksFreed
<1> QED
  BY <1>1, LifeCorrect, PTL
=============================================================================
