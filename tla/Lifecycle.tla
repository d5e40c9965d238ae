----------------------------- MODULE Lifecycle -----------------------------
(***************************************************************************)
(* Starting and stopping the library: ms_tcp_init and ms_tcp_uninit, the   *)
(* MsEpoll object behind them and its two threads; or, when lib is "udp",  *)
(* ms_udp_init and ms_udp_uninit: no timeout thread, and the worker is     *)
(* told to leave by an eventfd in place of the flag mb_exit_thread.        *)
(*                                                                         *)
(* The application calls from one thread.  What the worker does with       *)
(* events is TcpLink and UdpLink; here it only registers links and takes   *)
(* m_link_lock.                                                            *)
(***************************************************************************)
EXTENDS Naturals, FiniteSets

CONSTANTS Libs,      \* the libraries looked at, each by itself
          MaxInit,   \* bound: calls of init
          MaxLinks,  \* bound: links ever registered
          MayFail,   \* whether epoll_create and pthread_create may fail
          Patient    \* ms_tcp_uninit is not called before the worker is in its loop

ASSUME LifecycleAssumption == /\ Libs \subseteq {"tcp", "udp"}
                              /\ MaxInit \in Nat \ {0} /\ MaxLinks \in Nat
                              /\ MayFail \in BOOLEAN /\ Patient \in BOOLEAN

Objects == 1 .. MaxInit      \* the MsEpoll objects, in the order of new
Threads == 1 .. 2 * MaxInit  \* the threads, in the order of pthread_create
Links == 1 .. MaxLinks
None == 0

VARIABLES
    lib,               \* which of the two libraries this is
    main,              \* where the application's thread is
    m_pInstance,       \* the object, or None
    epoll,             \* the objects whose mi_epoll_fd is open
    m_pthread_id,      \* of each object: its worker, or None
    m_pthread_timeout, \* of each object: its timeout thread, or None
    exit,              \* the objects told to leave: mb_exit_thread, the eventfd
    timer,             \* the objects whose mb_timeout_thread_flag is set
    thread,            \* the threads: kind, object and place
    lock,              \* m_link_lock has been initialised and not destroyed
    m_maplink,         \* the links registered
    link_list,         \* what free_all_link_map has collected
    i_init, i_object, i_link  \* how many calls of init, objects and links there were

objectVars == <<m_pInstance, epoll, m_pthread_id, m_pthread_timeout, exit, timer>>
linkVars == <<m_maplink, link_list>>
countVars == <<i_init, i_object, i_link>>
vars == <<lib, main, m_pInstance, epoll, m_pthread_id, m_pthread_timeout, exit, timer, thread,
          lock, m_maplink, link_list, i_init, i_object, i_link>>

InitPcs == {"instance", "epoll_create", "init_link", "worker", "timeout"}
EndPcs == {"signal", "join_worker", "stop_timer", "join_timer", "close", "collect",
           "free", "destroy_lock", "release"}
MainPcs == {"out", "up", "failed"} \cup InitPcs \cup EndPcs

Thread == [kind : {"none", "worker", "timeout"}, this : Objects \cup {None},
           pc : {"start", "test", "work", "done"}]

Init ==
    /\ lib \in Libs
    /\ main = "out"
    /\ m_pInstance = None
    /\ epoll = {}
    /\ m_pthread_id = [o \in Objects |-> None]
    /\ m_pthread_timeout = [o \in Objects |-> None]
    /\ exit = {}
    /\ timer = {}
    /\ thread = [t \in Threads |-> [kind |-> "none", this |-> None, pc |-> "done"]]
    /\ lock = TRUE           \* zero-initialised, which is a mutex on Linux
    /\ m_maplink = {}
    /\ link_list = {}
    /\ i_init = 0 /\ i_object = 0 /\ i_link = 0

Udp == lib = "udp"
this == m_pInstance
Unused == {t \in Threads : thread[t].kind = "none"}
Running(o) == {t \in Threads : thread[t].this = o /\ thread[t].pc # "done"}

(* pthread_create: the first unused number; the thread begins at label.    *)
Spawn(kind, label, t) ==
    /\ t \in Unused /\ \A u \in Unused : t <= u
    /\ thread' = [thread EXCEPT ![t] = [kind |-> kind, this |-> this, pc |-> label]]

-----------------------------------------------------------------------------
(* ms_tcp_init, ms_udp_init.                                               *)

CallInit ==
    /\ lib \in Libs
    /\ main = "out"
    /\ i_init < MaxInit                                        \* bound
    /\ i_init' = i_init + 1
    /\ main' = "instance"
    /\ UNCHANGED <<objectVars, thread, lock, linkVars, i_object, i_link>>

(* Variant: the new object is not kept. *)
InstanceForgets ==
    /\ main = "instance"
    /\ i_object' = IF m_pInstance = None THEN i_object + 1 ELSE i_object
    /\ main' = "epoll_create"
    /\ UNCHANGED <<objectVars, thread, lock, linkVars, i_init, i_link>>

Instance ==                  \* CSingletonHandler::Instance
    /\ main = "instance"
    /\ IF m_pInstance = None
       THEN m_pInstance' = i_object + 1 /\ i_object' = i_object + 1
       ELSE UNCHANGED <<m_pInstance, i_object>>
    /\ main' = "epoll_create"
    /\ UNCHANGED <<epoll, m_pthread_id, m_pthread_timeout, exit, timer, thread, lock, linkVars,
                   i_init, i_link>>

EpollCreate ==
    /\ main = "epoll_create"
    /\ \/ /\ this \notin epoll
          /\ epoll' = epoll \cup {this}
          /\ main' = "init_link"
       \/ /\ MayFail \/ this \in epoll
          /\ main' = "failed"
          /\ UNCHANGED epoll
    /\ UNCHANGED <<m_pInstance, m_pthread_id, m_pthread_timeout, exit, timer, thread, lock,
                   linkVars, countVars>>

InitLink ==                  \* init_link_lock, init_link_map
    /\ main = "init_link"
    /\ lock' = TRUE
    /\ m_maplink' = {}
    /\ main' = "worker"
    /\ UNCHANGED <<objectVars, thread, link_list, countVars>>

CreateWorker ==
    /\ main = "worker"
    /\ \/ \E t \in Threads :
            /\ Spawn("worker", "start", t)
            /\ m_pthread_id' = [m_pthread_id EXCEPT ![this] = t]
            /\ main' = IF Udp THEN "up" ELSE "timeout"
            /\ UNCHANGED epoll
       \/ /\ MayFail
          /\ epoll' = epoll \ {this}
          /\ main' = "failed"
          /\ UNCHANGED <<thread, m_pthread_id>>
    /\ UNCHANGED <<m_pInstance, m_pthread_timeout, exit, timer, lock, linkVars, countVars>>

(* When this thread cannot be made the epoll set is closed under the       *)
(* worker, which runs on.                                                  *)
CreateTimeout ==
    /\ main = "timeout"
    /\ \/ \E t \in Threads :
            /\ Spawn("timeout", "test", t)
            /\ m_pthread_timeout' = [m_pthread_timeout EXCEPT ![this] = t]
            /\ timer' = timer \cup {this}
            /\ main' = "up"
            /\ UNCHANGED epoll
       \/ /\ MayFail
          /\ epoll' = epoll \ {this}
          /\ main' = "failed"
          /\ UNCHANGED <<thread, m_pthread_timeout, timer>>
    /\ UNCHANGED <<m_pInstance, m_pthread_id, exit, lock, linkVars, countVars>>

(* add_tcp_link, in a call of the application.                             *)
AddLink ==
    /\ main = "up"
    /\ i_link < MaxLinks                                       \* bound
    /\ i_link' = i_link + 1
    /\ m_maplink' = m_maplink \cup {i_link + 1}
    /\ UNCHANGED <<main, objectVars, thread, lock, link_list, i_init, i_object>>

-----------------------------------------------------------------------------
(* MsEpoll::end, MsUdpEpoll::end, and Release.                             *)

Begun(o) == m_pthread_id[o] # None => thread[m_pthread_id[o]].pc # "start"

CallUninit ==                \* also after an init that has failed
    /\ main \in {"up", "failed"}
    /\ Patient /\ ~Udp => Begun(this)
    /\ main' = "signal"
    /\ UNCHANGED <<objectVars, thread, lock, linkVars, countVars>>

EndSignal ==
    /\ main = "signal"
    /\ exit' = exit \cup {this}
    /\ main' = "join_worker"
    /\ UNCHANGED <<m_pInstance, epoll, m_pthread_id, m_pthread_timeout, timer, thread, lock,
                   linkVars, countVars>>

(* Variant: end does not wait for the worker. *)
EndJoinWorkerNot ==
    /\ main = "join_worker"
    /\ m_pthread_id' = [m_pthread_id EXCEPT ![this] = None]
    /\ main' = IF Udp THEN "close" ELSE "stop_timer"
    /\ UNCHANGED <<m_pInstance, epoll, m_pthread_timeout, exit, timer, thread, lock, linkVars,
                   countVars>>

EndJoinWorker ==
    /\ main = "join_worker"
    /\ m_pthread_id[this] # None => thread[m_pthread_id[this]].pc = "done"
    /\ m_pthread_id' = [m_pthread_id EXCEPT ![this] = None]
    /\ main' = IF Udp THEN "close" ELSE "stop_timer"
    /\ UNCHANGED <<m_pInstance, epoll, m_pthread_timeout, exit, timer, thread, lock, linkVars,
                   countVars>>

(* Variant: the flag stays set. *)
EndStopTimerNot ==
    /\ main = "stop_timer"
    /\ main' = "join_timer"
    /\ UNCHANGED <<objectVars, thread, lock, linkVars, countVars>>

EndStopTimer ==
    /\ main = "stop_timer"
    /\ timer' = timer \ {this}
    /\ main' = "join_timer"
    /\ UNCHANGED <<m_pInstance, epoll, m_pthread_id, m_pthread_timeout, exit, thread, lock,
                   linkVars, countVars>>

EndJoinTimer ==
    /\ main = "join_timer"
    /\ m_pthread_timeout[this] # None => thread[m_pthread_timeout[this]].pc = "done"
    /\ m_pthread_timeout' = [m_pthread_timeout EXCEPT ![this] = None]
    /\ main' = "close"
    /\ UNCHANGED <<m_pInstance, epoll, m_pthread_id, exit, timer, thread, lock, linkVars,
                   countVars>>

EndClose ==
    /\ main = "close"
    /\ epoll' = epoll \ {this}
    /\ main' = "collect"
    /\ UNCHANGED <<m_pInstance, m_pthread_id, m_pthread_timeout, exit, timer, thread, lock,
                   linkVars, countVars>>

(* free_all_link_map: the links are copied under the lock and destroyed    *)
(* without it, one by one.                                                 *)
EndCollect ==
    /\ main = "collect"
    /\ link_list' = m_maplink
    /\ main' = "free"
    /\ UNCHANGED <<objectVars, thread, lock, m_maplink, countVars>>

(* Variant: the loop leaves the last link out. *)
EndFreeShort ==
    /\ main = "free"
    /\ IF Cardinality(link_list) > 1
       THEN \E l \in link_list :
              /\ m_maplink' = m_maplink \ {l}
              /\ link_list' = link_list \ {l}
              /\ UNCHANGED main
       ELSE /\ main' = "destroy_lock"
            /\ link_list' = {}
            /\ UNCHANGED m_maplink
    /\ UNCHANGED <<objectVars, thread, lock, countVars>>

EndFree ==
    /\ main = "free"
    /\ \/ \E l \in link_list :
            /\ \A k \in link_list : l <= k
            /\ m_maplink' = m_maplink \ {l}
            /\ link_list' = link_list \ {l}
            /\ UNCHANGED main
       \/ /\ link_list = {}
          /\ main' = "destroy_lock"
          /\ UNCHANGED linkVars
    /\ UNCHANGED <<objectVars, thread, lock, countVars>>

EndDestroyLock ==
    /\ main = "destroy_lock"
    /\ lock' = FALSE
    /\ main' = "release"
    /\ UNCHANGED <<objectVars, thread, linkVars, countVars>>

Release ==
    /\ main = "release"
    /\ m_pInstance' = None
    /\ main' = "out"
    /\ UNCHANGED <<epoll, m_pthread_id, m_pthread_timeout, exit, timer, thread, lock, linkVars,
                   countVars>>

-----------------------------------------------------------------------------
(* The threads. *)

At(t, kind, label) == thread[t].kind = kind /\ thread[t].pc = label
Goto(t, label) == thread' = [thread EXCEPT ![t].pc = label]

(* The TCP worker begins by setting mb_exit_thread to false.               *)
WorkerStart(t) ==
    /\ At(t, "worker", "start")
    /\ exit' = IF Udp THEN exit ELSE exit \ {thread[t].this}
    /\ Goto(t, "test")
    /\ UNCHANGED <<main, m_pInstance, epoll, m_pthread_id, m_pthread_timeout, timer, lock, linkVars,
                   countVars>>

(* The flag is tested before each epoll_wait; the eventfd is one of the    *)
(* events epoll_wait reports.                                              *)
WorkerTest(t) ==
    /\ At(t, "worker", "test")
    /\ Goto(t, IF thread[t].this \in exit THEN "done" ELSE "work")
    /\ UNCHANGED <<main, objectVars, lock, linkVars, countVars>>

(* One round: a link is accepted and registered, or nothing happens that   *)
(* matters here.  On a closed set epoll_wait fails and the round is empty. *)
WorkerWork(t) ==
    /\ At(t, "worker", "work")
    /\ Goto(t, "test")
    /\ \/ /\ ~Udp /\ thread[t].this \in epoll
          /\ i_link < MaxLinks                                 \* bound
          /\ i_link' = i_link + 1
          /\ m_maplink' = m_maplink \cup {i_link + 1}
       \/ UNCHANGED <<m_maplink, i_link>>
    /\ UNCHANGED <<main, objectVars, lock, link_list, i_init, i_object>>

TimeoutThread(t) ==          \* test the flag, sleep
    /\ At(t, "timeout", "test")
    /\ thread[t].this \notin timer
    /\ Goto(t, "done")
    /\ UNCHANGED <<main, objectVars, lock, linkVars, countVars>>

-----------------------------------------------------------------------------
InitStep == Instance \/ EpollCreate \/ InitLink \/ CreateWorker \/ CreateTimeout
EndStep == EndSignal \/ EndJoinWorker \/ EndStopTimer \/ EndJoinTimer \/ EndClose
           \/ EndCollect \/ EndFree \/ EndDestroyLock \/ Release
InCall == (InitStep \/ EndStep) /\ UNCHANGED lib
AppStep == (CallInit \/ AddLink \/ CallUninit) /\ UNCHANGED lib
ThreadStep(t) == /\ WorkerStart(t) \/ WorkerTest(t) \/ WorkerWork(t) \/ TimeoutThread(t)
                 /\ UNCHANGED lib

Next == AppStep \/ InCall \/ \E t \in Threads : ThreadStep(t)
Spec == Init /\ [][Next]_vars

(* A call that has begun runs on, and so does every thread.                *)
Fairness == /\ WF_vars(InCall)
            /\ \A t \in Threads : WF_vars(ThreadStep(t))
FairSpec == Spec /\ Fairness

-----------------------------------------------------------------------------
TypeOK ==
    /\ lib \in Libs
    /\ main \in MainPcs
    /\ m_pInstance \in Objects \cup {None}
    /\ epoll \subseteq Objects /\ exit \subseteq Objects /\ timer \subseteq Objects
    /\ m_pthread_id \in [Objects -> Threads \cup {None}]
    /\ m_pthread_timeout \in [Objects -> Threads \cup {None}]
    /\ thread \in [Threads -> Thread]
    /\ lock \in BOOLEAN
    /\ m_maplink \subseteq Links /\ link_list \subseteq Links
    /\ i_init \in 0 .. MaxInit /\ i_object \in 0 .. MaxInit /\ i_link \in 0 .. MaxLinks
    /\ main # "out" /\ main # "instance" => m_pInstance # None

(* A thread that runs has an object that has not been deleted and a lock   *)
(* that has not been destroyed, whatever failed while it was started.      *)
ThreadsHaveTheirObject ==
    \A t \in Threads : thread[t].pc # "done" => lock /\ thread[t].this = m_pInstance

(* After ms_tcp_uninit or ms_udp_uninit no link is registered, the ones    *)
(* that the worker accepted while it was being stopped included, and no    *)
(* epoll set is open.                                                      *)
NothingLeft == main = "out" => m_maplink = {} /\ epoll = {}

(* "Func name: ms_tcp_uninit, Descriptions: uninit func": the call ends.   *)
(* end() sets mb_exit_thread and joins a worker that, when it is just      *)
(* starting, sets the flag back.                                           *)
UninitReturns == main \in EndPcs ~> main = "out"
=============================================================================
