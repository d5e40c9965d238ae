------------------------------ MODULE UdpLink ------------------------------
(***************************************************************************)
(* The UDP library: links, the buffer of datagrams that sendto did not     *)
(* take, and the worker thread of MsUdpEpoll that reads and flushes.       *)
(*                                                                         *)
(* link_destroy shuts a socket down and never closes it, so a descriptor   *)
(* number is never used again and a link and its socket are one thing      *)
(* here.  m_link_lock is held by the worker for the whole of do_send_buff; *)
(* every other use of it is a single step.                                 *)
(*                                                                         *)
(* link_create leaves the socket blocking: a sendto for which the kernel   *)
(* has no room waits, EAGAIN does not come and nothing is ever put in the  *)
(* buffer.  NonBlocking = FALSE is that program.  NonBlocking = TRUE is    *)
(* the one the code around EAGAIN is written for.                          *)
(***************************************************************************)
EXTENDS Naturals, Sequences, FiniteSets

CONSTANTS App,       \* application threads
          Worker,    \* the thread in MsUdpEpoll::worker_thread
          MaxLinks,  \* bound: links ever created
          MaxSend,   \* bound: datagrams ever given to ms_udp_send_to
          Room,      \* datagrams the kernel holds for one socket
          MaxRx,     \* bound: datagrams that ever arrive at one socket
          Refused,   \* datagrams whose sendto fails, but not with EAGAIN
          Void,      \* datagrams without a byte
          Kept,      \* links the application never destroys
          NonBlocking  \* whether a full socket answers EAGAIN or waits

ASSUME UdpLinkAssumption == /\ Worker \notin App
                            /\ MaxLinks \in Nat /\ MaxSend \in Nat
                            /\ Room \in Nat \ {0} /\ MaxRx \in Nat
                            /\ Refused \subseteq 1 .. MaxSend
                            /\ Void \subseteq 1 .. MaxSend
                            /\ Kept \subseteq 1 .. MaxLinks
                            /\ NonBlocking \in BOOLEAN

Threads == App \cup {Worker}
Links == 1 .. MaxLinks
NoLink == 0
Datagrams == 1 .. MaxSend

VARIABLES
    i_link,            \* the counter of add_tcp_link
    m_maplink,         \* the handles registered
    mi_socket,         \* the links whose mi_socket is not -1
    sock,              \* what the kernel holds of each socket
    m_send_buff_list,  \* the datagrams waiting in each link
    mb_send_flag,      \* "something waits in some link"
    pc, on,            \* where each thread is, and the link it works on
    data,              \* the datagram of the link_send_to in progress
    batch,             \* the events of the last epoll_wait not looked at yet
    todo,              \* the links do_send_buff has still to visit
    i_send,            \* history: the last datagram given to ms_udp_send_to
    queued,            \* history: what was put in each link's buffer
    wire,              \* history: what the kernel took of each link
    closed,            \* history: the links of which CLOSED was said
    begun,             \* history: of those, the ones the worker was then reading
    late               \* history: how often RECEIVEDATA followed CLOSED

callVars == <<pc, on, data>>
workVars == <<batch, todo>>
linkVars == <<i_link, m_maplink, mi_socket>>
closedVars == <<closed, begun, late>>
historyVars == <<i_send, queued, wire, closedVars>>
vars == <<i_link, m_maplink, mi_socket, sock, m_send_buff_list, mb_send_flag, pc, on, data,
          batch, todo, i_send, queued, wire, closed, begun, late>>

Socket == [out : 0 .. Room, came : 0 .. MaxRx, read : 0 .. MaxRx, attached : BOOLEAN, ready : BOOLEAN]

AppPcs == {"idle", "attach", "created", "sendto", "push", "flag", "drop", "del_link", "check_socket",
           "shutdown", "closed"}
WorkerPcs == {"wait", "events", "recv", "recvfrom", "received", "flush", "reset", "lock",
              "walk", "send"}

Init ==
    /\ i_link = 0
    /\ m_maplink = {}
    /\ mi_socket = {}
    /\ sock = [l \in Links |-> [out |-> 0, came |-> 0, read |-> 0,
                             attached |-> FALSE, ready |-> FALSE]]
    /\ m_send_buff_list = [l \in Links |-> <<>>]
    /\ mb_send_flag = FALSE
    /\ pc = [t \in Threads |-> IF t = Worker THEN "wait" ELSE "idle"]
    /\ on = [t \in Threads |-> NoLink]
    /\ data = [t \in App |-> 0]
    /\ batch = {}
    /\ todo = {}
    /\ i_send = 0
    /\ queued = [l \in Links |-> <<>>]
    /\ wire = [l \in Links |-> <<>>]
    /\ closed = {}
    /\ begun = {}
    /\ late = [l \in Links |-> 0]

Goto(t, label) == pc' = [pc EXCEPT ![t] = label]

(* Variant: link_destroy keeps the second lock while it takes the first.   *)
BuffLockedLong(l) == \/ pc[Worker] = "send" /\ on[Worker] = l
                     \/ \E t \in App : pc[t] \in {"flag", "del_link"} /\ on[t] = l

(* Who holds the locks: do_send_buff holds m_link_lock, and for the link   *)
(* it is at mo_send_buff_list_lock too; link_send_to holds the latter from *)
(* the push to the setting of the flag.                                    *)
LinkLocked == pc[Worker] \in {"walk", "send"}
BuffLocked(l) == \/ pc[Worker] = "send" /\ on[Worker] = l
                 \/ \E t \in App : pc[t] = "flag" /\ on[t] = l

(* The worker has loaded the number of the link's socket and has not yet   *)
(* said what it read.                                                      *)
Reading(l) == pc[Worker] \in {"recvfrom", "received"} /\ on[Worker] = l

(* The sets are EPOLLET with EPOLLIN and EPOLLOUT: a socket is reported    *)
(* when it is added and after each change, as it is then.                  *)
Unread(s) == s.came - s.read
Poll(s) == (IF Unread(s) > 0 THEN {"IN"} ELSE {}) \cup (IF s.out < Room THEN {"OUT"} ELSE {})
Edge(s) == [s EXCEPT !.ready = s.attached]

-----------------------------------------------------------------------------
(* Variant: add_tcp_link does not advance its counter. *)
CreateNoCount(t) ==
    /\ pc[t] = "idle"
    /\ i_link < MaxLinks
    /\ ~LinkLocked
    /\ m_maplink' = m_maplink \cup {i_link + 1}
    /\ mi_socket' = mi_socket \cup {i_link + 1}
    /\ on' = [on EXCEPT ![t] = i_link + 1]
    /\ Goto(t, "attach")
    /\ UNCHANGED <<i_link, sock, m_send_buff_list, mb_send_flag, data, workVars, historyVars>>

(* ms_udp_create: socket, bind, add_tcp_link; then attach_to_epoll, from   *)
(* where on the worker reads the link; then the CREATED callback.          *)
Create(t) ==
    /\ pc[t] = "idle"
    /\ i_link < MaxLinks                                    \* bound
    /\ ~LinkLocked
    /\ i_link' = i_link + 1
    /\ m_maplink' = m_maplink \cup {i_link + 1}
    /\ mi_socket' = mi_socket \cup {i_link + 1}
    /\ on' = [on EXCEPT ![t] = i_link + 1]
    /\ Goto(t, "attach")
    /\ UNCHANGED <<sock, m_send_buff_list, mb_send_flag, data, workVars, historyVars>>

Attach(t) ==
    /\ pc[t] = "attach"
    /\ \/ sock' = [sock EXCEPT ![on[t]] = Edge([sock[on[t]] EXCEPT !.attached = TRUE])]
       \/ sock' = sock                    \* epoll_ctl fails: not looked at
    /\ Goto(t, "created")
    /\ UNCHANGED <<linkVars, m_send_buff_list, mb_send_flag, on, data, workVars, historyVars>>

SendCreated(t) ==
    /\ pc[t] = "created"
    /\ Goto(t, "idle")
    /\ UNCHANGED <<linkVars, sock, m_send_buff_list, mb_send_flag, on, data, workVars, historyVars>>

(* find_link at the head of ms_udp_send_to and ms_udp_destroy, on a handle *)
(* that CREATED has been said of.  One that is not registered makes the    *)
(* call return at once, a stutter.                                         *)
Find(t, handles, label) ==
    /\ pc[t] = "idle"
    /\ ~LinkLocked
    /\ \E h \in handles \cap m_maplink :
         /\ \A u \in App : pc[u] \in {"attach", "created"} => on[u] # h
         /\ on' = [on EXCEPT ![t] = h]
    /\ Goto(t, label)
    /\ UNCHANGED <<linkVars, sock, m_send_buff_list, mb_send_flag, workVars, queued, wire,
                   closedVars>>

CallSendTo(t) ==
    /\ i_send < MaxSend                                     \* bound
    /\ Find(t, Links, "sendto")
    /\ i_send' = i_send + 1
    /\ data' = [data EXCEPT ![t] = i_send + 1]

CallDestroy(t) ==
    /\ Find(t, Links \ Kept, "drop")
    /\ UNCHANGED <<i_send, data>>

-----------------------------------------------------------------------------
(* link_send_to. *)

(* sendto(2) without a lock: the kernel takes the datagram, fails with     *)
(* EAGAIN, or fails otherwise, which makes the call return false.  On a    *)
(* full blocking socket the step waits.                                    *)
Fails(l, d) == l \notin mi_socket \/ d \in Refused
Waits(l, d) == ~Fails(l, d) /\ sock[l].out = Room /\ ~NonBlocking
SendTo(t) ==
    LET l == on[t] IN
    /\ pc[t] = "sendto"
    /\ \/ /\ Fails(l, data[t])
          /\ Goto(t, "idle")
          /\ UNCHANGED <<sock, wire>>
       \/ /\ ~Fails(l, data[t]) /\ sock[l].out < Room
          /\ sock' = [sock EXCEPT ![l].out = @ + 1]
          /\ wire' = [wire EXCEPT ![l] = Append(@, data[t])]
          /\ Goto(t, "idle")
       \/ /\ ~Fails(l, data[t]) /\ sock[l].out = Room /\ NonBlocking
          /\ Goto(t, "push")
          /\ UNCHANGED <<sock, wire>>
    /\ UNCHANGED <<linkVars, m_send_buff_list, mb_send_flag, on, data, workVars,
                   i_send, queued, closedVars>>

(* Variant: the datagram is put in front. *)
PushFront(t) ==
    LET l == on[t] IN
    /\ pc[t] = "push"
    /\ ~BuffLocked(l)
    /\ m_send_buff_list' = [m_send_buff_list EXCEPT ![l] = <<data[t]>> \o @]
    /\ queued' = [queued EXCEPT ![l] = Append(@, data[t])]
    /\ Goto(t, "flag")
    /\ UNCHANGED <<linkVars, sock, mb_send_flag, on, data, workVars, i_send, wire, closedVars>>

(* The copy is pushed under mo_send_buff_list_lock.                        *)
Push(t) ==
    LET l == on[t] IN
    /\ pc[t] = "push"
    /\ ~BuffLocked(l)
    /\ m_send_buff_list' = [m_send_buff_list EXCEPT ![l] = Append(@, data[t])]
    /\ queued' = [queued EXCEPT ![l] = Append(@, data[t])]
    /\ Goto(t, "flag")
    /\ UNCHANGED <<linkVars, sock, mb_send_flag, on, data, workVars, i_send, wire, closedVars>>

SetFlag(t) ==
    /\ pc[t] = "flag"
    /\ mb_send_flag' = TRUE
    /\ Goto(t, "idle")
    /\ UNCHANGED <<linkVars, sock, m_send_buff_list, on, data, workVars, historyVars>>

-----------------------------------------------------------------------------
(* link_destroy: del_send_buff, del_link, shutdown. *)

DelSendBuff(t) ==
    /\ pc[t] = "drop"
    /\ ~BuffLocked(on[t])
    /\ m_send_buff_list' = [m_send_buff_list EXCEPT ![on[t]] = <<>>]
    /\ Goto(t, "del_link")
    /\ UNCHANGED <<linkVars, sock, mb_send_flag, on, data, workVars, historyVars>>

DelLink(t) ==
    /\ pc[t] = "del_link"
    /\ ~LinkLocked
    /\ IF on[t] \in m_maplink
       THEN sock' = [sock EXCEPT ![on[t]] = [@ EXCEPT !.attached = FALSE, !.ready = FALSE]]
       ELSE sock' = sock
    /\ m_maplink' = m_maplink \ {on[t]}
    /\ Goto(t, "check_socket")
    /\ UNCHANGED <<i_link, mi_socket, m_send_buff_list, mb_send_flag, on, data,
                   workVars, historyVars>>

CheckSocket(t) ==
    /\ pc[t] = "check_socket"
    /\ Goto(t, IF on[t] \in mi_socket THEN "shutdown" ELSE "idle")
    /\ UNCHANGED <<linkVars, sock, m_send_buff_list, mb_send_flag, on, data, workVars, historyVars>>

(* Variant: mi_socket keeps the descriptor. *)
ShutdownKeeps(t) ==
    /\ pc[t] = "shutdown"
    /\ Goto(t, "closed")
    /\ UNCHANGED <<linkVars, sock, m_send_buff_list, mb_send_flag, on, data, workVars, historyVars>>

Shutdown(t) ==
    /\ pc[t] = "shutdown"
    /\ mi_socket' = mi_socket \ {on[t]}
    /\ Goto(t, "closed")
    /\ UNCHANGED <<i_link, m_maplink, sock, m_send_buff_list, mb_send_flag, on, data,
                   workVars, historyVars>>

SendClosed(t) ==
    /\ pc[t] = "closed"
    /\ closed' = closed \cup {on[t]}
    /\ begun' = IF Reading(on[t]) THEN begun \cup {on[t]} ELSE begun
    /\ Goto(t, "idle")
    /\ UNCHANGED <<linkVars, sock, m_send_buff_list, mb_send_flag, on, data, workVars,
                   i_send, queued, wire, late>>

-----------------------------------------------------------------------------
(* MsUdpEpoll::worker_thread. *)

(* epoll_wait has no timeout: the worker sleeps until a socket is ready.   *)
EpollWait ==
    LET ready == {l \in Links : sock[l].ready} IN
    /\ pc[Worker] = "wait"
    /\ ready # {}
    /\ batch' = {[h |-> l, ev |-> Poll(sock[l])] : l \in ready}
    /\ sock' = [l \in Links |-> [sock[l] EXCEPT !.ready = FALSE]]
    /\ Goto(Worker, "events")
    /\ UNCHANGED <<linkVars, m_send_buff_list, mb_send_flag, on, data, todo, historyVars>>

(* A signal ends an epoll_wait that has nothing to report.                 *)
Interrupted ==
    /\ pc[Worker] = "wait"
    /\ \A l \in Links : ~sock[l].ready
    /\ Goto(Worker, "flush")
    /\ UNCHANGED <<linkVars, sock, m_send_buff_list, mb_send_flag, on, data, workVars, historyVars>>

(* Variant: a handle that is gone ends the loop over the batch. *)
DispatchStops ==
    /\ pc[Worker] = "events"
    /\ \E e \in batch :
         /\ batch' = IF e.h \in m_maplink THEN batch \ {e} ELSE {}
         /\ IF "IN" \in e.ev /\ e.h \in m_maplink
            THEN on' = [on EXCEPT ![Worker] = e.h] /\ Goto(Worker, "recv")
            ELSE UNCHANGED <<on, pc>>
    /\ UNCHANGED <<linkVars, sock, m_send_buff_list, mb_send_flag, data, todo, historyVars>>

(* Only EPOLLIN is looked at; find_link skips a handle that is gone.       *)
Dispatch ==
    /\ pc[Worker] = "events"
    /\ \E e \in batch :
         /\ batch' = batch \ {e}
         /\ IF "IN" \in e.ev /\ e.h \in m_maplink
            THEN on' = [on EXCEPT ![Worker] = e.h] /\ Goto(Worker, "recv")
            ELSE UNCHANGED <<on, pc>>
    /\ UNCHANGED <<linkVars, sock, m_send_buff_list, mb_send_flag, data, todo, historyVars>>

(* on_event_read loads mi_socket without a lock; recvfrom of -1 fails.     *)
Recv ==
    /\ pc[Worker] = "recv"
    /\ Goto(Worker, IF on[Worker] \in mi_socket THEN "recvfrom" ELSE "events")
    /\ UNCHANGED <<linkVars, sock, m_send_buff_list, mb_send_flag, on, data, workVars, historyVars>>

(* recvfrom(2) on the number that was loaded takes one datagram, also from *)
(* a socket that has been shut down since; with nothing there it waits, or *)
(* returns 0 once the socket is shut down.  Of an empty datagram nothing   *)
(* is said.                                                                *)
RecvFrom ==
    LET l == on[Worker] IN
    /\ pc[Worker] = "recvfrom"
    /\ \/ /\ Unread(sock[l]) > 0
          /\ sock' = [sock EXCEPT ![l].read = @ + 1]
          /\ Goto(Worker, "received") \/ Goto(Worker, "events")
       \/ /\ Unread(sock[l]) = 0 /\ l \notin mi_socket
          /\ Goto(Worker, "events")
          /\ sock' = sock
    /\ UNCHANGED <<linkVars, m_send_buff_list, mb_send_flag, on, data, workVars, historyVars>>

(* The RECEIVEDATA callback.                                               *)
SendRecvData ==
    /\ pc[Worker] = "received"
    /\ late' = IF on[Worker] \in closed THEN [late EXCEPT ![on[Worker]] = @ + 1] ELSE late
    /\ Goto(Worker, "events")
    /\ UNCHANGED <<linkVars, sock, m_send_buff_list, mb_send_flag, on, data, workVars,
                   i_send, queued, wire, closed, begun>>

EndBatch ==
    /\ pc[Worker] = "events"
    /\ batch = {}
    /\ Goto(Worker, "flush")
    /\ UNCHANGED <<linkVars, sock, m_send_buff_list, mb_send_flag, on, data, workVars, historyVars>>

(* do_send_buff.  The flag is read and reset before m_link_lock is taken.  *)
CheckFlag ==
    /\ pc[Worker] = "flush"
    /\ Goto(Worker, IF mb_send_flag THEN "reset" ELSE "wait")
    /\ UNCHANGED <<linkVars, sock, m_send_buff_list, mb_send_flag, on, data, workVars, historyVars>>

ResetFlag ==
    /\ pc[Worker] = "reset"
    /\ mb_send_flag' = FALSE
    /\ Goto(Worker, "lock")
    /\ UNCHANGED <<linkVars, sock, m_send_buff_list, on, data, workVars, historyVars>>

Lock ==
    /\ pc[Worker] = "lock"
    /\ todo' = m_maplink
    /\ Goto(Worker, "walk")
    /\ UNCHANGED <<linkVars, sock, m_send_buff_list, mb_send_flag, on, data, batch, historyVars>>

(* The links are visited in the order of their handles.                    *)
WalkLink ==
    /\ pc[Worker] = "walk"
    /\ \E l \in todo :
         /\ \A k \in todo : l <= k
         /\ ~BuffLocked(l)
         /\ on' = [on EXCEPT ![Worker] = l]
    /\ Goto(Worker, "send")
    /\ UNCHANGED <<linkVars, sock, m_send_buff_list, mb_send_flag, data, workVars, historyVars>>

(* What becomes of the head of a link's list: it is erased for having no   *)
(* byte, or the kernel takes it.                                           *)
Erased(l) == m_send_buff_list[l] # <<>> /\ Head(m_send_buff_list[l]) \in Void
Taken(l) == /\ m_send_buff_list[l] # <<>> /\ ~Erased(l)
            /\ ~Fails(l, Head(m_send_buff_list[l])) /\ sock[l].out < Room

(* Variant: when sendto fails the flag is not set again. *)
WalkSendForgets ==
    LET l == on[Worker]
        list == m_send_buff_list[l] IN
    /\ pc[Worker] = "send"
    /\ \/ /\ Erased(l) \/ Taken(l)
          /\ m_send_buff_list' = [m_send_buff_list EXCEPT ![l] = Tail(@)]
          /\ IF Taken(l)
             THEN /\ sock' = [sock EXCEPT ![l].out = @ + 1]
                  /\ wire' = [wire EXCEPT ![l] = Append(@, Head(list))]
             ELSE UNCHANGED <<sock, wire>>
          /\ UNCHANGED <<pc, todo>>
       \/ /\ ~Erased(l) /\ ~Taken(l)
          /\ list # <<>> => ~Waits(l, Head(list))
          /\ todo' = todo \ {l}
          /\ Goto(Worker, "walk")
          /\ UNCHANGED <<sock, wire, m_send_buff_list>>
    /\ UNCHANGED <<linkVars, mb_send_flag, on, data, batch, i_send, queued, closedVars>>

(* One round of the loop over a link's list: the head is erased, with or   *)
(* without being sent, or sendto fails, for whatever reason, and the link  *)
(* is left.  A list that is not empty then sets the flag again.            *)
WalkSend ==
    LET l == on[Worker]
        list == m_send_buff_list[l] IN
    /\ pc[Worker] = "send"
    /\ \/ /\ Erased(l) \/ Taken(l)
          /\ m_send_buff_list' = [m_send_buff_list EXCEPT ![l] = Tail(@)]
          /\ IF Taken(l)
             THEN /\ sock' = [sock EXCEPT ![l].out = @ + 1]
                  /\ wire' = [wire EXCEPT ![l] = Append(@, Head(list))]
             ELSE UNCHANGED <<sock, wire>>
          /\ UNCHANGED <<pc, todo, mb_send_flag>>
       \/ /\ ~Erased(l) /\ ~Taken(l)
          /\ list # <<>> => ~Waits(l, Head(list))
          /\ mb_send_flag' = (mb_send_flag \/ list # <<>>)
          /\ todo' = todo \ {l}
          /\ Goto(Worker, "walk")
          /\ UNCHANGED <<sock, wire, m_send_buff_list>>
    /\ UNCHANGED <<linkVars, on, data, batch, i_send, queued, closedVars>>

WalkDone ==
    /\ pc[Worker] = "walk"
    /\ todo = {}
    /\ Goto(Worker, "wait")
    /\ UNCHANGED <<linkVars, sock, m_send_buff_list, mb_send_flag, on, data, workVars, historyVars>>

-----------------------------------------------------------------------------
(* The network. *)

Drains(l) ==            \* a datagram leaves the kernel
    /\ sock[l].out > 0
    /\ sock' = [sock EXCEPT ![l] = Edge([sock[l] EXCEPT !.out = @ - 1])]
    /\ UNCHANGED <<linkVars, m_send_buff_list, mb_send_flag, callVars, workVars, historyVars>>

Arrives(l) ==           \* bound: MaxRx
    /\ l <= i_link         \* shut down or not: the descriptor stays open
    /\ sock[l].came < MaxRx
    /\ sock' = [sock EXCEPT ![l] = Edge([sock[l] EXCEPT !.came = @ + 1])]
    /\ UNCHANGED <<linkVars, m_send_buff_list, mb_send_flag, callVars, workVars, historyVars>>

-----------------------------------------------------------------------------
InCall(t) ==
    \/ Attach(t) \/ SendCreated(t) \/ SendTo(t) \/ Push(t) \/ SetFlag(t)
    \/ DelSendBuff(t) \/ DelLink(t) \/ CheckSocket(t) \/ Shutdown(t) \/ SendClosed(t)

AppStep(t) == Create(t) \/ CallSendTo(t) \/ CallDestroy(t) \/ InCall(t)

WorkerStep ==
    \/ EpollWait \/ Dispatch \/ Recv \/ RecvFrom \/ SendRecvData \/ EndBatch
    \/ CheckFlag \/ ResetFlag \/ Lock \/ WalkLink \/ WalkSend \/ WalkDone

Network == \E l \in Links : Drains(l) \/ Arrives(l)

Next == (\E t \in App : AppStep(t)) \/ WorkerStep \/ Interrupted \/ Network

Spec == Init /\ [][Next]_vars

(* The worker runs, a call that has begun runs on and gets a lock that is  *)
(* released again and again, and the kernel sends what it has taken.  No   *)
(* call is ever made and no datagram or signal comes because it has to.    *)
Fairness == /\ WF_vars(WorkerStep)
            /\ \A t \in App : SF_vars(InCall(t))
            /\ \A l \in Links : WF_vars(Drains(l))
FairSpec == Spec /\ Fairness

-----------------------------------------------------------------------------
(* The state of the library and of the sockets stays within its types;     *)
(* what is registered or has a socket was made by add_tcp_link.            *)
TypeOK ==
    /\ i_link \in 0 .. MaxLinks
    /\ m_maplink \subseteq 1 .. i_link
    /\ mi_socket \subseteq 1 .. i_link
    /\ sock \in [Links -> Socket]
    /\ m_send_buff_list \in [Links -> Seq(Datagrams)]
    /\ mb_send_flag \in BOOLEAN
    /\ pc \in [Threads -> AppPcs \cup WorkerPcs]
    /\ pc[Worker] \in WorkerPcs /\ \A t \in App : pc[t] \in AppPcs
    /\ on \in [Threads -> Links \cup {NoLink}]
    /\ data \in [App -> Datagrams \cup {0}]
    /\ batch \subseteq [h : Links, ev : SUBSET {"IN", "OUT"}]
    /\ todo \subseteq 1 .. i_link
    /\ i_send \in 0 .. MaxSend
    /\ queued \in [Links -> Seq(Datagrams)]
    /\ wire \in [Links -> Seq(Datagrams)]
    /\ closed \subseteq Links
    /\ begun \subseteq Links
    /\ late \in [Links -> Nat]

(* What waits in a registered link is never forgotten: mb_send_flag is     *)
(* set, or the thread that pushed it is about to set it, or do_send_buff   *)
(* has reset it and has not looked at the link yet.                        *)
FlagCoversBuffer ==
    \A l \in m_maplink :
        m_send_buff_list[l] # <<>> =>
            \/ mb_send_flag
            \/ \E t \in App : pc[t] = "flag" /\ on[t] = l
            \/ pc[Worker] = "lock"
            \/ LinkLocked /\ l \in todo

(* A call that is under way has the link and the datagram it began with,   *)
(* and so has the worker.                                                  *)
CallsHaveTheirLink ==
    /\ \A t \in Threads : on[t] <= i_link
    /\ \A t \in App : /\ pc[t] # "idle" => on[t] \in Links
                      /\ pc[t] \in {"sendto", "push"} => data[t] \in Datagrams
    /\ pc[Worker] \in {"recv", "recvfrom", "received", "send"} => on[Worker] \in Links

(* A link not yet made has nothing in its buffer.                          *)
UnusedIsEmpty == \A l \in Links : l > i_link => m_send_buff_list[l] = <<>>

(* CLOSED is said of a link only after mi_socket has become -1, and that   *)
(* is never undone.                                                        *)
ClosedHasNoSocket ==
    /\ closed \subseteq 1 .. i_link
    /\ closed \cap mi_socket = {}
    /\ \A t \in App : pc[t] = "closed" => on[t] \notin mi_socket

(* The four together hold step by step.                                    *)
BufferInv == CallsHaveTheirLink /\ UnusedIsEmpty /\ ClosedHasNoSocket /\ FlagCoversBuffer

(* What link_send_to buffers leaves the link in the order it was pushed    *)
(* and at most once: of what the kernel took followed by what waits, the   *)
(* datagrams that were pushed stand in the order of their pushes, whatever *)
(* the callers and do_send_buff do; and nothing else waits.                *)
QueuedInOrder ==
    \A l \in Links :
        LET line == wire[l] \o m_send_buff_list[l]
        IN /\ \A i, j \in DOMAIN line : \A p, q \in DOMAIN queued[l] :
                 i < j /\ queued[l][p] = line[i] /\ queued[l][q] = line[j] => p < q
           /\ \A i \in DOMAIN m_send_buff_list[l] :
                 \E p \in DOMAIN queued[l] : queued[l][p] = m_send_buff_list[l][i]

(* A call on a link comes to its end: nobody waits for ever for            *)
(* m_link_lock, for mo_send_buff_list_lock or for room in a socket.        *)
CallsReturn == \A t \in App : pc[t] # "idle" ~> pc[t] = "idle"

(* After CLOSED a link says RECEIVEDATA at most once more, and only when   *)
(* on_event_read had loaded mi_socket before CLOSED was said: what arrived *)
(* beyond that one datagram is never handed on, although the descriptor    *)
(* stays open and datagrams go on arriving.                                *)
OneReadAfterClosed == \A l \in Links : late[l] <= (IF l \in begun THEN 1 ELSE 0)

(* Before CLOSED nothing is late, and a read under way when CLOSED is said *)
(* is the one that is counted.                                             *)
LateInv ==
    /\ OneReadAfterClosed
    /\ \A l \in Links \ closed : late[l] = 0 /\ l \notin begun
    /\ \A l \in closed : Reading(l) => late[l] = 0 /\ l \in begun

(* An edge of a link the application keeps is answered by a recvfrom,      *)
(* whatever happens to the links reported beside it.  It is not answered   *)
(* by more than one: of two datagrams that arrive together one is left.    *)
EdgeIsRead ==
    \A l \in Kept, n \in 0 .. MaxRx :
        sock[l].ready /\ Unread(sock[l]) > 0 /\ sock[l].read = n ~> sock[l].read > n
=============================================================================
