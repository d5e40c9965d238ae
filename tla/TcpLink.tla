------------------------------ MODULE TcpLink ------------------------------
(***************************************************************************)
(* The TCP library: the registry of links (MsTcpLink::m_maplink), the      *)
(* links, the ms_tcp_* calls that application threads make, and the        *)
(* worker thread of MsEpoll that turns epoll events into callbacks.        *)
(*                                                                         *)
(* m_link_lock protects the registry only: find_link, del_link and         *)
(* add_tcp_link are single steps here.  Everything done with a link after  *)
(* find_link is done without a lock, so each later access to the fields of *)
(* the link, each system call and each callback is a step of its own.      *)
(***************************************************************************)
EXTENDS Sockets

CONSTANTS App,      \* application threads
          Worker,   \* the thread in MsEpoll::worker_thread
          Calls,    \* Calls[t]: which of the ms_tcp_* calls thread t makes
          Kept,     \* handles the application never destroys
          PeerActs, \* what the other ends do: see Peer below
          Watched,  \* the events that the history keeps
          KeepPeriod  \* keepalive every KeepPeriod rounds (10 in the code)

(* "connect" and "listen" are calls on a link that has done neither yet,   *)
(* "again" is either of them on a link that has.                           *)
CallNames == {"create", "connect", "listen", "again", "send", "destroy"}
PeerNames == {"dial", "answer", "data", "fin", "reset", "nomem", "eintr"}

EventNames == {"CREATED", "CLOSED", "ACCEPTED", "CONNECTED", "DISCONNECTED",
               "RECV_BEGIN", "RECEIVEDATA", "RECV_END", "KEEPALIVE"}

ASSUME TcpLinkAssumption == /\ Worker \notin App
                            /\ Calls \in [App -> SUBSET CallNames]
                            /\ Kept \subseteq Links
                            /\ PeerActs \subseteq PeerNames
                            /\ Watched \subseteq EventNames
                            /\ {"CREATED", "ACCEPTED"} \subseteq Watched
                            /\ KeepPeriod \in Nat \ {0}

Threads == App \cup {Worker}

VARIABLES
    sock,       \* the descriptor table
    i_link,     \* the counter of add_tcp_link
    m_maplink,  \* the handles registered (handle h names link object h)
    link,       \* the link objects: mi_socket, mh_link, m_link_type
    first,      \* g_ms_tcp_first_create_link
    beat,       \* ui_keep_alive_times, modulo KeepPeriod
    pc, on,     \* where each thread is, and the link it works on
    i_fd,       \* mi_socket of that link as the thread may have loaded it
    b_self,     \* the argument of the link_destroy in progress
    batch,      \* the events of the last epoll_wait not looked at yet
    h_accept,   \* the link on_event_accept is setting up
    seen,       \* history: the events the application was told, by handle
    robbed      \* history: links whose socket a call on another link closed

kernelVars == <<sock>>
linkVars == <<i_link, m_maplink, link, first>>
workerVars == <<beat, batch, h_accept>>
threadVars == <<pc, on, i_fd, b_self>>
historyVars == <<seen, robbed>>
vars == <<sock, i_link, m_maplink, link, first, beat, pc, on, i_fd, b_self,
          batch, h_accept, seen, robbed>>

LinkTypes == {"Null", "Listen", "Connect", "Accept", "Connected"}
LinkObject == [mi_socket : FdOrNone, mh_link : LinkOrNone, m_link_type : LinkTypes]
NewLink == [mi_socket |-> NoFd, mh_link |-> NoLink, m_link_type |-> "Null"]

DestroyPcs == {"destroy", "clear_first", "del_link", "check", "close", "closed", "forget"}
AppPcs == DestroyPcs \cup
    {"idle", "set_link", "check_first", "set_first", "connect", "connected",
     "attach", "refused", "refused_forget", "listen", "send"}
WorkerPcs == DestroyPcs \cup
    {"wait", "keepalive", "find_first", "events", "disconnected",
     "accept", "accept_attach", "accepted", "recv_begin", "read", "middle", "read_gone",
     "recv_end"}

Init ==
    /\ sock = [f \in Fds |-> Unused]
    /\ i_link = 0
    /\ m_maplink = {}
    /\ link = [l \in Links |-> NewLink]
    /\ first = NoLink
    /\ beat = 0
    /\ pc = [t \in Threads |-> IF t = Worker THEN "wait" ELSE "idle"]
    /\ on = [t \in Threads |-> NoLink]
    /\ i_fd = [t \in Threads |-> NoFd]
    /\ b_self = [t \in Threads |-> TRUE]
    /\ batch = {}
    /\ h_accept = NoLink
    /\ seen = [l \in Links |-> {}]
    /\ robbed = {}

-----------------------------------------------------------------------------
(* Shorthands. *)

Fd(l) == link[l].mi_socket
Goto(t, label) == /\ pc' = [pc EXCEPT ![t] = label]
                  /\ i_fd' = [i_fd EXCEPT ![t] = NoFd]

(* The next step of t passes l's mi_socket to a system call.  No lock is   *)
(* held from the load of the field to the call.  The field only ever goes  *)
(* from a number to -1, so the value at the previous step of t and the     *)
(* value at the call are all that can be passed.                           *)
Reach(t, label, l) == /\ pc' = [pc EXCEPT ![t] = label]
                      /\ i_fd' = [i_fd EXCEPT ![t] = Fd(l)]
Loaded(t) == {i_fd[t], Fd(on[t])}

(* The application is told event e of handle h; h is a link's own mh_link, *)
(* which is INVALID_HTCPLINK until set_link.                               *)
Told(h, e) == IF h \in Links /\ e \in Watched THEN [seen EXCEPT ![h] = @ \cup {e}] ELSE seen

(* close(f) in a call on link l.  The number may be somebody else's now.   *)
Close(l, f) == /\ sock' = CloseFd(sock, f)
               /\ robbed' = robbed \cup ({OwnerOf(sock, f)} \ {NoLink, l})

(* The application knows the handles it was told of.                       *)
Known(h) == seen[h] \cap {"CREATED", "ACCEPTED"} # {}

(* Bound: a connection waiting in a backlog has a handle reserved.         *)
Waiting == {f \in Fds : sock[f].st = "listening" /\ sock[f].rx > 0}
HandleLeft == i_link < MaxLinks /\ i_link + Cardinality(Waiting) < MaxLinks


-----------------------------------------------------------------------------
(* ms_tcp_create: socket, bind and add_tcp_link.  Until add_tcp_link the   *)
(* object is the caller's alone, so the three are one step; when socket or *)
(* bind fails nothing is left and INVALID_HTCPLINK is returned (a stutter).*)
Create(t) ==
    /\ pc[t] = "idle"
    /\ "create" \in Calls[t]
    /\ HandleLeft                                           \* bound
    /\ \E f \in FreeFds(sock) :
         /\ sock' = [sock EXCEPT ![f] = Fresh(i_link + 1, "bound")]
         /\ link' = [link EXCEPT ![i_link + 1].mi_socket = f]
    /\ i_link' = i_link + 1
    /\ m_maplink' = m_maplink \cup {i_link + 1}
    /\ on' = [on EXCEPT ![t] = i_link + 1]
    /\ Goto(t, "set_link")
    /\ UNCHANGED <<first, b_self, workerVars, historyVars>>

(* set_link, then the EVT_TCP_CREATED callback.                            *)
CreateAnnounce(t) ==
    /\ pc[t] = "set_link"
    /\ link' = [link EXCEPT ![on[t]].mh_link = on[t]]
    /\ seen' = Told(on[t], "CREATED")
    /\ Goto(t, "check_first")
    /\ UNCHANGED <<kernelVars, i_link, m_maplink, first, on, b_self, workerVars, robbed>>

(* g_ms_tcp_first_create_link is read and written without a lock, after    *)
(* the callback: by then any thread may have used the handle.              *)
CreateCheckFirst(t) ==
    /\ pc[t] = "check_first"
    /\ Goto(t, IF first = NoLink THEN "set_first" ELSE "idle")
    /\ UNCHANGED <<kernelVars, linkVars, on, b_self, workerVars, historyVars>>

CreateSetFirst(t) ==
    /\ pc[t] = "set_first"
    /\ first' = on[t]
    /\ Goto(t, "idle")
    /\ UNCHANGED <<kernelVars, i_link, m_maplink, link, on, b_self, workerVars, historyVars>>

-----------------------------------------------------------------------------
(* find_link at the head of ms_tcp_connect, _listen, _send and _destroy.   *)
(* A handle that is not registered makes the call return at once, a        *)
(* stutter.                                                                *)
Call(t, handles, label) ==
    /\ pc[t] = "idle"
    /\ \E h \in handles \cap m_maplink :
         /\ Known(h)
         /\ on' = [on EXCEPT ![t] = h]
         /\ Reach(t, label, h)
    /\ b_self' = [b_self EXCEPT ![t] = TRUE]
    /\ UNCHANGED <<kernelVars, linkVars, workerVars, historyVars>>

HandlesFor(t, name) == IF name \in Calls[t] THEN Links ELSE {}
NewLinks == {l \in Links : link[l].m_link_type = "Null"}

CallConnect(t) ==
    Call(t, (HandlesFor(t, "connect") \cap NewLinks) \cup (HandlesFor(t, "again") \ NewLinks), "connect")
CallListen(t) ==
    Call(t, (HandlesFor(t, "listen") \cap NewLinks) \cup (HandlesFor(t, "again") \ NewLinks), "listen")
CallSend(t) == Call(t, HandlesFor(t, "send"), "send")
CallDestroy(t) == Call(t, HandlesFor(t, "destroy") \ Kept, "destroy")

-----------------------------------------------------------------------------
(* link_connect: the type is set first, then connect(2).  It starts a      *)
(* connection on a bound socket and may return 0 on one that is connected  *)
(* already; otherwise, and whenever the network refuses, the link loses    *)
(* its socket.                                                             *)
LinkConnect(t) ==
    LET l == on[t] IN
    /\ pc[t] = "connect"
    /\ link' = [link EXCEPT ![l].m_link_type = "Connect"]
    /\ \E f \in Loaded(t) :
         \/ /\ CanConnect(sock, f)
            /\ sock' = [sock EXCEPT ![f].st = "connecting"]
            /\ Goto(t, "connected")
         \/ /\ IsConnected(sock, f)
            /\ sock' = sock
            /\ Goto(t, "connected")
         \/ /\ sock' = sock
            /\ Reach(t, "refused", l)
    /\ UNCHANGED <<i_link, m_maplink, first, on, b_self, workerVars, historyVars>>

(* EVT_TCP_CONNECTED is sent when connect(2) returns, before the           *)
(* connection is up and before it is attached.                             *)
SendConnected(t) ==
    /\ pc[t] = "connected"
    /\ seen' = Told(link[on[t]].mh_link, "CONNECTED")
    /\ Reach(t, "attach", on[t])
    /\ UNCHANGED <<kernelVars, linkVars, on, b_self, workerVars, robbed>>

(* Variant: the event carries the first link's handle. *)
AttachFirst(t) ==
    /\ pc[t] = "attach"
    /\ sock' = attach_to_epoll(sock, Fd(on[t]), IF first = NoLink THEN on[t] ELSE first)
    /\ Goto(t, "idle")
    /\ UNCHANGED <<linkVars, on, b_self, workerVars, historyVars>>

(* attach_to_epoll at the end of ms_tcp_connect and ms_tcp_listen, on the  *)
(* descriptor the link has then and with the handle of the call; its       *)
(* result is not looked at.                                                *)
Attach(t) ==
    /\ pc[t] = "attach"
    /\ \/ \E f \in Loaded(t) : sock' = attach_to_epoll(sock, f, on[t])
       \/ "nomem" \in PeerActs /\ sock' = sock
    /\ Goto(t, "idle")
    /\ UNCHANGED <<linkVars, on, b_self, workerVars, historyVars>>

(* Variant: the refused socket is not closed. *)
ConnectRefusedLeaks(t) ==
    /\ pc[t] = "refused"
    /\ Goto(t, "refused_forget")
    /\ UNCHANGED <<kernelVars, linkVars, on, b_self, workerVars, historyVars>>

ConnectRefused(t) ==
    /\ pc[t] = "refused"
    /\ \E f \in Loaded(t) : Close(on[t], f)
    /\ Goto(t, "refused_forget")
    /\ UNCHANGED <<linkVars, on, b_self, workerVars, seen>>

(* Variant: mi_socket keeps the closed number. *)
ConnectForgetNot(t) ==
    /\ pc[t] = "refused_forget"
    /\ seen' = Told(link[on[t]].mh_link, "DISCONNECTED")
    /\ Goto(t, "idle")
    /\ UNCHANGED <<kernelVars, linkVars, on, b_self, workerVars, robbed>>

ConnectForget(t) ==
    /\ pc[t] = "refused_forget"
    /\ link' = [link EXCEPT ![on[t]].mi_socket = NoFd]
    /\ seen' = Told(link[on[t]].mh_link, "DISCONNECTED")
    /\ Goto(t, "idle")
    /\ UNCHANGED <<kernelVars, i_link, m_maplink, first, on, b_self, workerVars, robbed>>

(* link_listen.                                                            *)
LinkListen(t) ==
    LET l == on[t] IN
    /\ pc[t] = "listen"
    /\ link' = [link EXCEPT ![l].m_link_type = "Listen"]
    /\ \E f \in Loaded(t) :
         \/ /\ CanListen(sock, f)
            /\ sock' = [sock EXCEPT ![f].st = "listening"]
            /\ Reach(t, "attach", l)
         \/ /\ sock' = sock
            /\ Goto(t, "idle")
    /\ UNCHANGED <<i_link, m_maplink, first, on, b_self, workerVars, historyVars>>

(* link_send_data: write(2) on a number Loaded(t); it changes nothing that *)
(* is modelled of a socket.                                                *)
LinkSendData(t) ==
    /\ pc[t] = "send"
    /\ Goto(t, "idle")
    /\ UNCHANGED <<kernelVars, linkVars, on, b_self, workerVars, historyVars>>

-----------------------------------------------------------------------------
(* link_destroy, run by application threads and by the worker.             *)

(* Back to the caller: ms_tcp_destroy returns, the worker goes on with     *)
(* its batch or, out of on_event_read, to the RECV_END callback.           *)
Return(t) ==
    IF t # Worker THEN "idle" ELSE IF b_self[t] THEN "recv_end" ELSE "events"

(* Variant: CLOSED is sent before the link leaves the registry. *)
DestroyCheckFirstClosed(t) ==
    /\ pc[t] = "destroy"
    /\ seen' = Told(link[on[t]].mh_link, "CLOSED")
    /\ Reach(t, "del_link", on[t])
    /\ UNCHANGED <<kernelVars, linkVars, on, b_self, workerVars, robbed>>

DestroyCheckFirst(t) ==
    /\ pc[t] = "destroy"
    /\ Reach(t, IF link[on[t]].mh_link = first THEN "clear_first" ELSE "del_link", on[t])
    /\ UNCHANGED <<kernelVars, linkVars, on, b_self, workerVars, historyVars>>

DestroyClearFirst(t) ==
    /\ pc[t] = "clear_first"
    /\ first' = NoLink
    /\ Reach(t, "del_link", on[t])
    /\ UNCHANGED <<kernelVars, i_link, m_maplink, link, on, b_self, workerVars, historyVars>>

(* Variant: the link is detached but not erased from m_maplink. *)
DelLinkKeeps(t) ==
    /\ pc[t] = "del_link"
    /\ sock' = del_epoll_read(sock, Fd(on[t]))
    /\ Goto(t, "check")
    /\ UNCHANGED <<linkVars, on, b_self, workerVars, historyVars>>

(* del_link, under m_link_lock.  link_destroy ignores its result: a thread *)
(* that comes second goes on like the first.                               *)
DelLink(t) ==
    LET h == link[on[t]].mh_link IN
    /\ pc[t] = "del_link"
    /\ IF h \in m_maplink
       THEN /\ \E f \in Loaded(t) : sock' = del_epoll_read(sock, f)
            /\ m_maplink' = m_maplink \ {h}
       ELSE UNCHANGED <<sock, m_maplink>>
    /\ Goto(t, "check")
    /\ UNCHANGED <<i_link, link, first, on, b_self, workerVars, historyVars>>

DestroyCheckSocket(t) ==
    /\ pc[t] = "check"
    /\ IF Fd(on[t]) # NoFd THEN Reach(t, "close", on[t]) ELSE Goto(t, Return(t))
    /\ UNCHANGED <<kernelVars, linkVars, on, b_self, workerVars, historyVars>>

(* Variant: only a link_destroy that reports CLOSED closes the socket. *)
DestroyCloseSelf(t) ==
    /\ pc[t] = "close"
    /\ sock' = IF b_self[t] THEN CloseFd(sock, Fd(on[t])) ELSE sock
    /\ Goto(t, IF b_self[t] THEN "closed" ELSE "forget")
    /\ UNCHANGED <<linkVars, on, b_self, workerVars, historyVars>>

DestroyClose(t) ==
    /\ pc[t] = "close"
    /\ \E f \in Loaded(t) : Close(on[t], f)
    /\ Goto(t, IF b_self[t] THEN "closed" ELSE "forget")
    /\ UNCHANGED <<linkVars, on, b_self, workerVars, seen>>

DestroySendClosed(t) ==
    /\ pc[t] = "closed"
    /\ seen' = Told(link[on[t]].mh_link, "CLOSED")
    /\ Goto(t, "forget")
    /\ UNCHANGED <<kernelVars, linkVars, on, b_self, workerVars, robbed>>

DestroyForget(t) ==
    /\ pc[t] = "forget"
    /\ link' = [link EXCEPT ![on[t]].mi_socket = NoFd]
    /\ Goto(t, Return(t))
    /\ UNCHANGED <<kernelVars, i_link, m_maplink, first, on, b_self, workerVars, historyVars>>

-----------------------------------------------------------------------------
(* MsEpoll::worker_thread.                                                 *)

EpollWait ==
    /\ pc[Worker] = "wait"
    /\ batch' = Harvest(sock)
    /\ sock' = Quieted(sock)
    /\ Goto(Worker, "keepalive")
    /\ UNCHANGED <<linkVars, on, b_self, beat, h_accept, historyVars>>

(* The keepalive that every KeepPeriod-th round sends on the first link.   *)
Keepalive ==
    /\ pc[Worker] = "keepalive"
    /\ \/ /\ first = NoLink
          /\ Goto(Worker, "events")
          /\ UNCHANGED beat
       \/ /\ first # NoLink
          /\ beat = 0
          /\ Goto(Worker, "find_first")
          /\ UNCHANGED beat
       \/ /\ first # NoLink
          /\ beat # 0
          /\ Goto(Worker, "events")
          /\ beat' = (beat + 1) % KeepPeriod
    /\ UNCHANGED <<kernelVars, linkVars, on, b_self, batch, h_accept, historyVars>>

(* Variant: the counter does not wrap. *)
KeepaliveFindNoWrap ==
    /\ pc[Worker] = "find_first"
    /\ beat' = beat + 1
    /\ Goto(Worker, "events")
    /\ UNCHANGED <<kernelVars, linkVars, on, b_self, batch, h_accept, historyVars>>

(* g_ms_tcp_first_create_link is read a second time.  When it is not       *)
(* registered, `continue` goes back to epoll_wait and the batch is gone.   *)
KeepaliveFind ==
    /\ pc[Worker] = "find_first"
    /\ IF first \in m_maplink
       THEN /\ seen' = Told(link[first].mh_link, "KEEPALIVE")
            /\ beat' = (beat + 1) % KeepPeriod
            /\ Goto(Worker, "events")
            /\ UNCHANGED batch
       ELSE /\ batch' = {}
            /\ Goto(Worker, "wait")
            /\ UNCHANGED <<seen, beat>>
    /\ UNCHANGED <<kernelVars, linkVars, on, b_self, h_accept, robbed>>

(* One event of the batch: find_link, then the branch its mask and the     *)
(* type of the link select.  An event of a handle that is gone is skipped. *)
HandlerOf(l, ev) ==
    LET type == link[l].m_link_type IN
    IF "HUP" \in ev THEN "disconnected"
    ELSE IF type = "Listen" /\ "IN" \in ev THEN "accept"
    ELSE IF type \in {"Connected", "Accept"} /\ "IN" \in ev THEN "recv_begin"
    ELSE "events"

Dispatch ==
    /\ pc[Worker] = "events"
    /\ \E e \in batch :
         /\ batch' = batch \ {e}
         /\ IF e.h \in m_maplink
            THEN /\ on' = [on EXCEPT ![Worker] = e.h]
                 /\ Reach(Worker, HandlerOf(e.h, e.ev), e.h)
                 /\ b_self' = [b_self EXCEPT ![Worker] = "HUP" \notin e.ev]
                 \* on_event_connected: the type changes, nothing is read
                 /\ link' = IF /\ link[e.h].m_link_type = "Connect"
                               /\ "HUP" \notin e.ev
                               /\ e.ev # {}
                            THEN [link EXCEPT ![e.h].m_link_type = "Connected"]
                            ELSE link
            ELSE UNCHANGED <<on, b_self, link, pc, i_fd>>
    /\ UNCHANGED <<kernelVars, i_link, m_maplink, first, beat, h_accept, historyVars>>

EndBatch ==
    /\ pc[Worker] = "events"
    /\ batch = {}
    /\ Goto(Worker, "wait")
    /\ UNCHANGED <<kernelVars, linkVars, on, b_self, workerVars, historyVars>>

SendDisconnected ==
    /\ pc[Worker] = "disconnected"
    /\ seen' = Told(link[on[Worker]].mh_link, "DISCONNECTED")
    /\ Goto(Worker, "destroy")
    /\ UNCHANGED <<kernelVars, linkVars, on, b_self, workerVars, robbed>>

-----------------------------------------------------------------------------
(* on_event_accept: one round of its loop.                                 *)

(* Variant: the accepted number is left in the listening link. *)
AcceptOver ==
    LET f == Fd(on[Worker]) IN
    /\ pc[Worker] = "accept"
    /\ IF StateOf(sock, f) = "listening" /\ sock[f].rx > 0 /\ FreeFds(sock) # {}
       THEN /\ i_link < MaxLinks
            /\ \E g \in FreeFds(sock) :
                 /\ sock' = [sock EXCEPT ![f].rx = @ - 1, ![g] = Fresh(i_link + 1, "up")]
                 /\ link' = [link EXCEPT ![on[Worker]].mi_socket = g,
                                         ![i_link + 1].mi_socket = g,
                                         ![i_link + 1].m_link_type = "Accept"]
            /\ i_link' = i_link + 1
            /\ m_maplink' = m_maplink \cup {i_link + 1}
            /\ h_accept' = i_link + 1
            /\ Goto(Worker, "accept_attach")
       ELSE /\ Goto(Worker, "events")
            /\ UNCHANGED <<sock, link, i_link, m_maplink, h_accept>>
    /\ UNCHANGED <<first, on, b_self, beat, batch, historyVars>>

(* accept(2) and add_tcp_link.  The new object is nobody else's before     *)
(* add_tcp_link.  When accept fails (no connection waits, the descriptor   *)
(* is no listening socket, no number is free) the loop ends.               *)
Accept ==
    /\ pc[Worker] = "accept"
    /\ \E f \in Loaded(Worker) :
         IF StateOf(sock, f) = "listening" /\ sock[f].rx > 0 /\ FreeFds(sock) # {}
         THEN /\ i_link < MaxLinks                          \* bound
              /\ \E g \in FreeFds(sock) :
                   /\ sock' = [sock EXCEPT ![f].rx = @ - 1, ![g] = Fresh(i_link + 1, "up")]
                   /\ link' = [link EXCEPT ![i_link + 1].mi_socket = g,
                                           ![i_link + 1].m_link_type = "Accept"]
              /\ i_link' = i_link + 1
              /\ m_maplink' = m_maplink \cup {i_link + 1}
              /\ h_accept' = i_link + 1
              /\ Goto(Worker, "accept_attach")
         ELSE /\ Goto(Worker, "events")
              /\ UNCHANGED <<sock, link, i_link, m_maplink, h_accept>>
    /\ UNCHANGED <<first, on, b_self, beat, batch, historyVars>>

(* set_link and attach_to_epoll; a link that cannot be attached stays      *)
(* registered and is never reported.                                       *)
AcceptAttach ==
    LET f == Fd(h_accept) IN
    /\ pc[Worker] = "accept_attach"
    /\ link' = [link EXCEPT ![h_accept].mh_link = h_accept]
    /\ \/ /\ CanAttach(sock, f)
          /\ sock' = attach_to_epoll(sock, f, h_accept)
          /\ Goto(Worker, "accepted")
       \/ /\ ~CanAttach(sock, f) \/ "nomem" \in PeerActs
          /\ Reach(Worker, "accept", on[Worker])
          /\ sock' = sock
    /\ UNCHANGED <<i_link, m_maplink, first, on, b_self, workerVars, historyVars>>

(* Variant: the new handle is not reported. *)
SendAcceptedNot ==
    /\ pc[Worker] = "accepted"
    /\ Reach(Worker, "accept", on[Worker])
    /\ UNCHANGED <<kernelVars, linkVars, on, b_self, workerVars, historyVars>>

(* The EVT_TCP_ACCEPTED callback of the listening link carries the new     *)
(* handle.                                                                 *)
SendAccepted ==
    /\ pc[Worker] = "accepted"
    /\ seen' = Told(h_accept, "ACCEPTED")
    /\ Reach(Worker, "accept", on[Worker])
    /\ UNCHANGED <<kernelVars, linkVars, on, b_self, workerVars, robbed>>

-----------------------------------------------------------------------------
(* on_event_read: STATUS_RECV_BEGIN, before the loop.                      *)
ReadBegin ==
    /\ pc[Worker] = "recv_begin"
    /\ seen' = Told(link[on[Worker]].mh_link, "RECV_BEGIN")
    /\ Reach(Worker, "read", on[Worker])
    /\ UNCHANGED <<kernelVars, linkVars, on, b_self, workerVars, robbed>>

(* One read(2) of the loop.  A segment is what one read returns.           *)
Read ==
    LET l == on[Worker] IN
    /\ pc[Worker] = "read"
    /\ \E f \in Loaded(Worker) : LET s == StateOf(sock, f) IN
         \/ /\ s \in {"up", "fin"}                          \* bytes
            /\ sock[f].rx > 0
            /\ sock' = [sock EXCEPT ![f].rx = @ - 1]
            /\ Goto(Worker, "middle")
         \/ /\ s = "reset" \/ (s = "fin" /\ sock[f].rx = 0)   \* ECONNRESET, 0
            /\ Reach(Worker, "read_gone", l)
            /\ UNCHANGED sock
         \/ /\ s \notin {"fin", "reset"}                    \* EAGAIN, EBADF, ENOTCONN
            /\ s = "up" => sock[f].rx = 0
            /\ Goto(Worker, "recv_end")
            /\ UNCHANGED sock
         \/ /\ "eintr" \in PeerActs                         \* EINTR
            /\ s = "up"
            /\ sock' = mod_epoll_read(sock, f, link[l].mh_link)
            /\ Goto(Worker, "recv_end")
    /\ UNCHANGED <<linkVars, on, b_self, workerVars, historyVars>>

(* Variant: one read per event. *)
ReadMiddleOnce ==
    /\ pc[Worker] = "middle"
    /\ seen' = Told(link[on[Worker]].mh_link, "RECEIVEDATA")
    /\ Goto(Worker, "recv_end")
    /\ UNCHANGED <<kernelVars, linkVars, on, b_self, workerVars, robbed>>

(* EVT_TCP_RECEIVEDATA, STATUS_RECV_MIDDLE, with the bytes.                *)
ReadMiddle ==
    /\ pc[Worker] = "middle"
    /\ seen' = Told(link[on[Worker]].mh_link, "RECEIVEDATA")
    /\ Reach(Worker, "read", on[Worker])
    /\ UNCHANGED <<kernelVars, linkVars, on, b_self, workerVars, robbed>>

(* The connection is gone: del_epoll_read, then link_destroy().            *)
ReadGone ==
    /\ pc[Worker] = "read_gone"
    /\ \E f \in Loaded(Worker) : sock' = del_epoll_read(sock, f)
    /\ Goto(Worker, "destroy")
    /\ UNCHANGED <<linkVars, on, b_self, workerVars, historyVars>>

(* STATUS_RECV_END is sent however the loop ended.                         *)
ReadEnd ==
    /\ pc[Worker] = "recv_end"
    /\ seen' = Told(link[on[Worker]].mh_link, "RECV_END")
    /\ Goto(Worker, "events")
    /\ UNCHANGED <<kernelVars, linkVars, on, b_self, workerVars, robbed>>

-----------------------------------------------------------------------------
(* The other ends and the network.                                         *)
Peer(act, f, s) ==
    /\ act \in PeerActs
    /\ sock' = [sock EXCEPT ![f] = Edge(s)]
    /\ UNCHANGED <<linkVars, workerVars, threadVars, historyVars>>

PeerDials(f) ==         \* a connection enters the backlog
    /\ sock[f].st = "listening" /\ sock[f].rx = 0
    /\ HandleLeft                                           \* bound
    /\ Peer("dial", f, [sock[f] EXCEPT !.rx = 1])
PeerAnswers(f) ==       \* connect(2) completes
    /\ sock[f].st = "connecting"
    /\ Peer("answer", f, [sock[f] EXCEPT !.st = "up"])
PeerSends(f) ==
    /\ sock[f].st = "up" /\ sock[f].rx < MaxRx
    /\ Peer("data", f, [sock[f] EXCEPT !.rx = @ + 1])
PeerCloses(f) ==
    /\ sock[f].st = "up"
    /\ Peer("fin", f, [sock[f] EXCEPT !.st = "fin"])
PeerResets(f) ==        \* also: the connection attempt fails
    /\ sock[f].st \in {"connecting", "up", "fin"}
    /\ Peer("reset", f, [sock[f] EXCEPT !.st = "reset", !.rx = 0])

-----------------------------------------------------------------------------
DestroyStep(t) ==
    \/ DestroyCheckFirst(t) \/ DestroyClearFirst(t) \/ DelLink(t)
    \/ DestroyCheckSocket(t) \/ DestroyClose(t) \/ DestroySendClosed(t)
    \/ DestroyForget(t)

(* A thread inside a call, and the calls it may make next. *)
InCall(t) ==
    \/ CreateAnnounce(t) \/ CreateCheckFirst(t) \/ CreateSetFirst(t)
    \/ LinkConnect(t) \/ SendConnected(t) \/ Attach(t)
    \/ ConnectRefused(t) \/ ConnectForget(t)
    \/ LinkListen(t) \/ LinkSendData(t) \/ DestroyStep(t)

AppStep(t) ==
    \/ Create(t) \/ CallConnect(t) \/ CallListen(t) \/ CallSend(t) \/ CallDestroy(t)
    \/ InCall(t)

WorkerStep ==
    \/ EpollWait \/ Keepalive \/ KeepaliveFind \/ Dispatch \/ EndBatch
    \/ SendDisconnected \/ DestroyStep(Worker)
    \/ Accept \/ AcceptAttach \/ SendAccepted
    \/ ReadBegin \/ Read \/ ReadMiddle \/ ReadGone \/ ReadEnd

ReadBytes == Read /\ pc'[Worker] = "middle"

PeerStep ==
    \E f \in Fds : PeerDials(f) \/ PeerAnswers(f) \/ PeerSends(f)
                     \/ PeerCloses(f) \/ PeerResets(f)

Next == (\E t \in App : AppStep(t)) \/ WorkerStep \/ PeerStep

Spec == Init /\ [][Next]_vars

(* The worker thread is always scheduled again, and a call, once made,     *)
(* runs on: nothing in them blocks for ever.  Calls and peers owe nothing. *)
(* A signal does not interrupt every read of a socket that has bytes.      *)
Fairness == /\ WF_vars(WorkerStep)
            /\ \A t \in App : WF_vars(InCall(t))
            /\ SF_vars(ReadBytes)
FairSpec == Spec /\ Fairness

-----------------------------------------------------------------------------
(* Every variable has the type the code declares it with, and each thread  *)
(* that is inside a call works on a link.                                  *)
Outside == {"idle", "wait", "keepalive", "find_first", "events"}

LinksOK ==
    /\ i_link \in 0 .. MaxLinks
    /\ m_maplink \in SUBSET (1 .. i_link)
    /\ link \in [Links -> LinkObject]
    /\ first \in LinkOrNone

ThreadsOK ==
    /\ pc \in [Threads -> AppPcs \cup WorkerPcs]
    /\ \A t \in App : pc[t] \in AppPcs
    /\ pc[Worker] \in WorkerPcs
    /\ on \in [Threads -> LinkOrNone]
    /\ \A t \in Threads : pc[t] \notin Outside => on[t] \in Links
    /\ i_fd \in [Threads -> FdOrNone]
    /\ b_self \in [Threads -> BOOLEAN]

WorkerOK ==
    /\ beat \in 0 .. KeepPeriod - 1
    /\ batch \in SUBSET [h : LinkOrNone, ev : SUBSET {"HUP", "IN", "OUT"}]
    /\ h_accept \in LinkOrNone
    /\ pc[Worker] \in {"accept_attach", "accepted"} => h_accept \in Links

HistoryOK ==
    /\ seen \in [Links -> SUBSET EventNames]
    /\ robbed \in SUBSET Links

TypeOK == sock \in SocketTable /\ LinksOK /\ ThreadsOK /\ WorkerOK /\ HistoryOK

(* As long as the socket of a link is open, every system call that the     *)
(* calls on the link and the worker are about to make for it works on this *)
(* socket and no other one, however often descriptor numbers are used      *)
(* again and whatever the other threads do.  Only a thread that is still   *)
(* inside a call on a link whose socket another thread has closed can be   *)
(* left with a number that is somebody else's.                             *)
SystemCallPcs == {"connect", "attach", "refused", "listen", "send", "del_link", "close",
                  "accept", "read", "read_gone"}

OwnSocketOnly ==
    \A f \in Fds : LET l == sock[f].owner IN l # NoLink =>
        /\ \A t \in Threads : pc[t] \in SystemCallPcs /\ on[t] = l => Loaded(t) = {f}
        /\ pc[Worker] = "accept_attach" /\ h_accept = l => Fd(l) = f

AtRest == pc[Worker] = "wait" /\ \A t \in App : pc[t] = "idle"

(* No descriptor is lost: whenever no call and no batch is in progress,    *)
(* every open socket is the socket of a link that is registered, so        *)
(* ms_tcp_destroy or free_all_link_map can still close it.                 *)
NoSocketLost ==
    AtRest => \A f \in Fds : IsOpen(sock, f) =>
                 LET l == sock[f].owner IN l \in m_maplink /\ Fd(l) = f

(* And the other way round: a registered link never holds the number of a  *)
(* descriptor that is closed or has become somebody else's, unless a close *)
(* that two threads made for another link has hit its socket.              *)
NoStaleDescriptor ==
    AtRest => \A l \in m_maplink \ robbed : Fd(l) # NoFd => OwnerOf(sock, Fd(l)) = l

(* No callback names a handle before the CREATED or ACCEPTED callback that *)
(* introduces it, whichever thread makes the callbacks.                    *)
AnnouncedFirst == \A l \in Links : seen[l] # {} => Known(l)

(* When the application is told CLOSED the handle is out of the registry,  *)
(* so whatever it does in reaction cannot reach the dying link.            *)
ClosedIsGone == \A l \in Links : "CLOSED" \in seen[l] => l \notin m_maplink

(* The registry and the callbacks implement LinkTable: at every step of    *)
(* every thread a handle goes from registered to announced to gone, once,  *)
(* and CLOSED is said only of a handle that is gone.                       *)
PhaseOf(h) == IF h > i_link THEN "unborn"
              ELSE IF h \notin m_maplink THEN "gone"
              ELSE IF Known(h) THEN "announced" ELSE "registered"

Table == INSTANCE LinkTable WITH
             Handles <- Links,
             phase <- [h \in Links |-> PhaseOf(h)],
             told <- {h \in Links : seen[h] # {}},
             closed <- {h \in Links : "CLOSED" \in seen[h]}

ImplementsLinkTable == Table!TableSpec

(* Why the three hold: HandleInv, which every step preserves.              *)

Accepting == {"accept_attach", "accepted"}
GonePcs == {"check", "close", "closed", "forget"}

OwnHandle == \A l \in Links : link[l].mh_link \in {NoLink, l}
KnownIsSet == \A l \in Links : Known(l) => l <= i_link /\ link[l].mh_link = l

(* Whoever works on a link, other than to introduce it, knows its handle,  *)
(* and so do the places a handle comes from: the first link, the events of *)
(* the batch, the tags of the epoll set.                                   *)
ThreadsKnow == \A t \in Threads : pc[t] \notin Outside \cup {"set_link"} => Known(on[t])
SourcesKnown == /\ first # NoLink => Known(first)
                /\ \A e \in batch : e.h # NoLink => Known(e.h)
TagsKnown ==
    \A f \in Fds : sock[f].tag # NoLink =>
        Known(sock[f].tag) \/ (pc[Worker] = "accepted" /\ sock[f].tag = h_accept)

(* A link is introduced by one thread, which is the only one to have it.   *)
Introduced ==
    /\ \A t \in App : pc[t] = "set_link" =>
          /\ on[t] \in m_maplink /\ ~Known(on[t])
          /\ pc[Worker] \in Accepting => on[t] # h_accept
          /\ \A u \in App \ {t} : pc[u] = "set_link" => on[u] # on[t]
    /\ pc[Worker] \in Accepting => h_accept \in m_maplink /\ ~Known(h_accept)
    /\ pc[Worker] = "accepted" => link[h_accept].mh_link = h_accept
    /\ pc[Worker] # "set_link"

GoneStays == \A t \in Threads : pc[t] \in GonePcs => on[t] \notin m_maplink

(* The invariant behind the introduction of handles and their end: nothing *)
(* in the library holds a handle the application has not been told of,     *)
(* except the thread about to tell it, and a link that is being closed     *)
(* never comes back into m_maplink.                                        *)
HandleInv ==
    /\ OwnHandle /\ KnownIsSet /\ AnnouncedFirst /\ ThreadsKnow /\ SourcesKnown
    /\ TagsKnown /\ Introduced /\ GoneStays /\ ClosedIsGone

(* DISCONNECTED is said of a link only when the link's own connection has  *)
(* ended or failed; a report that reached the wrong link, through a reused *)
(* descriptor or a mixed-up handle, would say it of one that is up.        *)
DisconnectedIsDown ==
    [][\A l \in Links :
          ("DISCONNECTED" \in seen'[l] /\ "DISCONNECTED" \notin seen[l])
            => \A f \in Fds : sock'[f].owner = l => sock'[f].st \in {"fin", "reset"}]_vars

(* n connections wait to be accepted, or n segments to be read, of link l. *)
Pending(l, n) ==
    \E f \in Fds : /\ sock[f].owner = l
                   /\ sock[f].st \in {"listening", "up"}
                   /\ sock[f].rx = n

(* What is pending does not stay: the worker accepts it or reads it, or    *)
(* the socket goes.  The sets are edge-triggered, so a handler that leaves *)
(* something behind is not called again for it.                            *)
PendingIsServed ==
    \A l \in Links, n \in 1 .. MaxRx : Pending(l, n) ~> ~Pending(l, n)
=============================================================================
