------------------------ MODULE TcpLinkSocket_proofs ------------------------
(***************************************************************************)
(* Sockets, whatever the application calls and from however many threads:  *)
(* none is lost; DISCONNECTED is said of a link only when its own          *)
(* connection is down; as long as the socket of a link is open every call  *)
(* for the link works on it; and no link holds a number that has become    *)
(* somebody else's, unless its socket was closed through a stale number.   *)
(***************************************************************************)
EXTENDS TcpLink_proofs

-----------------------------------------------------------------------------
(* A descriptor is a bare number, and any thread may hold an old one.  But *)
(* as long as a link's socket is open, the link's mi_socket is its number, *)
(* and a thread that has loaded mi_socket has loaded that number.          *)

Owned(l) == {f \in Fds : sock[f].owner = l}
Down(l) == \A f \in Owned(l) : sock[f].st \in {"fin", "reset"}

ClosedPcs == {"closed", "forget", "refused_forget"}

OwnersBorn == \A f \in Fds : sock[f].owner <= i_link
OwnFd == \A f \in Fds : sock[f].owner # NoLink => Fd(sock[f].owner) = f
HeldFd == \A t \in Threads : pc[t] \in SystemCallPcs => \A f \in Owned(on[t]) : i_fd[t] = f
ClosedHasNone == \A t \in Threads : pc[t] \in ClosedPcs => Owned(on[t]) = {}
OpenIsHeld ==
    \A f \in Fds : sock[f].owner # NoLink =>
        \/ sock[f].owner \in m_maplink
        \/ \E t \in Threads : on[t] = sock[f].owner /\ pc[t] \in {"check", "close"}

(* The epoll set reports an own socket under the link's handle, or the     *)
(* link has none any more; and only a socket that has left "bound" is      *)
(* attached: of a bound one epoll says EPOLLHUP.                           *)
NotBound(l) == \A f \in Owned(l) : sock[f].st # "bound"
TagsOwn == \A f \in Fds : sock[f].tag # NoLink => sock[f].owner = sock[f].tag \/ Owned(sock[f].tag) = {}
AttachedOnce ==
    /\ \A f \in Fds : sock[f].tag # NoLink => NotBound(sock[f].tag)
    /\ \A t \in Threads : pc[t] \in {"connected", "attach"} => NotBound(on[t])
    /\ pc[Worker] \in Accepting => NotBound(h_accept)
HupIsDown ==
    /\ \A e \in batch : e.h # NoLink /\ "HUP" \in e.ev => Down(e.h)
    /\ pc[Worker] = "disconnected" => Down(on[Worker])

SocketInv ==
    /\ OwnersBorn /\ OwnFd /\ HeldFd /\ ClosedHasNone /\ OpenIsHeld
    /\ TagsOwn /\ AttachedOnce /\ HupIsDown

-----------------------------------------------------------------------------
(* Most steps are calm: they open no socket.  In a calm step sockets are   *)
(* kept or closed, only good tags are set, and the threads that move load  *)
(* a number, are past the close or have no socket to speak of.             *)

OwnedN(l) == {f \in Fds : sock'[f].owner = l}
DownN(l) == \A f \in OwnedN(l) : sock'[f].st \in {"fin", "reset"}
NotBoundN(l) == \A f \in OwnedN(l) : sock'[f].st # "bound"

CalmSocket(f) ==
    /\ sock'[f].owner \in {sock[f].owner, NoLink}
    /\ sock'[f].owner # NoLink =>
          /\ sock'[f].st = "bound" => sock[f].st = "bound"
          /\ sock[f].st \in {"fin", "reset"} => sock'[f].st \in {"fin", "reset"}
    /\ \/ sock'[f].tag = NoLink
       \/ sock'[f].tag = sock[f].tag /\ sock'[f].owner = sock[f].owner
       \/ /\ sock'[f].owner = sock'[f].tag \/ OwnedN(sock'[f].tag) = {}
          /\ NotBoundN(sock'[f].tag)
CalmSockets == \A f \in Fds : CalmSocket(f)
CalmLinks ==
    /\ i_link' = i_link
    /\ \A l \in Links : link'[l].mi_socket = Fd(l) \/ OwnedN(l) = {}
    /\ \A l \in m_maplink \ m_maplink' : \E t \in Threads : on'[t] = l /\ pc'[t] \in {"check", "close"}
CalmWorker ==
    /\ \A e \in batch' : e \in batch \/ (e.h # NoLink /\ "HUP" \in e.ev => DownN(e.h))
    /\ pc'[Worker] \in Accepting => pc[Worker] \in Accepting /\ h_accept' = h_accept
CalmThread(t) ==
    \/ pc'[t] = pc[t] /\ on'[t] = on[t] /\ i_fd'[t] = i_fd[t]
    \/ /\ pc'[t] \in SystemCallPcs => \A f \in OwnedN(on'[t]) : i_fd'[t] = f
       /\ pc'[t] \in ClosedPcs => OwnedN(on'[t]) = {}
       /\ pc[t] \in {"check", "close"} =>
             OwnedN(on[t]) = {} \/ (on'[t] = on[t] /\ pc'[t] \in {"check", "close"})
       /\ pc'[t] \in {"connected", "attach"} => NotBoundN(on'[t])
       /\ pc'[t] = "disconnected" => DownN(on'[t])
Calm == CalmSockets /\ CalmLinks /\ CalmWorker /\ \A t \in Threads : CalmThread(t)

LEMMA SocketFacts ==
    ASSUME Assumptions, TypeOK
    PROVE  /\ Worker \in Threads /\ App \subseteq Threads /\ Worker \notin App
           /\ \A f \in Fds : sock[f] \in Socket
           /\ \A l \in Links : l # NoLink /\ link[l] \in LinkObject
           /\ \A t \in Threads : on[t] \in LinkOrNone /\ (pc[t] \notin Outside => on[t] \in Links)
           /\ i_link \in Nat /\ \A l \in m_maplink : l \in Links /\ l <= i_link
           /\ NoFd \notin Fds
  BY DEF Assumptions, TcpLinkAssumption, SocketsAssumption, TypeOK, ThreadsOK, LinksOK, SocketTable,
     Threads, Links, NoLink

LEMMA CalmKeeps ==
    ASSUME CalmSockets, NEW l, l # NoLink
    PROVE  /\ OwnedN(l) \subseteq Owned(l)
           /\ NotBound(l) => NotBoundN(l)
           /\ Down(l) => DownN(l)
  BY DEF CalmSockets, CalmSocket, OwnedN, Owned, NotBound, NotBoundN, Down, DownN

LEMMA CalmStep ==
    ASSUME Assumptions, TypeOK, TypeOK', SocketInv, Calm
    PROVE  SocketInv'
<1> USE DEF Calm, SocketInv
<1>1. /\ \A l : Owned(l)' = OwnedN(l)
      /\ \A l \in Links : l # NoLink
      /\ \A f \in Fds : sock[f].owner \in LinkOrNone /\ sock[f].tag \in LinkOrNone
      /\ \A f \in Fds : sock'[f].owner \in LinkOrNone /\ sock'[f].tag \in LinkOrNone
      /\ \A e \in batch' : e.h \in LinkOrNone
      /\ \A t \in Threads : pc[t] \notin Outside => on[t] \in Links
      /\ \A t \in Threads : pc'[t] \notin Outside => on'[t] \in Links
      /\ \A l \in Links : Fd(l)' = link'[l].mi_socket
      /\ i_link \in Nat /\ Worker \in Threads
  BY DEF Assumptions, TcpLinkAssumption, SocketsAssumption, TypeOK, ThreadsOK, LinksOK, WorkerOK,
     SocketTable, Socket, Threads, Links, NoLink, Owned, OwnedN, Fd
<1>2. OwnersBorn'
  BY <1>1 DEF OwnersBorn, CalmSockets, CalmSocket, CalmLinks, NoLink
<1>3. OwnFd'
  <2> SUFFICES ASSUME NEW f \in Fds, sock'[f].owner # NoLink
               PROVE  link'[sock'[f].owner].mi_socket = f
    BY DEF OwnFd, Fd
  <2>1. sock'[f].owner = sock[f].owner /\ sock[f].owner \in Links
    BY <1>1 DEF CalmSockets, CalmSocket, LinkOrNone
  <2>2. f \in OwnedN(sock[f].owner)
    BY <2>1 DEF OwnedN
  <2> QED
    BY <2>1, <2>2 DEF OwnFd, CalmLinks
<1>4. HeldFd'
  <2> SUFFICES ASSUME NEW t \in Threads, pc'[t] \in SystemCallPcs, NEW f \in OwnedN(on'[t])
               PROVE  i_fd'[t] = f
    BY <1>1 DEF HeldFd, Owned, OwnedN
  <2>1. on'[t] \in Links
    BY <1>1 DEF SystemCallPcs, Outside
  <2>2. f \in Owned(on'[t])
    BY <1>1, <2>1, CalmKeeps
  <2> QED
    BY <2>2 DEF CalmThread, HeldFd
<1>5. ClosedHasNone'
  <2> SUFFICES ASSUME NEW t \in Threads, pc'[t] \in ClosedPcs
               PROVE  OwnedN(on'[t]) = {}
    BY <1>1 DEF ClosedHasNone, Owned, OwnedN
  <2>1. on'[t] \in Links
    BY <1>1 DEF ClosedPcs, Outside
  <2>2. OwnedN(on'[t]) \subseteq Owned(on'[t])
    BY <1>1, <2>1, CalmKeeps
  <2> QED
    BY <2>2 DEF CalmThread, ClosedHasNone
<1>6. OpenIsHeld'
  <2> SUFFICES ASSUME NEW f \in Fds, sock'[f].owner # NoLink
               PROVE  \/ sock'[f].owner \in m_maplink'
                      \/ \E t \in Threads : on'[t] = sock'[f].owner /\ pc'[t] \in {"check", "close"}
    BY DEF OpenIsHeld
  <2>1. sock'[f].owner = sock[f].owner /\ f \in OwnedN(sock[f].owner)
    BY DEF CalmSockets, CalmSocket, OwnedN
  <2>2. CASE sock[f].owner \in m_maplink
    BY <2>1, <2>2 DEF CalmLinks
  <2>3. ASSUME NEW t \in Threads, on[t] = sock[f].owner, pc[t] \in {"check", "close"}
        PROVE  on'[t] = sock'[f].owner /\ pc'[t] \in {"check", "close"}
    BY <2>1, <2>3 DEF CalmThread
  <2> QED
    BY <2>1, <2>2, <2>3 DEF OpenIsHeld
<1>7. TagsOwn'
  <2> SUFFICES ASSUME NEW f \in Fds, sock'[f].tag # NoLink
               PROVE  sock'[f].owner = sock'[f].tag \/ OwnedN(sock'[f].tag) = {}
    BY <1>1 DEF TagsOwn, Owned, OwnedN
  <2>1. OwnedN(sock'[f].tag) \subseteq Owned(sock'[f].tag)
    BY CalmKeeps
  <2> QED
    BY <2>1 DEF CalmSockets, CalmSocket, TagsOwn
<1>8. AttachedOnce'
  <2>1. ASSUME NEW f \in Fds, sock'[f].tag # NoLink
        PROVE  NotBoundN(sock'[f].tag)
    <3>1. NotBound(sock'[f].tag) => NotBoundN(sock'[f].tag)
      BY <2>1, CalmKeeps
    <3> QED
      BY <2>1, <3>1 DEF CalmSockets, CalmSocket, AttachedOnce
  <2>2. ASSUME NEW t \in Threads, pc'[t] \in {"connected", "attach"}
        PROVE  NotBoundN(on'[t])
    <3>1. on'[t] \in Links
      BY <1>1, <2>2 DEF Outside
    <3>2. NotBound(on'[t]) => NotBoundN(on'[t])
      BY <1>1, <3>1, CalmKeeps
    <3> QED
      BY <2>2, <3>2 DEF CalmThread, AttachedOnce
  <2>3. ASSUME pc'[Worker] \in Accepting
        PROVE  NotBoundN(h_accept')
    <3>1. h_accept' \in Links
      BY <2>3 DEF TypeOK, WorkerOK, Accepting
    <3>2. NotBound(h_accept') => NotBoundN(h_accept')
      BY <1>1, <3>1, CalmKeeps
    <3> QED
      BY <2>3, <3>2 DEF CalmWorker, AttachedOnce
  <2> QED
    BY <2>1, <2>2, <2>3 DEF AttachedOnce, NotBound, NotBoundN, Owned, OwnedN
<1>9. HupIsDown'
  <2>1. ASSUME NEW e \in batch', e.h # NoLink, "HUP" \in e.ev
        PROVE  DownN(e.h)
    <3>1. Down(e.h) => DownN(e.h)
      BY <2>1, CalmKeeps
    <3> QED
      BY <2>1, <3>1 DEF CalmWorker, HupIsDown
  <2>2. ASSUME pc'[Worker] = "disconnected"
        PROVE  DownN(on'[Worker])
    <3>1. on'[Worker] \in Links
      BY <1>1, <2>2 DEF Outside
    <3>2. Down(on'[Worker]) => DownN(on'[Worker])
      BY <1>1, <3>1, CalmKeeps
    <3> QED
      BY <1>1, <2>2, <3>2 DEF CalmThread, HupIsDown
  <2> QED
    BY <2>1, <2>2 DEF HupIsDown, Down, DownN, Owned, OwnedN
<1> QED
  BY <1>2, <1>3, <1>4, <1>5, <1>6, <1>7, <1>8, <1>9

-----------------------------------------------------------------------------
(* What makes the parts of a step calm. *)

LEMMA FrameCalm ==
    ASSUME Assumptions, TypeOK, SocketInv
    PROVE  /\ sock' = sock => CalmSockets
           /\ UNCHANGED <<i_link, m_maplink>> /\ (\A l \in Links : link'[l].mi_socket = link[l].mi_socket)
                 => CalmLinks
           /\ UNCHANGED <<batch, h_accept>> /\ (pc'[Worker] \in Accepting => pc[Worker] \in Accepting)
                 => CalmWorker
<1>1. sock' = sock => CalmSockets
  <2> SUFFICES ASSUME sock' = sock, NEW f \in Fds PROVE CalmSocket(f)
    BY DEF CalmSockets
  <2> QED
    BY DEF CalmSocket
<1> QED
  BY <1>1 DEF CalmLinks, CalmWorker, Fd

(* Sockets are closed, detached and quieted, and states change.            *)
LEMMA KeptCalm ==
    ASSUME Assumptions, TypeOK, SocketInv,
           \A f \in Fds :
              \/ sock'[f] = Unused
              \/ /\ sock'[f].owner = sock[f].owner /\ sock'[f].tag \in {sock[f].tag, NoLink}
                 /\ sock'[f].st = "bound" => sock[f].st = "bound"
                 /\ sock[f].st \in {"fin", "reset"} => sock'[f].st \in {"fin", "reset"}
    PROVE  CalmSockets
  BY DEF CalmSockets, CalmSocket, Unused

LEMMA OpsCalm ==
    ASSUME Assumptions, TypeOK, SocketInv, NEW f,
           sock' \in {del_epoll_read(sock, f), CloseFd(sock, f), Quieted(sock)}
    PROVE  CalmSockets
<1>1. sock \in SocketTable
  BY DEF TypeOK
<1>2. CASE sock' = del_epoll_read(sock, f)
  BY <1>1, <1>2, KeptCalm DEF del_epoll_read, IsOpen, SocketTable, Socket
<1>3. CASE sock' = CloseFd(sock, f)
  BY <1>1, <1>3, KeptCalm DEF CloseFd, SocketTable, Socket
<1>4. CASE sock' = Quieted(sock)
  BY <1>1, <1>4, KeptCalm DEF Quieted, SocketTable, Socket
<1> QED
  BY <1>2, <1>3, <1>4

(* A socket is attached for link h: it is h's own, or h has none.          *)
LEMMA AttachCalm ==
    ASSUME Assumptions, TypeOK, SocketInv, NEW f, NEW h \in Links,
           \A g \in Owned(h) : g = f /\ sock[g].st # "bound",
           sock' \in {attach_to_epoll(sock, f, h), mod_epoll_read(sock, f, h)}
    PROVE  CalmSockets
<1>1. sock \in SocketTable /\ h # NoLink
  BY DEF TypeOK, Links, NoLink
<1>2. CASE sock' = sock
  BY <1>2, FrameCalm
<1>3. CASE IsOpen(sock, f) /\ sock' = [sock EXCEPT ![f] = Armed(sock[f], h)]
  <2>1. f \in Fds /\ sock[f] \in Socket
    BY <1>1, <1>3 DEF IsOpen, SocketTable
  <2>2. /\ sock'[f].owner = sock[f].owner /\ sock'[f].st = sock[f].st /\ sock'[f].tag = h
        /\ \A g \in Fds \ {f} : sock'[g] = sock[g]
    BY <1>1, <1>3, <2>1 DEF Armed, SocketTable, Socket
  <2>3. OwnedN(h) = Owned(h)
    BY <2>1, <2>2 DEF OwnedN, Owned
  <2>4. sock[f].owner = h \/ Owned(h) = {}
    BY DEF Owned
  <2>5. NotBoundN(h)
    BY <2>1, <2>2, <2>3 DEF NotBoundN
  <2>6. CalmSocket(f)
    BY <2>2, <2>3, <2>4, <2>5 DEF CalmSocket
  <2>7. ASSUME NEW g \in Fds \ {f} PROVE CalmSocket(g)
    BY <2>2 DEF CalmSocket
  <2> QED
    BY <2>6, <2>7 DEF CalmSockets
<1>4. CASE sock' = attach_to_epoll(sock, f, h)
  BY <1>2, <1>3, <1>4 DEF attach_to_epoll, CanAttach
<1>5. CASE sock' = mod_epoll_read(sock, f, h)
  BY <1>2, <1>3, <1>5 DEF mod_epoll_read
<1> QED
  BY <1>4, <1>5

(* What a thread has loaded is its link's socket, if the link has one.     *)
LEMMA LoadedHeld ==
    ASSUME Assumptions, TypeOK, SocketInv, NEW t \in Threads, pc[t] \in SystemCallPcs, NEW f \in Loaded(t)
    PROVE  \A g \in Owned(on[t]) : g = f
<1>1. on[t] \in Links /\ on[t] # NoLink
  BY SocketFacts DEF SystemCallPcs, Outside
<1> QED
  BY <1>1 DEF SocketInv, HeldFd, OwnFd, Owned, Loaded

(* A thread moves on within its call.                                      *)
LEMMA ThreadCalm ==
    ASSUME Assumptions, TypeOK, SocketInv, NEW t \in Threads, NEW label,
           Goto(t, label) \/ Reach(t, label, on[t]), on' = on, CalmSockets,
           pc[t] \notin Outside,
           label \in SystemCallPcs => Reach(t, label, on[t]),
           label \in ClosedPcs => OwnedN(on[t]) = {},
           pc[t] \in {"check", "close"} => OwnedN(on[t]) = {} \/ label \in {"check", "close"},
           label \in {"connected", "attach"} => NotBoundN(on[t]),
           label # "disconnected"
    PROVE  \A u \in Threads : CalmThread(u)
<1>1. on[t] \in Links /\ on[t] # NoLink
  BY SocketFacts
<1>2. /\ pc'[t] = label
      /\ \A u \in Threads \ {t} : pc'[u] = pc[u] /\ i_fd'[u] = i_fd[u]
  BY DEF Goto, Reach, TypeOK, ThreadsOK
<1>3. label \in SystemCallPcs => i_fd'[t] = Fd(on[t])
  BY DEF Reach, TypeOK, ThreadsOK
<1>4. \A f \in OwnedN(on[t]) : Fd(on[t]) = f
  BY <1>1, CalmKeeps DEF SocketInv, OwnFd, Owned
<1>5. CalmThread(t)
  BY <1>2, <1>3, <1>4 DEF CalmThread
<1>6. ASSUME NEW u \in Threads \ {t} PROVE CalmThread(u)
  BY <1>2 DEF CalmThread
<1> QED
  BY <1>5, <1>6

(* A thread moves on to a place where it owes nothing.                     *)
LEMMA RestCalm ==
    ASSUME TypeOK, NEW t \in Threads, NEW label, pc' = [pc EXCEPT ![t] = label],
           label \notin SystemCallPcs \cup ClosedPcs \cup {"connected", "disconnected"},
           pc[t] \notin {"check", "close"},
           \A u \in Threads \ {t} : on'[u] = on[u] /\ i_fd'[u] = i_fd[u]
    PROVE  \A u \in Threads : CalmThread(u)
  BY DEF CalmThread, TypeOK, ThreadsOK, SystemCallPcs

-----------------------------------------------------------------------------
LEMMA DestroyCalm ==
    ASSUME Assumptions, TypeOK, HandleInv, SocketInv, NEW t \in Threads, DestroyStep(t)
    PROVE  Calm
<1> USE DEF kernelVars, linkVars, workerVars, threadVars, historyVars
<1> DEFINE l == on[t]
<1>1. pc[t] \notin Outside \cup {"set_link"} /\ (t = Worker => pc[t] \notin Accepting)
  BY DEF DestroyStep, DestroyCheckFirst, DestroyClearFirst, DelLink, DestroyCheckSocket,
     DestroyClose, DestroySendClosed, DestroyForget, Outside, Accepting
<1>2. l \in Links /\ l # NoLink /\ link[l].mh_link = l
  BY <1>1, OnKnown, SocketFacts
<1>3. ASSUME NEW label, pc' = [pc EXCEPT ![t] = label], label \notin Accepting
      PROVE  pc'[Worker] \in Accepting => pc[Worker] \in Accepting
  BY <1>3 DEF TypeOK, ThreadsOK
<1>4. Return(t) \in {"idle", "recv_end", "events"}
  BY DEF Return
<1>5. CASE DestroyCheckFirst(t) \/ DestroyClearFirst(t)
  <2>1. PICK label \in {"clear_first", "del_link"} : Reach(t, label, l)
    BY <1>5 DEF DestroyCheckFirst, DestroyClearFirst
  <2>2. /\ UNCHANGED <<sock, i_link, m_maplink, link, on, batch, h_accept>>
        /\ pc[t] \notin {"check", "close"}
    BY <1>5 DEF DestroyCheckFirst, DestroyClearFirst
  <2>3. \A u \in Threads : CalmThread(u)
    BY <1>1, <2>1, <2>2, ThreadCalm, FrameCalm DEF SystemCallPcs, ClosedPcs
  <2>4. pc'[Worker] \in Accepting => pc[Worker] \in Accepting
    BY <1>3, <2>1 DEF Reach, Accepting
  <2> QED
    BY <2>2, <2>3, <2>4, FrameCalm DEF Calm
<1>6. CASE DelLink(t)
  <2> USE <1>6 DEF DelLink
  <2>1. CalmSockets
    <3>1. sock' = sock \/ \E f : sock' = del_epoll_read(sock, f)
      OBVIOUS
    <3> QED
      BY <3>1, OpsCalm, FrameCalm
  <2>2. \A u \in Threads : CalmThread(u)
    BY <1>1, <2>1, ThreadCalm DEF SystemCallPcs, ClosedPcs
  <2>3. pc'[t] = "check" /\ on'[t] = l
    BY DEF Goto, TypeOK, ThreadsOK
  <2>4. CalmLinks
    <3>1. m_maplink \ m_maplink' \subseteq {l}
      BY <1>2
    <3> QED
      BY <2>3, <3>1 DEF CalmLinks, Fd
  <2>5. pc'[Worker] \in Accepting => pc[Worker] \in Accepting
    BY <1>3 DEF Goto, Accepting
  <2> QED
    BY <2>1, <2>2, <2>4, <2>5, FrameCalm DEF Calm
<1>7. CASE DestroyCheckSocket(t)
  <2> USE <1>7 DEF DestroyCheckSocket
  <2>1. CASE Fd(l) # NoFd
    <3>1. \A u \in Threads : CalmThread(u)
      BY <1>1, <2>1, ThreadCalm, FrameCalm DEF SystemCallPcs, ClosedPcs
    <3>2. pc'[Worker] \in Accepting => pc[Worker] \in Accepting
      BY <1>3, <2>1 DEF Reach, Accepting
    <3> QED
      BY <3>1, <3>2, FrameCalm DEF Calm
  <2>2. CASE Fd(l) = NoFd
    <3>1. OwnedN(l) = {}
      BY <1>2, <2>2, SocketFacts DEF SocketInv, OwnFd, OwnedN
    <3>2. \A u \in Threads : CalmThread(u)
      BY <1>1, <1>4, <2>2, <3>1, ThreadCalm, FrameCalm DEF SystemCallPcs, ClosedPcs
    <3>3. pc'[Worker] \in Accepting => pc[Worker] \in Accepting
      BY <1>3, <1>4, <2>2 DEF Goto, Accepting
    <3> QED
      BY <3>2, <3>3, FrameCalm DEF Calm
  <2> QED
    BY <2>1, <2>2
<1>8. CASE DestroyClose(t)
  <2> USE <1>8 DEF DestroyClose
  <2>1. PICK f \in Loaded(t) : sock' = CloseFd(sock, f)
    BY DEF Close
  <2>2. CalmSockets
    BY <2>1, OpsCalm
  <2>3. OwnedN(l) = {}
    <3>1. \A g \in Owned(l) : g = f
      BY LoadedHeld DEF SystemCallPcs
    <3>2. f \notin OwnedN(l)
      BY <1>2, <2>1 DEF CloseFd, OwnedN, Unused, TypeOK, SocketTable
    <3> QED
      BY <1>2, <2>2, <3>1, <3>2, CalmKeeps
  <2>4. PICK label \in {"closed", "forget"} : Goto(t, label)
    OBVIOUS
  <2>5. \A u \in Threads : CalmThread(u)
    BY <1>1, <2>2, <2>3, <2>4, ThreadCalm DEF SystemCallPcs, ClosedPcs
  <2>6. pc'[Worker] \in Accepting => pc[Worker] \in Accepting
    BY <1>3, <2>4 DEF Goto, Accepting
  <2> QED
    BY <2>2, <2>5, <2>6, FrameCalm DEF Calm
<1>9. ASSUME pc[t] \in ClosedPcs, sock' = sock
      PROVE  OwnedN(l) = {}
  BY <1>9 DEF SocketInv, ClosedHasNone, Owned, OwnedN
<1>10. CASE DestroySendClosed(t)
  <2> USE <1>10 DEF DestroySendClosed
  <2>1. \A u \in Threads : CalmThread(u)
    BY <1>1, <1>9, ThreadCalm, FrameCalm DEF SystemCallPcs, ClosedPcs
  <2>2. pc'[Worker] \in Accepting => pc[Worker] \in Accepting
    BY <1>3 DEF Goto, Accepting
  <2> QED
    BY <2>1, <2>2, FrameCalm DEF Calm
<1>11. CASE DestroyForget(t)
  <2> USE <1>11 DEF DestroyForget
  <2>1. \A u \in Threads : CalmThread(u)
    BY <1>1, <1>4, ThreadCalm, FrameCalm DEF SystemCallPcs, ClosedPcs
  <2>2. pc'[Worker] \in Accepting => pc[Worker] \in Accepting
    BY <1>3, <1>4 DEF Goto, Accepting
  <2>3. CalmLinks
    BY <1>2, <1>9 DEF CalmLinks, ClosedPcs, TypeOK, LinksOK, Fd
  <2> QED
    BY <2>1, <2>2, <2>3, FrameCalm DEF Calm
<1> QED
  BY <1>5, <1>6, <1>7, <1>8, <1>10, <1>11 DEF DestroyStep

LEMMA CallCalm ==
    ASSUME Assumptions, TypeOK, HandleInv, SocketInv, NEW t \in App, AppStep(t),
           ~DestroyStep(t), ~Create(t)
    PROVE  Calm
<1> USE DEF kernelVars, linkVars, workerVars, threadVars, historyVars
<1> DEFINE l == on[t]
<1>0. t \in Threads /\ t # Worker /\ link \in [Links -> LinkObject]
  BY SocketFacts DEF TypeOK, LinksOK
<1>1. pc[t] \notin Outside => l \in Links /\ l # NoLink
  BY <1>0, SocketFacts
<1>2. ASSUME NEW label, pc' = [pc EXCEPT ![t] = label]
      PROVE  pc'[Worker] \in Accepting => pc[Worker] \in Accepting
  BY <1>0, <1>2 DEF TypeOK, ThreadsOK
<1>3. ASSUME NEW handles, NEW label \in {"connect", "listen", "send", "destroy"},
             Call(t, handles, label)
      PROVE  Calm
  <2> USE <1>3 DEF Call
  <2>1. PICK h \in handles \cap m_maplink :
           Known(h) /\ on' = [on EXCEPT ![t] = h] /\ Reach(t, label, h)
    OBVIOUS
  <2>2. h \in Links /\ h # NoLink
    BY SocketFacts
  <2>3. \A f \in OwnedN(h) : Fd(h) = f
    BY <2>2 DEF OwnedN, SocketInv, OwnFd
  <2>4. on'[t] = h /\ i_fd'[t] = Fd(h) /\ pc'[t] = label /\ pc[t] = "idle"
    BY <1>0, <2>1 DEF Reach, TypeOK, ThreadsOK
  <2>5. CalmThread(t)
    BY <2>3, <2>4 DEF CalmThread, ClosedPcs
  <2>6. \A u \in Threads \ {t} : CalmThread(u)
    BY <2>1 DEF CalmThread, Reach, TypeOK, ThreadsOK
  <2>7. pc'[Worker] \in Accepting => pc[Worker] \in Accepting
    BY <1>2, <2>1 DEF Reach
  <2> QED
    BY <2>5, <2>6, <2>7, FrameCalm DEF Calm
<1>4. CASE CallConnect(t) \/ CallListen(t) \/ CallSend(t) \/ CallDestroy(t)
  BY <1>3, <1>4 DEF CallConnect, CallListen, CallSend, CallDestroy
<1>5. CASE CreateAnnounce(t) \/ CreateCheckFirst(t) \/ CreateSetFirst(t)
  <2>1. PICK label \in {"check_first", "set_first", "idle"} : Goto(t, label)
    BY <1>5 DEF CreateAnnounce, CreateCheckFirst, CreateSetFirst
  <2>2. /\ UNCHANGED <<sock, i_link, m_maplink, on, batch, h_accept>>
        /\ pc[t] \notin {"check", "close"}
        /\ \A k \in Links : link'[k].mi_socket = link[k].mi_socket
    BY <1>0, <1>5 DEF CreateAnnounce, CreateCheckFirst, CreateSetFirst, LinkObject
  <2>3. pc' = [pc EXCEPT ![t] = label] /\ \A u \in Threads \ {t} : i_fd'[u] = i_fd[u]
    BY <2>1 DEF Goto, TypeOK, ThreadsOK
  <2>4. \A u \in Threads : CalmThread(u)
    BY <1>0, <2>2, <2>3, RestCalm DEF SystemCallPcs, ClosedPcs
  <2>5. pc'[Worker] \in Accepting => pc[Worker] \in Accepting
    BY <1>2, <2>3
  <2> QED
    BY <2>2, <2>4, <2>5, FrameCalm DEF Calm
<1>6. CASE LinkConnect(t)
  <2> USE <1>6 DEF LinkConnect
  <2>1. PICK f \in Loaded(t) :
           \/ /\ CanConnect(sock, f)
              /\ sock' = [sock EXCEPT ![f].st = "connecting"]
              /\ Goto(t, "connected")
           \/ IsConnected(sock, f) /\ sock' = sock /\ Goto(t, "connected")
           \/ sock' = sock /\ Reach(t, "refused", l)
    OBVIOUS
  <2>2. \A g \in Owned(l) : g = f
    BY <1>0, LoadedHeld DEF SystemCallPcs
  <2>3. \A k \in Links : link'[k].mi_socket = link[k].mi_socket
    BY <1>0, <1>1 DEF LinkObject, Outside
  <2>4. CASE sock' = sock /\ Reach(t, "refused", l)
    <3>1. \A u \in Threads : CalmThread(u)
      BY <1>0, <2>4, ThreadCalm, FrameCalm DEF SystemCallPcs, ClosedPcs, Outside
    <3>2. pc'[Worker] \in Accepting => pc[Worker] \in Accepting
      BY <1>2, <2>4 DEF Reach
    <3> QED
      BY <2>3, <2>4, <3>1, <3>2, FrameCalm DEF Calm
  <2>5. CASE CanConnect(sock, f) /\ sock' = [sock EXCEPT ![f].st = "connecting"] /\ Goto(t, "connected")
    <3>1. f \in Fds /\ sock[f].st = "bound"
      BY <2>5 DEF CanConnect, StateOf, IsOpen
    <3>2. /\ sock'[f].st = "connecting" /\ sock'[f].owner = sock[f].owner /\ sock'[f].tag = sock[f].tag
          /\ \A g \in Fds \ {f} : sock'[g] = sock[g]
      BY <2>5, <3>1 DEF TypeOK, SocketTable, Socket
    <3>3. CalmSockets
      BY <3>1, <3>2, KeptCalm
    <3>4. NotBoundN(l)
      BY <1>1, <2>2, <3>2, <3>3, CalmKeeps DEF NotBoundN, Outside
    <3>5. \A u \in Threads : CalmThread(u)
      BY <1>0, <2>5, <3>3, <3>4, ThreadCalm DEF SystemCallPcs, ClosedPcs, Outside
    <3>6. pc'[Worker] \in Accepting => pc[Worker] \in Accepting
      BY <1>2, <2>5 DEF Goto
    <3> QED
      BY <2>3, <3>3, <3>5, <3>6, FrameCalm DEF Calm
  <2>6. CASE IsConnected(sock, f) /\ sock' = sock /\ Goto(t, "connected")
    <3>1. NotBoundN(l)
      BY <2>2, <2>6 DEF IsConnected, StateOf, NotBoundN, Owned, OwnedN
    <3>2. \A u \in Threads : CalmThread(u)
      BY <1>0, <2>6, <3>1, ThreadCalm, FrameCalm DEF SystemCallPcs, ClosedPcs, Outside
    <3>3. pc'[Worker] \in Accepting => pc[Worker] \in Accepting
      BY <1>2, <2>6 DEF Goto
    <3> QED
      BY <2>3, <2>6, <3>2, <3>3, FrameCalm DEF Calm
  <2> QED
    BY <2>1, <2>4, <2>5, <2>6
<1>7. CASE SendConnected(t)
  <2> USE <1>7 DEF SendConnected
  <2>1. NotBoundN(l)
    BY <1>0 DEF SocketInv, AttachedOnce, NotBound, NotBoundN, Owned, OwnedN
  <2>2. \A u \in Threads : CalmThread(u)
    BY <1>0, <2>1, ThreadCalm, FrameCalm DEF SystemCallPcs, ClosedPcs, Outside
  <2>3. pc'[Worker] \in Accepting => pc[Worker] \in Accepting
    BY <1>2 DEF Reach
  <2> QED
    BY <2>2, <2>3, FrameCalm DEF Calm
<1>8. CASE Attach(t)
  <2> USE <1>8 DEF Attach
  <2>1. PICK f \in Loaded(t) : sock' = attach_to_epoll(sock, f, l) \/ sock' = sock
    <3>1. i_fd[t] \in Loaded(t)
      BY DEF Loaded
    <3> QED
      BY <3>1
  <2>2. \A g \in Owned(l) : g = f /\ sock[g].st # "bound"
    BY <1>0, LoadedHeld DEF SystemCallPcs, SocketInv, AttachedOnce, NotBound
  <2>3. CalmSockets
    BY <1>1, <2>1, <2>2, AttachCalm, FrameCalm DEF Outside
  <2>4. \A u \in Threads : CalmThread(u)
    BY <1>0, <2>3, ThreadCalm DEF SystemCallPcs, ClosedPcs, Outside
  <2>5. pc'[Worker] \in Accepting => pc[Worker] \in Accepting
    BY <1>2 DEF Goto
  <2> QED
    BY <2>3, <2>4, <2>5, FrameCalm DEF Calm
<1>9. CASE ConnectRefused(t)
  <2> USE <1>9 DEF ConnectRefused
  <2>1. PICK f \in Loaded(t) : sock' = CloseFd(sock, f)
    BY DEF Close
  <2>2. CalmSockets
    BY <2>1, OpsCalm
  <2>3. OwnedN(l) = {}
    <3>1. \A g \in Owned(l) : g = f
      BY <1>0, LoadedHeld DEF SystemCallPcs
    <3>2. f \notin OwnedN(l)
      BY <1>1, <2>1 DEF CloseFd, OwnedN, Unused, TypeOK, SocketTable, Outside
    <3> QED
      BY <1>1, <2>2, <3>1, <3>2, CalmKeeps DEF Outside
  <2>4. \A u \in Threads : CalmThread(u)
    BY <1>0, <2>2, <2>3, ThreadCalm DEF SystemCallPcs, ClosedPcs, Outside
  <2>5. pc'[Worker] \in Accepting => pc[Worker] \in Accepting
    BY <1>2 DEF Goto
  <2> QED
    BY <2>2, <2>4, <2>5, FrameCalm DEF Calm
<1>10. CASE ConnectForget(t)
  <2> USE <1>10 DEF ConnectForget
  <2>1. \A u \in Threads : CalmThread(u)
    BY <1>0, ThreadCalm, FrameCalm DEF SystemCallPcs, ClosedPcs, Outside
  <2>2. pc'[Worker] \in Accepting => pc[Worker] \in Accepting
    BY <1>2 DEF Goto
  <2>3. OwnedN(l) = {}
    BY <1>0 DEF SocketInv, ClosedHasNone, ClosedPcs, Owned, OwnedN
  <2>4. CalmLinks
    BY <1>0, <1>1, <2>3 DEF CalmLinks, Fd, Outside
  <2> QED
    BY <2>1, <2>2, <2>4, FrameCalm DEF Calm
<1>11. CASE LinkListen(t)
  <2> USE <1>11 DEF LinkListen
  <2>1. PICK f \in Loaded(t) :
           \/ /\ CanListen(sock, f)
              /\ sock' = [sock EXCEPT ![f].st = "listening"]
              /\ Reach(t, "attach", l)
           \/ sock' = sock /\ Goto(t, "idle")
    OBVIOUS
  <2>2. \A g \in Owned(l) : g = f
    BY <1>0, LoadedHeld DEF SystemCallPcs
  <2>3. \A k \in Links : link'[k].mi_socket = link[k].mi_socket
    BY <1>0, <1>1 DEF LinkObject, Outside
  <2>4. CASE sock' = sock /\ Goto(t, "idle")
    <3>1. \A u \in Threads : CalmThread(u)
      BY <1>0, <2>4, ThreadCalm, FrameCalm DEF SystemCallPcs, ClosedPcs, Outside
    <3>2. pc'[Worker] \in Accepting => pc[Worker] \in Accepting
      BY <1>2, <2>4 DEF Goto
    <3> QED
      BY <2>3, <2>4, <3>1, <3>2, FrameCalm DEF Calm
  <2>5. CASE CanListen(sock, f) /\ sock' = [sock EXCEPT ![f].st = "listening"] /\ Reach(t, "attach", l)
    <3>1. f \in Fds /\ sock[f].st \in {"bound", "listening"}
      BY <2>5 DEF CanListen, StateOf, IsOpen
    <3>2. /\ sock'[f].st = "listening" /\ sock'[f].owner = sock[f].owner /\ sock'[f].tag = sock[f].tag
          /\ \A g \in Fds \ {f} : sock'[g] = sock[g]
      BY <2>5, <3>1 DEF TypeOK, SocketTable, Socket
    <3>3. CalmSockets
      BY <3>1, <3>2, KeptCalm
    <3>4. NotBoundN(l)
      BY <1>1, <2>2, <3>2, <3>3, CalmKeeps DEF NotBoundN, Outside
    <3>5. \A u \in Threads : CalmThread(u)
      BY <1>0, <2>5, <3>3, <3>4, ThreadCalm DEF SystemCallPcs, ClosedPcs, Outside
    <3>6. pc'[Worker] \in Accepting => pc[Worker] \in Accepting
      BY <1>2, <2>5 DEF Reach
    <3> QED
      BY <2>3, <3>3, <3>5, <3>6, FrameCalm DEF Calm
  <2> QED
    BY <2>1, <2>4, <2>5
<1>12. CASE LinkSendData(t)
  <2> USE <1>12 DEF LinkSendData
  <2>1. \A u \in Threads : CalmThread(u)
    BY <1>0, ThreadCalm, FrameCalm DEF SystemCallPcs, ClosedPcs, Outside
  <2>2. pc'[Worker] \in Accepting => pc[Worker] \in Accepting
    BY <1>2 DEF Goto
  <2> QED
    BY <2>1, <2>2, FrameCalm DEF Calm
<1> QED
  BY <1>4, <1>5, <1>6, <1>7, <1>8, <1>9, <1>10, <1>11, <1>12 DEF AppStep, InCall

LEMMA WorkerCalm ==
    ASSUME Assumptions, TypeOK, HandleInv, SocketInv, WorkerStep, ~DestroyStep(Worker), i_link' = i_link
    PROVE  Calm
<1> USE DEF kernelVars, linkVars, workerVars, threadVars, historyVars
<1> DEFINE l == on[Worker]
<1>0. Worker \in Threads /\ link \in [Links -> LinkObject] /\ i_link \in Nat
  BY SocketFacts DEF TypeOK, LinksOK
<1>1. pc[Worker] \notin Outside => l \in Links /\ l # NoLink
  BY <1>0, SocketFacts
<1>2. ASSUME NEW label, Goto(Worker, label) \/ \E k : Reach(Worker, label, k),
             label \in Accepting => pc[Worker] \in Accepting
      PROVE  pc'[Worker] \in Accepting => pc[Worker] \in Accepting
  BY <1>0, <1>2 DEF TypeOK, ThreadsOK, Goto, Reach
<1>3. ASSUME NEW label \in {"wait", "keepalive", "find_first", "events", "destroy", "middle",
                            "recv_end", "accepted"},
             Goto(Worker, label) \/ Reach(Worker, label, l), on' = on, pc[Worker] \notin {"check", "close"}
      PROVE  \A u \in Threads : CalmThread(u)
  <2>1. pc' = [pc EXCEPT ![Worker] = label] /\ \A u \in Threads \ {Worker} : i_fd'[u] = i_fd[u]
    BY <1>0, <1>3 DEF Goto, Reach, TypeOK, ThreadsOK
  <2> QED
    BY <1>0, <1>3, <2>1, RestCalm DEF SystemCallPcs, ClosedPcs
<1>4. ASSUME NEW label \in {"read", "read_gone", "accept"}, Reach(Worker, label, l), on' = on, CalmSockets,
             pc[Worker] \notin Outside \cup {"check", "close"}
      PROVE  \A u \in Threads : CalmThread(u)
  BY <1>0, <1>4, ThreadCalm DEF SystemCallPcs, ClosedPcs
<1>5. CASE EpollWait
  <2> USE <1>5 DEF EpollWait
  <2>1. \A u \in Threads : CalmThread(u)
    BY <1>3
  <2>2. CalmSockets
    BY OpsCalm
  <2>3. ASSUME NEW e \in batch', e.h # NoLink, "HUP" \in e.ev
        PROVE  DownN(e.h)
    <3>1. PICK f \in Fds : e = [h |-> sock[f].tag, ev |-> Poll(sock[f])]
      BY <2>3 DEF Harvest, Reported
    <3>2. sock[f].st \in {"fin", "reset", "bound"}
      BY <2>3, <3>1 DEF Poll
    <3>3. NotBound(e.h) /\ (sock[f].owner = e.h \/ Owned(e.h) = {})
      BY <2>3, <3>1 DEF SocketInv, AttachedOnce, TagsOwn
    <3>4. \A g \in Owned(e.h) : g = f
      BY <2>3, <3>3 DEF SocketInv, OwnFd, Owned
    <3>5. Down(e.h)
      BY <3>2, <3>3, <3>4 DEF Down, NotBound
    <3> QED
      BY <2>2, <2>3, <3>5, CalmKeeps
  <2>4. CalmWorker
    BY <1>2, <2>3 DEF CalmWorker, Accepting
  <2> QED
    BY <2>1, <2>2, <2>4, FrameCalm DEF Calm
<1>6. CASE Keepalive
  <2> USE <1>6 DEF Keepalive
  <2>1. PICK label \in {"events", "find_first"} : Goto(Worker, label)
    OBVIOUS
  <2>2. \A u \in Threads : CalmThread(u)
    BY <1>3, <2>1
  <2> QED
    BY <1>2, <2>1, <2>2, FrameCalm DEF Calm, Accepting
<1>7. CASE KeepaliveFind
  <2> USE <1>7 DEF KeepaliveFind
  <2>1. PICK label \in {"events", "wait"} : Goto(Worker, label)
    OBVIOUS
  <2>2. \A u \in Threads : CalmThread(u)
    BY <1>3, <2>1
  <2>3. CalmWorker
    BY <1>2, <2>1 DEF CalmWorker, Accepting
  <2> QED
    BY <2>2, <2>3, FrameCalm DEF Calm
<1>8. CASE Dispatch
  <2> USE <1>8 DEF Dispatch
  <2>1. PICK e \in batch :
           /\ batch' = batch \ {e}
           /\ IF e.h \in m_maplink
              THEN /\ on' = [on EXCEPT ![Worker] = e.h]
                   /\ Reach(Worker, HandlerOf(e.h, e.ev), e.h)
                   /\ link' = IF /\ link[e.h].m_link_type = "Connect"
                                 /\ "HUP" \notin e.ev
                                 /\ e.ev # {}
                              THEN [link EXCEPT ![e.h].m_link_type = "Connected"]
                              ELSE link
              ELSE UNCHANGED <<on, b_self, link, pc, i_fd>>
    OBVIOUS
  <2>2. \A k \in Links : link'[k].mi_socket = link[k].mi_socket
    BY <1>0, <2>1 DEF LinkObject
  <2>3. \A u \in Threads : CalmThread(u)
    <3>1. CASE e.h \in m_maplink
      <4>1. e.h \in Links /\ e.h # NoLink
        BY <3>1, SocketFacts
      <4>2. \A f \in OwnedN(e.h) : Fd(e.h) = f
        BY <4>1 DEF OwnedN, SocketInv, OwnFd
      <4>3. /\ on'[Worker] = e.h /\ i_fd'[Worker] = Fd(e.h)
            /\ pc'[Worker] = HandlerOf(e.h, e.ev) /\ pc[Worker] = "events"
        BY <1>0, <2>1, <3>1 DEF Reach, TypeOK, ThreadsOK
      <4>4. HandlerOf(e.h, e.ev) = "disconnected" => DownN(e.h)
        BY <4>1 DEF HandlerOf, SocketInv, HupIsDown, Down, DownN, Owned, OwnedN
      <4>5. HandlerOf(e.h, e.ev) \notin ClosedPcs \cup {"connected", "attach"}
        BY DEF HandlerOf, ClosedPcs
      <4>6. CalmThread(Worker)
        BY <4>2, <4>3, <4>4, <4>5 DEF CalmThread
      <4>7. \A u \in Threads \ {Worker} : CalmThread(u)
        BY <2>1, <3>1 DEF CalmThread, Reach, TypeOK, ThreadsOK
      <4> QED
        BY <4>6, <4>7
    <3>2. CASE e.h \notin m_maplink
      BY <2>1, <3>2 DEF CalmThread
    <3> QED
      BY <3>1, <3>2
  <2>4. pc'[Worker] \notin Accepting
    BY <1>0, <2>1 DEF Reach, HandlerOf, Accepting, TypeOK, ThreadsOK
  <2>5. CalmWorker
    BY <2>1, <2>4 DEF CalmWorker
  <2> QED
    BY <2>2, <2>3, <2>5, FrameCalm DEF Calm
<1>9. CASE EndBatch
  <2> USE <1>9 DEF EndBatch
  <2>1. \A u \in Threads : CalmThread(u)
    BY <1>3
  <2> QED
    BY <1>2, <2>1, FrameCalm DEF Calm, Accepting
<1>10. CASE SendDisconnected
  <2> USE <1>10 DEF SendDisconnected
  <2>1. \A u \in Threads : CalmThread(u)
    BY <1>3
  <2> QED
    BY <1>2, <2>1, FrameCalm DEF Calm, Accepting
<1>11. CASE Accept                       \* that finds nothing to accept
  <2> USE <1>11 DEF Accept
  <2>1. Goto(Worker, "events") /\ UNCHANGED <<sock, link, i_link, m_maplink, h_accept>>
    BY <1>0
  <2>2. \A u \in Threads : CalmThread(u)
    BY <1>3, <2>1
  <2> QED
    BY <1>2, <2>1, <2>2, FrameCalm DEF Calm, Accepting
<1>12. CASE AcceptAttach
  <2> USE <1>12 DEF AcceptAttach
  <2>1. h_accept \in Links /\ h_accept # NoLink
    BY SocketFacts DEF TypeOK, WorkerOK
  <2>2. \A g \in Owned(h_accept) : g = Fd(h_accept) /\ sock[g].st # "bound"
    BY <2>1 DEF SocketInv, OwnFd, AttachedOnce, NotBound, Accepting, Owned
  <2>3. CalmSockets
    BY <2>1, <2>2, AttachCalm, FrameCalm
  <2>4. \A k \in Links : link'[k].mi_socket = link[k].mi_socket
    BY <1>0, <2>1 DEF LinkObject
  <2>5. Goto(Worker, "accepted") \/ Reach(Worker, "accept", l)
    OBVIOUS
  <2>6. \A u \in Threads : CalmThread(u)
    BY <1>3, <1>4, <2>3, <2>5 DEF Outside
  <2> QED
    BY <2>3, <2>4, <2>6, FrameCalm DEF Calm, Accepting
<1>13. CASE SendAccepted
  <2> USE <1>13 DEF SendAccepted
  <2>1. \A u \in Threads : CalmThread(u)
    BY <1>4, FrameCalm DEF Outside
  <2> QED
    BY <2>1, FrameCalm DEF Calm, Accepting
<1>14. CASE Read
  <2> USE <1>14 DEF Read
  <2>1. PICK f \in Loaded(Worker) :
           \/ sock' = sock
           \/ sock' = [sock EXCEPT ![f].rx = @ - 1]
           \/ StateOf(sock, f) = "up" /\ sock' = mod_epoll_read(sock, f, link[l].mh_link)
    OBVIOUS
  <2>2. CalmSockets
    <3>1. CASE sock' = [sock EXCEPT ![f].rx = @ - 1]
      <4>1. \A g \in Fds : /\ sock'[g].owner = sock[g].owner /\ sock'[g].st = sock[g].st
                           /\ sock'[g].tag = sock[g].tag
        BY <3>1 DEF TypeOK, SocketTable, Socket
      <4> QED
        BY <4>1, KeptCalm
    <3>2. CASE StateOf(sock, f) = "up" /\ sock' = mod_epoll_read(sock, f, link[l].mh_link)
      <4>1. link[l].mh_link = l /\ l \in Links
        BY <1>0, OnKnown DEF Outside
      <4>2. \A g \in Owned(l) : g = f /\ sock[g].st # "bound"
        BY <1>0, <3>2, LoadedHeld DEF SystemCallPcs, StateOf
      <4> QED
        BY <3>2, <4>1, <4>2, AttachCalm
    <3> QED
      BY <2>1, <3>1, <3>2, FrameCalm
  <2>3. Goto(Worker, "middle") \/ Reach(Worker, "read_gone", l) \/ Goto(Worker, "recv_end")
    OBVIOUS
  <2>4. \A u \in Threads : CalmThread(u)
    BY <1>3, <1>4, <2>2, <2>3 DEF Outside
  <2> QED
    BY <1>2, <2>2, <2>3, <2>4, FrameCalm DEF Calm, Accepting
<1>15. CASE ReadBegin \/ ReadMiddle
  <2> USE <1>15 DEF ReadBegin, ReadMiddle
  <2>1. \A u \in Threads : CalmThread(u)
    BY <1>4, FrameCalm DEF Outside
  <2> QED
    BY <1>2, <2>1, FrameCalm DEF Calm, Accepting
<1>16. CASE ReadGone
  <2> USE <1>16 DEF ReadGone
  <2>1. \A u \in Threads : CalmThread(u)
    BY <1>3
  <2>2. CalmSockets
    <3>1. \E f : sock' = del_epoll_read(sock, f)
      OBVIOUS
    <3> QED
      BY <3>1, OpsCalm
  <2> QED
    BY <1>2, <2>1, <2>2, FrameCalm DEF Calm, Accepting
<1>17. CASE ReadEnd
  <2> USE <1>17 DEF ReadEnd
  <2>1. \A u \in Threads : CalmThread(u)
    BY <1>3
  <2> QED
    BY <1>2, <2>1, FrameCalm DEF Calm, Accepting
<1> QED
  BY <1>5, <1>6, <1>7, <1>8, <1>9, <1>10, <1>11, <1>12, <1>13, <1>14, <1>15, <1>16, <1>17 DEF WorkerStep

LEMMA PeerCalm ==
    ASSUME Assumptions, TypeOK, SocketInv, PeerStep
    PROVE  Calm
<1> USE DEF linkVars, workerVars, threadVars, historyVars
<1>1. PICK f \in Fds : PeerDials(f) \/ PeerAnswers(f) \/ PeerSends(f)
                         \/ PeerCloses(f) \/ PeerResets(f)
  BY DEF PeerStep
<1>2. /\ \A g \in Fds \ {f} : sock'[g] = sock[g]
      /\ sock'[f].owner = sock[f].owner /\ sock'[f].tag = sock[f].tag
      /\ sock'[f].st = sock[f].st \/ sock'[f].st \in {"up", "fin", "reset"}
      /\ sock[f].st \in {"fin", "reset"} => sock'[f].st \in {"fin", "reset"}
  <2>0. sock \in [Fds -> Socket] /\ sock[f] \in Socket
    BY DEF TypeOK, SocketTable
  <2>1. CASE PeerDials(f)
    BY <2>0, <2>1 DEF PeerDials, Peer, Edge, Socket
  <2>2. CASE PeerAnswers(f)
    BY <2>0, <2>2 DEF PeerAnswers, Peer, Edge, Socket
  <2>3. CASE PeerSends(f)
    BY <2>0, <2>3 DEF PeerSends, Peer, Edge, Socket
  <2>4. CASE PeerCloses(f)
    BY <2>0, <2>4 DEF PeerCloses, Peer, Edge, Socket
  <2>5. CASE PeerResets(f)
    BY <2>0, <2>5 DEF PeerResets, Peer, Edge, Socket
  <2> QED
    BY <1>1, <2>1, <2>2, <2>3, <2>4, <2>5
<1>3. CalmSockets
  BY <1>2, KeptCalm
<1>4. UNCHANGED <<linkVars, workerVars, threadVars>>
  BY <1>1 DEF PeerDials, PeerAnswers, PeerSends, PeerCloses, PeerResets, Peer
<1>5. \A u \in Threads : CalmThread(u)
  BY <1>4 DEF CalmThread
<1> QED
  BY <1>3, <1>4, <1>5, FrameCalm DEF Calm

-----------------------------------------------------------------------------
(* The two steps that open a socket. *)

(* Nobody has the handle of a link that is about to be added.              *)
LEMMA OldHandles ==
    ASSUME Assumptions, TypeOK, HandleInv
    PROVE  /\ \A f \in Fds : sock[f].tag # NoLink => sock[f].tag <= i_link
           /\ \A e \in batch : e.h # NoLink => e.h <= i_link
           /\ \A t \in Threads : pc[t] \notin Outside \cup {"set_link"} => on[t] <= i_link
           /\ pc[Worker] \in Accepting => h_accept <= i_link
<1>1. \A l \in Links : Known(l) => l <= i_link
  BY DEF HandleInv, KnownIsSet
<1>2. pc[Worker] \in Accepting => h_accept <= i_link
  BY SocketFacts DEF HandleInv, Introduced
<1>3. \A f \in Fds : sock[f].tag # NoLink => sock[f].tag \in Links
  BY DEF TypeOK, SocketTable, Socket, LinkOrNone
<1>4. \A e \in batch : e.h # NoLink => e.h \in Links
  BY DEF TypeOK, WorkerOK, LinkOrNone
<1>5. \A f \in Fds : sock[f].tag # NoLink => sock[f].tag <= i_link
  BY <1>1, <1>2, <1>3 DEF HandleInv, TagsKnown, Accepting
<1>6. \A e \in batch : e.h # NoLink => e.h <= i_link
  BY <1>1, <1>4 DEF HandleInv, SourcesKnown
<1>7. \A t \in Threads : pc[t] \notin Outside \cup {"set_link"} => on[t] <= i_link
  BY OnKnown
<1> QED
  BY <1>2, <1>5, <1>6, <1>7

LEMMA OpenStep ==
    ASSUME Assumptions, TypeOK, TypeOK', HandleInv, SocketInv, NEW t \in Threads, NEW label,
           NEW n, n = i_link + 1, n \in Links, NEW g \in FreeFds(sock), NEW s \in {"bound", "up"},
           sock'[g] = Fresh(n, s),
           \A f \in Fds \ {g} : /\ sock'[f].owner = sock[f].owner /\ sock'[f].st = sock[f].st
                                /\ sock'[f].tag = sock[f].tag,
           i_link' = n, m_maplink' = m_maplink \cup {n},
           link'[n].mi_socket = g, \A l \in Links \ {n} : link'[l].mi_socket = link[l].mi_socket,
           pc' = [pc EXCEPT ![t] = label], pc[t] \in {"idle", "accept"},
           \A u \in Threads \ {t} : on'[u] = on[u] /\ i_fd'[u] = i_fd[u],
           batch' = batch,
           \/ t # Worker /\ label = "set_link" /\ h_accept' = h_accept
           \/ t = Worker /\ label = "accept_attach" /\ h_accept' = n /\ s = "up"
    PROVE  SocketInv'
<1> USE DEF SocketInv
<1>1. /\ g \in Fds /\ sock[g].owner = NoLink /\ n # NoLink
      /\ sock'[g].owner = n /\ sock'[g].st = s /\ sock'[g].tag = NoLink
      /\ \A l \in Links : link'[l] \in LinkObject
      /\ \A f \in Fds : sock[f].owner \in LinkOrNone
      /\ \A e \in batch : e.h \in LinkOrNone
  BY SocketFacts DEF FreeFds, Fresh, TypeOK, LinksOK, SocketTable, Socket, WorkerOK
<1>2. pc'[t] = label /\ \A u \in Threads \ {t} : pc'[u] = pc[u]
  BY DEF TypeOK, ThreadsOK
<1>3. /\ \A l \in Links : l # NoLink /\ (l <= i_link => l # n)
      /\ i_link \in Nat /\ \A l \in m_maplink : l \in Links
      /\ Worker \in Threads
      /\ \A u \in Threads : pc[u] \notin Outside => on[u] \in Links
  BY SocketFacts
<1>4. \A f \in Fds : sock[f].owner <= i_link /\ sock[f].owner \in Nat
  <2>1. \A f \in Fds : sock[f].owner <= i_link
    BY DEF OwnersBorn
  <2> QED
    BY <1>1, <2>1 DEF LinkOrNone, Links, NoLink
<1>5. ASSUME NEW l \in Links, l <= i_link
      PROVE  /\ OwnedN(l) = Owned(l)
             /\ NotBound(l) => NotBoundN(l)
             /\ Down(l) => DownN(l)
  <2>1. OwnedN(l) = Owned(l)
    BY <1>1, <1>3, <1>5 DEF Owned, OwnedN
  <2>2. g \notin Owned(l)
    BY <1>1, <1>3 DEF Owned
  <2> QED
    BY <2>1, <2>2 DEF NotBound, NotBoundN, Down, DownN, Owned
<1>6. OwnersBorn'
  BY <1>1, <1>3, <1>4 DEF OwnersBorn
<1>7. OwnFd'
  <2> SUFFICES ASSUME NEW f \in Fds, sock'[f].owner # NoLink
               PROVE  link'[sock'[f].owner].mi_socket = f
    BY DEF OwnFd, Fd
  <2>1. CASE f = g
    BY <1>1, <2>1
  <2>2. CASE f # g
    <3>1. sock'[f].owner = sock[f].owner /\ sock[f].owner \in Links \ {n}
      BY <1>1, <1>3, <1>4, <2>2 DEF LinkOrNone
    <3> QED
      BY <1>3, <3>1 DEF OwnFd, Fd
  <2> QED
    BY <2>1, <2>2
<1>8. ASSUME NEW u \in Threads, pc'[u] \in SystemCallPcs \cup ClosedPcs \cup {"check", "connected", "disconnected"}
      PROVE  /\ pc'[u] = pc[u] /\ on'[u] = on[u] /\ i_fd'[u] = i_fd[u]
             /\ on[u] \in Links /\ on[u] <= i_link
  <2>1. u # t
    BY <1>2, <1>8 DEF SystemCallPcs, ClosedPcs
  <2>2. pc[u] \notin Outside \cup {"set_link"}
    BY <1>2, <1>8, <2>1 DEF SystemCallPcs, ClosedPcs, Outside
  <2> QED
    BY <1>2, <1>3, <2>1, <2>2, OldHandles
<1>9. HeldFd'
  <2> SUFFICES ASSUME NEW u \in Threads, pc'[u] \in SystemCallPcs, NEW f \in OwnedN(on'[u])
               PROVE  i_fd'[u] = f
    BY DEF HeldFd, Owned, OwnedN
  <2> QED
    BY <1>5, <1>8 DEF HeldFd
<1>10. ClosedHasNone'
  <2> SUFFICES ASSUME NEW u \in Threads, pc'[u] \in ClosedPcs
               PROVE  OwnedN(on'[u]) = {}
    BY DEF ClosedHasNone, Owned, OwnedN
  <2> QED
    BY <1>5, <1>8 DEF ClosedHasNone
<1>11. OpenIsHeld'
  <2> SUFFICES ASSUME NEW f \in Fds, sock'[f].owner # NoLink, f # g, sock[f].owner \notin m_maplink
               PROVE  \E u \in Threads : on'[u] = sock'[f].owner /\ pc'[u] \in {"check", "close"}
    BY <1>1 DEF OpenIsHeld
  <2>1. PICK u \in Threads : on[u] = sock[f].owner /\ pc[u] \in {"check", "close"}
    BY DEF OpenIsHeld
  <2> QED
    BY <1>2, <2>1
<1>12. TagsOwn'
  <2> SUFFICES ASSUME NEW f \in Fds, sock'[f].tag # NoLink
               PROVE  sock'[f].owner = sock'[f].tag \/ OwnedN(sock'[f].tag) = {}
    BY DEF TagsOwn, Owned, OwnedN
  <2>1. f # g /\ sock'[f].tag = sock[f].tag /\ sock[f].tag \in Links /\ sock[f].tag <= i_link
    BY <1>1, OldHandles DEF TypeOK, SocketTable, Socket, LinkOrNone
  <2> QED
    BY <1>5, <2>1 DEF TagsOwn
<1>13. AttachedOnce'
  <2>1. ASSUME NEW f \in Fds, sock'[f].tag # NoLink
        PROVE  NotBoundN(sock'[f].tag)
    <3>1. f # g /\ sock'[f].tag = sock[f].tag /\ sock[f].tag \in Links /\ sock[f].tag <= i_link
      BY <1>1, <2>1, OldHandles DEF TypeOK, SocketTable, Socket, LinkOrNone
    <3>2. NotBound(sock[f].tag)
      BY <3>1 DEF AttachedOnce, NoLink, Links
    <3> QED
      BY <1>5, <3>1, <3>2
  <2>2. ASSUME NEW u \in Threads, pc'[u] \in {"connected", "attach"}
        PROVE  NotBoundN(on'[u])
    <3>1. on'[u] = on[u] /\ pc[u] = pc'[u] /\ on[u] \in Links /\ on[u] <= i_link
      BY <1>8, <2>2 DEF SystemCallPcs
    <3>2. NotBound(on[u])
      BY <2>2, <3>1 DEF AttachedOnce
    <3> QED
      BY <1>5, <3>1, <3>2
  <2>3. ASSUME pc'[Worker] \in Accepting
        PROVE  NotBoundN(h_accept')
    <3>1. CASE t = Worker
      <4>1. \A f \in Fds : sock'[f].owner = n => f = g
        BY <1>1, <1>3, <1>4, SocketFacts
      <4> QED
        BY <1>1, <2>3, <3>1, <4>1 DEF NotBoundN, OwnedN
    <3>2. CASE t # Worker
      <4>1. pc[Worker] \in Accepting /\ h_accept' = h_accept /\ h_accept \in Links /\ h_accept <= i_link
        BY <1>2, <1>3, <2>3, <3>2, OldHandles DEF TypeOK, WorkerOK, Accepting
      <4>2. NotBound(h_accept)
        BY <4>1 DEF AttachedOnce
      <4> QED
        BY <1>5, <4>1, <4>2
    <3> QED
      BY <3>1, <3>2
  <2> QED
    BY <2>1, <2>2, <2>3 DEF AttachedOnce, NotBound, NotBoundN, Owned, OwnedN
<1>14. HupIsDown'
  <2>1. ASSUME NEW e \in batch', e.h # NoLink, "HUP" \in e.ev
        PROVE  DownN(e.h)
    <3>1. e \in batch /\ e.h \in Links /\ e.h <= i_link
      BY <1>1, <2>1, OldHandles DEF LinkOrNone
    <3>2. Down(e.h)
      BY <2>1, <3>1 DEF HupIsDown
    <3> QED
      BY <1>5, <3>1, <3>2
  <2>2. ASSUME pc'[Worker] = "disconnected"
        PROVE  DownN(on'[Worker])
    <3>1. on'[Worker] = on[Worker] /\ pc[Worker] = pc'[Worker] /\ on[Worker] \in Links /\ on[Worker] <= i_link
      BY <1>3, <1>8, <2>2
    <3>2. Down(on[Worker])
      BY <2>2, <3>1 DEF HupIsDown
    <3> QED
      BY <1>5, <3>1, <3>2
  <2> QED
    BY <2>1, <2>2 DEF HupIsDown, Down, DownN, Owned, OwnedN
<1> QED
  BY <1>6, <1>7, <1>9, <1>10, <1>11, <1>12, <1>13, <1>14

LEMMA CreateOpens ==
    ASSUME Assumptions, TypeOK, TypeOK', HandleInv, SocketInv, NEW t \in App, Create(t)
    PROVE  SocketInv'
<1> USE DEF Create, workerVars, historyVars
<1>1. /\ t \in Threads /\ t # Worker /\ i_link + 1 \in Links
      /\ link \in [Links -> LinkObject] /\ sock \in [Fds -> Socket]
  BY NextHandle, SocketFacts DEF HandleLeft, TypeOK, LinksOK, SocketTable
<1>2. PICK g \in FreeFds(sock) : /\ sock' = [sock EXCEPT ![g] = Fresh(i_link + 1, "bound")]
                                 /\ link' = [link EXCEPT ![i_link + 1].mi_socket = g]
  OBVIOUS
<1>3. /\ sock'[g] = Fresh(i_link + 1, "bound") /\ \A f \in Fds \ {g} : sock'[f] = sock[f]
      /\ link'[i_link + 1].mi_socket = g
      /\ \A l \in Links \ {i_link + 1} : link'[l].mi_socket = link[l].mi_socket
  BY <1>1, <1>2 DEF FreeFds, LinkObject
<1>4. /\ pc' = [pc EXCEPT ![t] = "set_link"]
      /\ \A u \in Threads \ {t} : on'[u] = on[u] /\ i_fd'[u] = i_fd[u]
  BY DEF Goto, TypeOK, ThreadsOK
<1>5. \A f \in Fds \ {g} : /\ sock'[f].owner = sock[f].owner /\ sock'[f].st = sock[f].st
                           /\ sock'[f].tag = sock[f].tag
  BY <1>3
<1>6. /\ i_link' = i_link + 1 /\ m_maplink' = m_maplink \cup {i_link + 1}
      /\ pc[t] \in {"idle", "accept"} /\ batch' = batch /\ h_accept' = h_accept
  OBVIOUS
<1> HIDE DEF Create
<1> QED
  BY <1>1, <1>3, <1>4, <1>5, <1>6, OpenStep

LEMMA AcceptOpens ==
    ASSUME Assumptions, TypeOK, TypeOK', HandleInv, SocketInv, Accept, i_link' # i_link
    PROVE  SocketInv'
<1> USE DEF Accept, historyVars
<1>0. i_link' # i_link
  OBVIOUS
<1>1. PICK f \in Loaded(Worker) :
         /\ StateOf(sock, f) = "listening"
         /\ i_link < MaxLinks
         /\ \E g \in FreeFds(sock) :
              /\ sock' = [sock EXCEPT ![f].rx = @ - 1, ![g] = Fresh(i_link + 1, "up")]
              /\ link' = [link EXCEPT ![i_link + 1].mi_socket = g,
                                      ![i_link + 1].m_link_type = "Accept"]
         /\ i_link' = i_link + 1
         /\ m_maplink' = m_maplink \cup {i_link + 1}
         /\ h_accept' = i_link + 1
         /\ Goto(Worker, "accept_attach")
  BY <1>0
<1>2. PICK g \in FreeFds(sock) :
         /\ sock' = [sock EXCEPT ![f].rx = @ - 1, ![g] = Fresh(i_link + 1, "up")]
         /\ link' = [link EXCEPT ![i_link + 1].mi_socket = g, ![i_link + 1].m_link_type = "Accept"]
  BY <1>1
<1>3. /\ Worker \in Threads /\ i_link + 1 \in Links /\ f \in Fds
      /\ link \in [Links -> LinkObject] /\ sock \in [Fds -> Socket]
  BY <1>1, NextHandle, SocketFacts DEF StateOf, IsOpen, TypeOK, LinksOK, SocketTable
<1>4. /\ sock'[g] = Fresh(i_link + 1, "up")
      /\ \A k \in Fds \ {g} : /\ sock'[k].owner = sock[k].owner /\ sock'[k].st = sock[k].st
                              /\ sock'[k].tag = sock[k].tag
      /\ link'[i_link + 1].mi_socket = g
      /\ \A l \in Links \ {i_link + 1} : link'[l] = link[l]
  <2>1. g \in Fds /\ f # g
    BY <1>1 DEF FreeFds, StateOf, IsOpen
  <2>2. /\ sock' = [sock EXCEPT ![f].rx = sock[f].rx - 1, ![g] = Fresh(i_link + 1, "up")]
        /\ link' = [link EXCEPT ![i_link + 1].mi_socket = g, ![i_link + 1].m_link_type = "Accept"]
    BY <1>2
  <2> HIDE DEF Accept
  <2>3. sock[f] \in Socket /\ link[i_link + 1] \in LinkObject
    BY <1>3
  <2>4. /\ sock'[g] = Fresh(i_link + 1, "up") /\ \A k \in Fds \ {f, g} : sock'[k] = sock[k]
        /\ sock'[f] = [sock[f] EXCEPT !.rx = sock[f].rx - 1]
    BY <1>3, <2>1, <2>2
  <2>5. /\ link'[i_link + 1] = [link[i_link + 1] EXCEPT !.mi_socket = g, !.m_link_type = "Accept"]
        /\ \A l \in Links \ {i_link + 1} : link'[l] = link[l]
    BY <1>3, <2>2
  <2> QED
    BY <2>3, <2>4, <2>5 DEF Socket, LinkObject
<1>5. \A l \in Links \ {i_link + 1} : link'[l].mi_socket = link[l].mi_socket
  BY <1>4
<1>6. /\ pc' = [pc EXCEPT ![Worker] = "accept_attach"]
      /\ \A u \in Threads \ {Worker} : on'[u] = on[u] /\ i_fd'[u] = i_fd[u]
  BY <1>1 DEF Goto, TypeOK, ThreadsOK
<1>7. pc[Worker] \in {"idle", "accept"} /\ batch' = batch
  OBVIOUS
<1>8. i_link' = i_link + 1 /\ m_maplink' = m_maplink \cup {i_link + 1} /\ h_accept' = i_link + 1
  BY <1>1
<1> HIDE DEF Accept
<1> QED
  BY <1>3, <1>4, <1>5, <1>6, <1>7, <1>8, OpenStep

-----------------------------------------------------------------------------
LEMMA SocketInit == Assumptions /\ Init => SocketInv
<1> SUFFICES ASSUME Assumptions, Init PROVE SocketInv
  OBVIOUS
<1>1. \A f \in Fds : sock[f] = Unused
  BY DEF Init
<1>2. \A t \in Threads : pc[t] \in {"idle", "wait"}
  BY DEF Init
<1>3. OwnersBorn /\ OwnFd /\ OpenIsHeld /\ TagsOwn
  BY <1>1 DEF Init, OwnersBorn, OwnFd, OpenIsHeld, TagsOwn, Unused, NoLink
<1>4. HeldFd /\ ClosedHasNone
  BY <1>2 DEF HeldFd, ClosedHasNone, SystemCallPcs, ClosedPcs
<1>5. AttachedOnce /\ HupIsDown
  <2>1. pc[Worker] \in {"idle", "wait"} /\ batch = {}
    BY <1>2 DEF Init, Threads
  <2> QED
    BY <1>1, <1>2, <2>1 DEF AttachedOnce, HupIsDown, Accepting, Unused
<1> QED
  BY <1>3, <1>4, <1>5 DEF SocketInv

LEMMA SocketStep ==
    Assumptions /\ TypeOK /\ TypeOK' /\ HandleInv /\ SocketInv /\ [Next]_vars => SocketInv'
<1> SUFFICES ASSUME Assumptions, TypeOK, TypeOK', HandleInv, SocketInv, [Next]_vars
             PROVE  SocketInv'
  OBVIOUS
<1>0. Worker \in Threads /\ App \subseteq Threads
  BY DEF Threads
<1>1. CASE UNCHANGED vars
  <2>1. \A u \in Threads : CalmThread(u)
    BY <1>1 DEF vars, CalmThread
  <2>2. Calm
    BY <1>1, <2>1, FrameCalm DEF vars, Calm
  <2> QED
    BY <2>2, CalmStep
<1>2. CASE \E t \in App : AppStep(t)
  BY <1>0, <1>2, DestroyCalm, CallCalm, CreateOpens, CalmStep
<1>3. CASE WorkerStep
  <2>1. CASE i_link' # i_link
    <3>1. Accept
      BY <1>3, <2>1 DEF WorkerStep, EpollWait, Keepalive, KeepaliveFind, Dispatch, EndBatch,
         SendDisconnected, DestroyStep, DestroyCheckFirst, DestroyClearFirst, DelLink,
         DestroyCheckSocket, DestroyClose, DestroySendClosed, DestroyForget, AcceptAttach,
         SendAccepted, ReadBegin, Read, ReadMiddle, ReadGone, ReadEnd, linkVars
    <3> QED
      BY <2>1, <3>1, AcceptOpens
  <2>2. CASE i_link' = i_link
    BY <1>0, <1>3, <2>2, DestroyCalm, WorkerCalm, CalmStep
  <2> QED
    BY <2>1, <2>2
<1>4. CASE PeerStep
  BY <1>4, PeerCalm, CalmStep
<1> QED
  BY <1>1, <1>2, <1>3, <1>4 DEF Next

LEMMA SocketCorrect == Spec => [](TypeOK /\ HandleInv /\ SocketInv)
<1>1. Init => TypeOK /\ HandleInv /\ SocketInv
  BY InitType, HandleInit, SocketInit, TcpLinkAssumption, SocketsAssumption DEF Assumptions
<1>2. TypeOK /\ HandleInv /\ SocketInv /\ [Next]_vars => (TypeOK /\ HandleInv /\ SocketInv)'
  BY StepType, HandleStep, SocketStep, TcpLinkAssumption, SocketsAssumption DEF Assumptions
<1> QED
  BY <1>1, <1>2, PTL DEF Spec

-----------------------------------------------------------------------------
(* What follows, whatever the application calls.                           *)

(* No descriptor is lost: whatever threads create, connect, are refused,   *)
(* destroy or are closed by the peer at the same time, in any number,      *)
(* whenever no call and no batch is under way every open socket is the     *)
(* mi_socket of a registered link, so link_destroy can still close it.     *)
THEOREM SocketsAreKept == Spec => []NoSocketLost
<1>1. TypeOK /\ SocketInv => NoSocketLost
  <2> SUFFICES ASSUME TypeOK, SocketInv, AtRest, NEW f \in Fds, IsOpen(sock, f)
               PROVE  sock[f].owner \in m_maplink /\ Fd(sock[f].owner) = f
    BY DEF NoSocketLost
  <2>1. \A t \in Threads : pc[t] \in {"wait", "idle"}
    BY DEF AtRest, Threads
  <2>2. sock[f].owner # NoLink
    BY DEF IsOpen
  <2> QED
    BY <2>1, <2>2 DEF SocketInv, OpenIsHeld, OwnFd
<1> QED
  BY <1>1, SocketCorrect, PTL

(* Who says DISCONNECTED. *)
LEMMA SaysDisconnected ==
    ASSUME TypeOK, [Next]_vars, NEW l \in Links,
           "DISCONNECTED" \in seen'[l], "DISCONNECTED" \notin seen[l]
    PROVE  SendDisconnected \/ \E t \in App : ConnectForget(t)
<1>0. seen \in [Links -> SUBSET EventNames] /\ seen' # seen
  BY DEF TypeOK, HistoryOK
<1>1. \A h, e : seen' = Told(h, e) => e = "DISCONNECTED"
  BY <1>0 DEF Told
<1>2. CASE \E t \in App : AppStep(t)
  BY <1>0, <1>1, <1>2
  DEF AppStep, InCall, Create, CreateAnnounce, CreateCheckFirst, CreateSetFirst, LinkConnect,
      SendConnected, Attach, ConnectRefused, LinkListen, LinkSendData, CallConnect, CallListen,
      CallSend, CallDestroy, Call, DestroyStep, DestroyCheckFirst, DestroyClearFirst, DelLink,
      DestroyCheckSocket, DestroyClose, DestroySendClosed, DestroyForget, historyVars
<1>3. CASE WorkerStep
  BY <1>0, <1>1, <1>3
  DEF WorkerStep, EpollWait, Keepalive, KeepaliveFind, Dispatch, EndBatch, Accept, AcceptAttach,
      SendAccepted, ReadBegin, Read, ReadMiddle, ReadGone, ReadEnd, DestroyStep, DestroyCheckFirst,
      DestroyClearFirst, DelLink, DestroyCheckSocket, DestroyClose, DestroySendClosed,
      DestroyForget, historyVars
<1>4. CASE PeerStep
  BY <1>0, <1>4
  DEF PeerStep, PeerDials, PeerAnswers, PeerSends, PeerCloses, PeerResets, Peer, historyVars
<1>5. CASE UNCHANGED vars
  BY <1>0, <1>5 DEF vars
<1> QED
  BY <1>2, <1>3, <1>4, <1>5 DEF Next

(* DISCONNECTED is said of a link only when the link's own connection has  *)
(* ended or failed, whatever numbers have been used again in between: the  *)
(* EPOLLHUP that the worker acts on was one of the link's own socket, and  *)
(* a refused connect has closed the socket before it says so.              *)
THEOREM DisconnectedOfOwn == Spec => DisconnectedIsDown
<1>1. TypeOK /\ HandleInv /\ SocketInv /\ [Next]_vars =>
         [\A l \in Links :
            ("DISCONNECTED" \in seen'[l] /\ "DISCONNECTED" \notin seen[l])
              => \A f \in Fds : sock'[f].owner = l => sock'[f].st \in {"fin", "reset"}]_vars
  <2> SUFFICES ASSUME TypeOK, HandleInv, SocketInv, [Next]_vars, NEW l \in Links,
                      "DISCONNECTED" \in seen'[l], "DISCONNECTED" \notin seen[l],
                      NEW f \in Fds, sock'[f].owner = l
               PROVE  sock'[f].st \in {"fin", "reset"}
    OBVIOUS
  <2>1. seen \in [Links -> SUBSET EventNames]
    BY DEF TypeOK, HistoryOK
  <2>2. CASE SendDisconnected
    <3>1. Worker \in Threads /\ pc[Worker] = "disconnected" /\ sock' = sock
      BY <2>2 DEF SendDisconnected, kernelVars, Threads
    <3>2. link[on[Worker]].mh_link = on[Worker]
      BY <3>1, OnKnown DEF Outside
    <3>3. l = on[Worker]
      BY <2>1, <2>2, <3>2 DEF SendDisconnected, Told
    <3> QED
      BY <3>1, <3>3 DEF SocketInv, HupIsDown, Down, Owned
  <2>3. ASSUME NEW t \in App, ConnectForget(t) PROVE FALSE
    <3>1. t \in Threads /\ pc[t] = "refused_forget" /\ sock' = sock
      BY <2>3 DEF ConnectForget, kernelVars, Threads
    <3>2. link[on[t]].mh_link = on[t]
      BY <3>1, OnKnown DEF Outside
    <3>3. l = on[t]
      BY <2>1, <2>3, <3>2 DEF ConnectForget, Told
    <3> QED
      BY <3>1, <3>3 DEF SocketInv, ClosedHasNone, ClosedPcs, Owned
  <2> QED
    BY <2>2, <2>3, SaysDisconnected
<1> QED
  BY <1>1, SocketCorrect, PTL DEF Spec, DisconnectedIsDown

-----------------------------------------------------------------------------
(* As long as the socket of a link is open, whatever a thread is about to  *)
(* do for the link with a number it has loaded, connect, listen, send,     *)
(* accept, read, attach or close, is done to that socket: for every set of *)
(* calls, made by any number of threads beside the worker, and however     *)
(* often numbers are used again.  A thread can act on another link's       *)
(* socket only while its own link has none any more.                       *)
THEOREM CallsReachOwn == Spec => []OwnSocketOnly
<1>1. TypeOK /\ SocketInv => OwnSocketOnly
  <2> SUFFICES ASSUME TypeOK, SocketInv, NEW f \in Fds, sock[f].owner # NoLink
               PROVE  LET l == sock[f].owner IN
                      /\ \A t \in Threads : pc[t] \in SystemCallPcs /\ on[t] = l => Loaded(t) = {f}
                      /\ pc[Worker] = "accept_attach" /\ h_accept = l => Fd(l) = f
    BY DEF OwnSocketOnly
  <2>1. Fd(sock[f].owner) = f
    BY DEF SocketInv, OwnFd
  <2>2. ASSUME NEW t \in Threads, pc[t] \in SystemCallPcs, on[t] = sock[f].owner
        PROVE  i_fd[t] = f
    BY <2>2 DEF SocketInv, HeldFd, Owned
  <2> QED
    BY <2>1, <2>2 DEF Loaded
<1> QED
  BY <1>1, SocketCorrect, PTL

-----------------------------------------------------------------------------
(* Stale numbers.  A registered link that nobody has robbed holds the      *)
(* number of its own socket or none, or a refused connect has closed the   *)
(* socket and is about to forget the number.                               *)

StaleInv ==
    \A l \in m_maplink \ robbed :
        Fd(l) # NoFd => \/ sock[Fd(l)].owner = l
                        \/ \E t \in Threads : on[t] = l /\ pc[t] = "refused_forget"

(* Threads other than t stay where they are. *)
OthersStay(t) == \A u \in Threads \ {t} : pc'[u] = pc[u] /\ on'[u] = on[u]

(* Most steps open nothing, close nothing and forget nothing. *)
Still ==
    /\ \A f \in Fds : sock'[f].owner = sock[f].owner
    /\ \A l \in Links : link'[l].mi_socket = link[l].mi_socket
    /\ m_maplink' \subseteq m_maplink
    /\ robbed' = robbed
    /\ \A t \in Threads : pc[t] = "refused_forget" => pc'[t] = pc[t] /\ on'[t] = on[t]

LEMMA StillStep ==
    ASSUME Assumptions, TypeOK, StaleInv, Still
    PROVE  StaleInv'
<1> SUFFICES ASSUME NEW l \in m_maplink' \ robbed', Fd(l)' # NoFd
             PROVE  \/ sock'[Fd(l)'].owner = l
                    \/ \E t \in Threads : on'[t] = l /\ pc'[t] = "refused_forget"
  BY DEF StaleInv
<1>1. l \in m_maplink \ robbed /\ l \in Links /\ Fd(l)' = Fd(l) /\ Fd(l) \in Fds
  BY SocketFacts DEF Still, Fd, LinkObject, FdOrNone
<1> QED
  BY <1>1 DEF StaleInv, Still

(* close(2) in a call on link l, which is out of the registry by then or   *)
(* whose thread goes on to forget the number.                              *)
LEMMA CloseStep ==
    ASSUME Assumptions, TypeOK, StaleInv, NEW t \in Threads, NEW f, Close(on[t], f),
           link' = link, m_maplink' = m_maplink, OthersStay(t), on'[t] = on[t],
           pc[t] # "refused_forget", on[t] \notin m_maplink \/ pc'[t] = "refused_forget"
    PROVE  StaleInv'
<1> SUFFICES ASSUME NEW l \in m_maplink \ robbed', Fd(l) # NoFd, l # on[t]
             PROVE  \/ sock'[Fd(l)].owner = l
                    \/ \E u \in Threads : on'[u] = l /\ pc'[u] = "refused_forget"
  BY DEF StaleInv, Fd
<1>1. l \in m_maplink \ robbed /\ Fd(l) \in Fds /\ l # NoLink
  BY SocketFacts DEF Close, Fd, LinkObject, FdOrNone
<1>2. CASE sock[Fd(l)].owner = l
  <2>1. f # Fd(l)
    BY <1>1, <1>2 DEF Close, OwnerOf, IsOpen
  <2> QED
    BY <1>1, <1>2, <2>1 DEF Close, CloseFd, TypeOK, SocketTable
<1>3. CASE \E u \in Threads : on[u] = l /\ pc[u] = "refused_forget"
  BY <1>3 DEF OthersStay
<1> QED
  BY <1>1, <1>2, <1>3 DEF StaleInv

(* mi_socket = -1. *)
LEMMA ForgetStep ==
    ASSUME Assumptions, TypeOK, StaleInv, NEW t \in Threads, on[t] \in Links,
           link' = [link EXCEPT ![on[t]].mi_socket = NoFd],
           sock' = sock, m_maplink' = m_maplink, robbed' = robbed, OthersStay(t)
    PROVE  StaleInv'
<1> SUFFICES ASSUME NEW l \in m_maplink \ robbed, Fd(l)' # NoFd
             PROVE  \/ sock[Fd(l)'].owner = l
                    \/ \E u \in Threads : on'[u] = l /\ pc'[u] = "refused_forget"
  BY DEF StaleInv
<1>1. link \in [Links -> LinkObject] /\ l \in Links
  BY SocketFacts DEF TypeOK, LinksOK
<1>2. l # on[t] /\ Fd(l)' = Fd(l)
  BY <1>1 DEF Fd, LinkObject
<1> QED
  BY <1>2 DEF StaleInv, OthersStay

(* socket(2) or accept(2), and add_tcp_link: the number was nobody's, so a *)
(* link that had it before had lost it before.                             *)
LEMMA OpenedStep ==
    ASSUME Assumptions, TypeOK, StaleInv, NEW f \in FreeFds(sock), i_link + 1 \in Links,
           sock'[f].owner = i_link + 1,
           \A g \in Fds \ {f} : sock'[g].owner = sock[g].owner,
           link'[i_link + 1].mi_socket = f,
           \A l \in Links \ {i_link + 1} : link'[l].mi_socket = link[l].mi_socket,
           m_maplink' = m_maplink \cup {i_link + 1}, robbed' = robbed,
           \A t \in Threads : pc[t] = "refused_forget" => pc'[t] = pc[t] /\ on'[t] = on[t]
    PROVE  StaleInv'
<1> SUFFICES ASSUME NEW l \in m_maplink \ robbed, l # i_link + 1, Fd(l)' # NoFd
             PROVE  \/ sock'[Fd(l)'].owner = l
                    \/ \E t \in Threads : on'[t] = l /\ pc'[t] = "refused_forget"
  BY DEF StaleInv, Fd
<1>1. l \in Links /\ l # NoLink /\ Fd(l)' = Fd(l) /\ Fd(l) \in Fds
  BY SocketFacts DEF Fd, LinkObject, FdOrNone
<1>2. CASE sock[Fd(l)].owner = l
  BY <1>1, <1>2 DEF FreeFds
<1>3. CASE \E t \in Threads : on[t] = l /\ pc[t] = "refused_forget"
  BY <1>3
<1> QED
  BY <1>1, <1>2, <1>3 DEF StaleInv

(* epoll_ctl and epoll_wait change no owner. *)
LEMMA OwnersKept ==
    ASSUME Assumptions, TypeOK
    PROVE  /\ \A f, h : \A g \in Fds : attach_to_epoll(sock, f, h)[g].owner = sock[g].owner
           /\ \A f, h : \A g \in Fds : mod_epoll_read(sock, f, h)[g].owner = sock[g].owner
           /\ \A f : \A g \in Fds : del_epoll_read(sock, f)[g].owner = sock[g].owner
           /\ \A g \in Fds : Quieted(sock)[g].owner = sock[g].owner
<1>1. /\ sock \in [Fds -> Socket]
      /\ \A s \in Socket : \A h : Armed(s, h).owner = s.owner
  BY DEF TypeOK, SocketTable, Armed, Socket
<1> QED
  BY <1>1 DEF attach_to_epoll, mod_epoll_read, del_epoll_read, Quieted, IsOpen, CanAttach, Socket

(* A thread that moves and is not about to forget leaves the forgetful.    *)
LEMMA MoveStill ==
    ASSUME TypeOK, NEW t \in Threads, pc[t] # "refused_forget", NEW label,
           pc' = [pc EXCEPT ![t] = label],
           on' = on \/ \E l : on' = [on EXCEPT ![t] = l]
    PROVE  \A u \in Threads : pc[u] = "refused_forget" => pc'[u] = pc[u] /\ on'[u] = on[u]
  BY DEF TypeOK, ThreadsOK

LEMMA MoveOthers ==
    ASSUME TypeOK, NEW t \in Threads, NEW label, pc' = [pc EXCEPT ![t] = label], on' = on
    PROVE  pc'[t] = label /\ OthersStay(t)
  BY DEF TypeOK, ThreadsOK, OthersStay

(* The type of a link and its handle are not its descriptor. *)
LEMMA FieldsStill ==
    ASSUME TypeOK, NEW n, NEW x
    PROVE  /\ \A l \in Links : [link EXCEPT ![n].m_link_type = x][l].mi_socket = link[l].mi_socket
           /\ \A l \in Links : [link EXCEPT ![n].mh_link = x][l].mi_socket = link[l].mi_socket
<1>1. link \in [Links -> LinkObject] /\ \A l \in Links : link[l] \in LinkObject
  BY DEF TypeOK, LinksOK
<1> QED
  BY <1>1 DEF LinkObject

LEMMA DestroyStale ==
    ASSUME Assumptions, TypeOK, HandleInv, StaleInv, NEW t \in Threads, DestroyStep(t)
    PROVE  StaleInv'
<1> USE DEF linkVars, kernelVars, historyVars, Goto, Reach
<1>1. CASE DestroyCheckFirst(t) \/ DestroyClearFirst(t) \/ DestroyCheckSocket(t) \/ DestroySendClosed(t)
  <2>1. \E label : pc' = [pc EXCEPT ![t] = label]
    BY <1>1 DEF DestroyCheckFirst, DestroyClearFirst, DestroyCheckSocket, DestroySendClosed
  <2>2. /\ pc[t] # "refused_forget" /\ on' = on
        /\ sock' = sock /\ link' = link /\ m_maplink' = m_maplink /\ robbed' = robbed
    BY <1>1 DEF DestroyCheckFirst, DestroyClearFirst, DestroyCheckSocket, DestroySendClosed
  <2> QED
    BY <2>1, <2>2, MoveStill, StillStep DEF Still
<1>2. CASE DelLink(t)
  <2>1. /\ pc[t] # "refused_forget" /\ pc' = [pc EXCEPT ![t] = "check"] /\ on' = on
        /\ link' = link /\ m_maplink' \subseteq m_maplink /\ robbed' = robbed
        /\ sock' = sock \/ \E f : sock' = del_epoll_read(sock, f)
    BY <1>2 DEF DelLink
  <2> QED
    BY <2>1, MoveStill, StillStep, OwnersKept DEF Still
<1>3. CASE DestroyClose(t)
  <2>1. PICK f \in Loaded(t) : Close(on[t], f)
    BY <1>3 DEF DestroyClose
  <2>2. /\ pc[t] = "close" /\ on' = on /\ link' = link /\ m_maplink' = m_maplink
        /\ pc' = [pc EXCEPT ![t] = IF b_self[t] THEN "closed" ELSE "forget"]
    BY <1>3 DEF DestroyClose
  <2>3. on[t] \notin m_maplink
    BY <2>2 DEF HandleInv, GoneStays, GonePcs
  <2> QED
    BY <2>1, <2>2, <2>3, MoveOthers, CloseStep
<1>4. CASE DestroyForget(t)
  <2>1. /\ pc[t] = "forget" /\ on' = on /\ sock' = sock /\ m_maplink' = m_maplink /\ robbed' = robbed
        /\ link' = [link EXCEPT ![on[t]].mi_socket = NoFd] /\ pc' = [pc EXCEPT ![t] = Return(t)]
    BY <1>4 DEF DestroyForget
  <2>2. on[t] \in Links
    BY <2>1, SocketFacts DEF Outside
  <2> QED
    BY <2>1, <2>2, MoveOthers, ForgetStep
<1> QED
  BY <1>1, <1>2, <1>3, <1>4 DEF DestroyStep

LEMMA CallStale ==
    ASSUME Assumptions, TypeOK, HandleInv, StaleInv, NEW t \in App, AppStep(t)
    PROVE  StaleInv'
<1> USE DEF linkVars, kernelVars, historyVars, Goto, Reach
<1>0. t \in Threads
  BY DEF Threads
<1>1. CASE Create(t)
  <2> USE <1>1 DEF Create
  <2>1. /\ i_link + 1 \in Links /\ link \in [Links -> LinkObject] /\ sock \in [Fds -> Socket]
    BY NextHandle DEF HandleLeft, TypeOK, LinksOK, SocketTable
  <2>2. PICK g \in FreeFds(sock) : /\ sock' = [sock EXCEPT ![g] = Fresh(i_link + 1, "bound")]
                                   /\ link' = [link EXCEPT ![i_link + 1].mi_socket = g]
    OBVIOUS
  <2>3. /\ sock'[g].owner = i_link + 1 /\ \A f \in Fds \ {g} : sock'[f].owner = sock[f].owner
        /\ link'[i_link + 1].mi_socket = g
        /\ \A l \in Links \ {i_link + 1} : link'[l].mi_socket = link[l].mi_socket
    BY <2>1, <2>2 DEF FreeFds, LinkObject, Fresh
  <2>4. \A u \in Threads : pc[u] = "refused_forget" => pc'[u] = pc[u] /\ on'[u] = on[u]
    BY <1>0, MoveStill
  <2>5. m_maplink' = m_maplink \cup {i_link + 1} /\ robbed' = robbed
    OBVIOUS
  <2> QED
    BY <2>1, <2>3, <2>4, <2>5, OpenedStep
<1>2. CASE CreateAnnounce(t)
  <2>1. /\ pc[t] # "refused_forget" /\ pc' = [pc EXCEPT ![t] = "check_first"] /\ on' = on
        /\ sock' = sock /\ m_maplink' = m_maplink /\ robbed' = robbed
        /\ link' = [link EXCEPT ![on[t]].mh_link = on[t]]
    BY <1>2 DEF CreateAnnounce
  <2> QED
    BY <1>0, <2>1, MoveStill, FieldsStill, StillStep DEF Still
<1>3. CASE CreateCheckFirst(t) \/ CreateSetFirst(t) \/ SendConnected(t) \/ LinkSendData(t)
  <2>1. \E label : pc' = [pc EXCEPT ![t] = label]
    BY <1>3 DEF CreateCheckFirst, CreateSetFirst, SendConnected, LinkSendData
  <2>2. /\ pc[t] # "refused_forget" /\ on' = on
        /\ sock' = sock /\ link' = link /\ m_maplink' = m_maplink /\ robbed' = robbed
    BY <1>3 DEF CreateCheckFirst, CreateSetFirst, SendConnected, LinkSendData
  <2> QED
    BY <1>0, <2>1, <2>2, MoveStill, StillStep DEF Still
<1>4. CASE CallConnect(t) \/ CallListen(t) \/ CallSend(t) \/ CallDestroy(t)
  <2>1. /\ pc[t] # "refused_forget" /\ \E label : pc' = [pc EXCEPT ![t] = label]
        /\ \E l : on' = [on EXCEPT ![t] = l]
        /\ sock' = sock /\ link' = link /\ m_maplink' = m_maplink /\ robbed' = robbed
    BY <1>4 DEF CallConnect, CallListen, CallSend, CallDestroy, Call
  <2> QED
    BY <1>0, <2>1, MoveStill, StillStep DEF Still
<1>5. CASE LinkConnect(t) \/ LinkListen(t)
  <2>1. /\ pc[t] # "refused_forget" /\ \E label : pc' = [pc EXCEPT ![t] = label]
        /\ on' = on /\ m_maplink' = m_maplink /\ robbed' = robbed
        /\ \E type : link' = [link EXCEPT ![on[t]].m_link_type = type]
    BY <1>5 DEF LinkConnect, LinkListen
  <2>2. sock' = sock \/ \E f, st : sock' = [sock EXCEPT ![f].st = st]
    BY <1>5 DEF LinkConnect, LinkListen
  <2>3. \A f \in Fds : sock'[f].owner = sock[f].owner
    BY <2>2 DEF TypeOK, SocketTable, Socket
  <2> QED
    BY <1>0, <2>1, <2>3, MoveStill, FieldsStill, StillStep DEF Still
<1>6. CASE Attach(t)
  <2>1. /\ pc[t] # "refused_forget" /\ pc' = [pc EXCEPT ![t] = "idle"] /\ on' = on
        /\ link' = link /\ m_maplink' = m_maplink /\ robbed' = robbed
        /\ sock' = sock \/ \E f : sock' = attach_to_epoll(sock, f, on[t])
    BY <1>6 DEF Attach
  <2> QED
    BY <1>0, <2>1, MoveStill, OwnersKept, StillStep DEF Still
<1>7. CASE ConnectRefused(t)
  <2>1. PICK f \in Loaded(t) : Close(on[t], f)
    BY <1>7 DEF ConnectRefused
  <2>2. /\ pc[t] = "refused" /\ on' = on /\ link' = link /\ m_maplink' = m_maplink
        /\ pc' = [pc EXCEPT ![t] = "refused_forget"]
    BY <1>7 DEF ConnectRefused
  <2> QED
    BY <1>0, <2>1, <2>2, MoveOthers, CloseStep
<1>8. CASE ConnectForget(t)
  <2>1. /\ pc[t] = "refused_forget" /\ on' = on /\ sock' = sock /\ m_maplink' = m_maplink
        /\ robbed' = robbed /\ link' = [link EXCEPT ![on[t]].mi_socket = NoFd]
        /\ pc' = [pc EXCEPT ![t] = "idle"]
    BY <1>8 DEF ConnectForget
  <2>2. on[t] \in Links
    BY <1>0, <2>1, SocketFacts DEF Outside
  <2> QED
    BY <1>0, <2>1, <2>2, MoveOthers, ForgetStep
<1>9. CASE DestroyStep(t)
  BY <1>0, <1>9, DestroyStale
<1> QED
  BY <1>1, <1>2, <1>3, <1>4, <1>5, <1>6, <1>7, <1>8, <1>9 DEF AppStep, InCall

LEMMA WorkerStale ==
    ASSUME Assumptions, TypeOK, HandleInv, StaleInv, WorkerStep
    PROVE  StaleInv'
<1> USE DEF linkVars, kernelVars, historyVars, Goto, Reach
<1>0. Worker \in Threads
  BY DEF Threads
<1>1. CASE EpollWait
  <2>1. /\ pc[Worker] # "refused_forget" /\ pc' = [pc EXCEPT ![Worker] = "keepalive"] /\ on' = on
        /\ sock' = Quieted(sock) /\ link' = link /\ m_maplink' = m_maplink /\ robbed' = robbed
    BY <1>1 DEF EpollWait
  <2> QED
    BY <1>0, <2>1, MoveStill, OwnersKept, StillStep DEF Still
<1>2. CASE \/ Keepalive \/ KeepaliveFind \/ EndBatch \/ SendDisconnected
           \/ SendAccepted \/ ReadBegin \/ ReadMiddle \/ ReadEnd
  <2>1. \E label : pc' = [pc EXCEPT ![Worker] = label]
    BY <1>2 DEF Keepalive, KeepaliveFind, EndBatch, SendDisconnected, SendAccepted, ReadBegin,
       ReadMiddle, ReadEnd
  <2>2. /\ pc[Worker] # "refused_forget" /\ on' = on
        /\ sock' = sock /\ link' = link /\ m_maplink' = m_maplink /\ robbed' = robbed
    BY <1>2 DEF Keepalive, KeepaliveFind, EndBatch, SendDisconnected, SendAccepted, ReadBegin,
       ReadMiddle, ReadEnd
  <2> QED
    BY <1>0, <2>1, <2>2, MoveStill, StillStep DEF Still
<1>3. CASE Dispatch
  <2>1. /\ pc[Worker] # "refused_forget" /\ sock' = sock /\ m_maplink' = m_maplink /\ robbed' = robbed
        /\ \/ pc' = pc /\ on' = on
           \/ /\ \E label : pc' = [pc EXCEPT ![Worker] = label]
              /\ \E l : on' = [on EXCEPT ![Worker] = l]
        /\ link' = link \/ \E l, type : link' = [link EXCEPT ![l].m_link_type = type]
    BY <1>3 DEF Dispatch
  <2>2. \A u \in Threads : pc[u] = "refused_forget" => pc'[u] = pc[u] /\ on'[u] = on[u]
    BY <1>0, <2>1, MoveStill
  <2>3. \A l \in Links : link'[l].mi_socket = link[l].mi_socket
    <3>1. CASE link' = link
      BY <3>1
    <3>2. CASE \E l, type : link' = [link EXCEPT ![l].m_link_type = type]
      BY <3>2, FieldsStill
    <3> QED
      BY <2>1, <3>1, <3>2
  <2> QED
    BY <2>1, <2>2, <2>3, StillStep DEF Still
<1>4. CASE Accept
  <2>1. CASE i_link' = i_link
    <3>1. /\ pc[Worker] # "refused_forget" /\ pc' = [pc EXCEPT ![Worker] = "events"] /\ on' = on
          /\ sock' = sock /\ link' = link /\ m_maplink' = m_maplink /\ robbed' = robbed
      BY <1>4, <2>1, SocketFacts DEF Accept
    <3> QED
      BY <1>0, <3>1, MoveStill, StillStep DEF Still
  <2>2. CASE i_link' # i_link
    <3>1. PICK f \in Loaded(Worker) :
             /\ StateOf(sock, f) = "listening"
             /\ i_link < MaxLinks
             /\ \E g \in FreeFds(sock) :
                  /\ sock' = [sock EXCEPT ![f].rx = @ - 1, ![g] = Fresh(i_link + 1, "up")]
                  /\ link' = [link EXCEPT ![i_link + 1].mi_socket = g,
                                          ![i_link + 1].m_link_type = "Accept"]
             /\ m_maplink' = m_maplink \cup {i_link + 1}
             /\ pc' = [pc EXCEPT ![Worker] = "accept_attach"]
      BY <1>4, <2>2 DEF Accept
    <3>2. PICK g \in FreeFds(sock) :
             /\ sock' = [sock EXCEPT ![f].rx = sock[f].rx - 1, ![g] = Fresh(i_link + 1, "up")]
             /\ link' = [link EXCEPT ![i_link + 1].mi_socket = g,
                                     ![i_link + 1].m_link_type = "Accept"]
      BY <3>1
    <3>3. /\ i_link + 1 \in Links /\ f \in Fds /\ g \in Fds /\ f # g
          /\ link \in [Links -> LinkObject] /\ sock \in [Fds -> Socket]
      BY <3>1, NextHandle DEF StateOf, IsOpen, FreeFds, TypeOK, LinksOK, SocketTable
    <3>4. sock'[g].owner = i_link + 1 /\ \A k \in Fds \ {g} : sock'[k].owner = sock[k].owner
      BY <3>2, <3>3 DEF Fresh, Socket
    <3>5. /\ link'[i_link + 1] = [link[i_link + 1] EXCEPT !.mi_socket = g, !.m_link_type = "Accept"]
          /\ \A l \in Links \ {i_link + 1} : link'[l] = link[l]
      BY <3>2, <3>3
    <3>6. link'[i_link + 1].mi_socket = g
      BY <3>3, <3>5 DEF LinkObject
    <3>7. \A u \in Threads : pc[u] = "refused_forget" => pc'[u] = pc[u] /\ on'[u] = on[u]
      BY <1>0, <1>4, <3>1, MoveStill DEF Accept
    <3>8. robbed' = robbed
      BY <1>4 DEF Accept
    <3> QED
      BY <3>1, <3>3, <3>4, <3>5, <3>6, <3>7, <3>8, OpenedStep
  <2> QED
    BY <2>1, <2>2
<1>5. CASE AcceptAttach
  <2>1. /\ pc[Worker] # "refused_forget" /\ \E label : pc' = [pc EXCEPT ![Worker] = label]
        /\ on' = on /\ m_maplink' = m_maplink /\ robbed' = robbed
        /\ link' = [link EXCEPT ![h_accept].mh_link = h_accept]
        /\ sock' = sock \/ \E f : sock' = attach_to_epoll(sock, f, h_accept)
    BY <1>5 DEF AcceptAttach
  <2> QED
    BY <1>0, <2>1, MoveStill, FieldsStill, OwnersKept, StillStep DEF Still
<1>6. CASE Read
  <2>1. /\ pc[Worker] # "refused_forget" /\ \E label : pc' = [pc EXCEPT ![Worker] = label]
        /\ on' = on /\ link' = link /\ m_maplink' = m_maplink /\ robbed' = robbed
        /\ \/ sock' = sock
           \/ \E f, n : sock' = [sock EXCEPT ![f].rx = n]
           \/ \E f, h : sock' = mod_epoll_read(sock, f, h)
    BY <1>6 DEF Read
  <2>2. \A f \in Fds : sock'[f].owner = sock[f].owner
    <3>1. CASE \E f, n : sock' = [sock EXCEPT ![f].rx = n]
      BY <3>1 DEF TypeOK, SocketTable, Socket
    <3> QED
      BY <2>1, <3>1, OwnersKept
  <2> QED
    BY <1>0, <2>1, <2>2, MoveStill, StillStep DEF Still
<1>7. CASE ReadGone
  <2>1. /\ pc[Worker] # "refused_forget" /\ pc' = [pc EXCEPT ![Worker] = "destroy"]
        /\ on' = on /\ link' = link /\ m_maplink' = m_maplink /\ robbed' = robbed
        /\ \E f : sock' = del_epoll_read(sock, f)
    BY <1>7 DEF ReadGone
  <2> QED
    BY <1>0, <2>1, MoveStill, OwnersKept, StillStep DEF Still
<1>8. CASE DestroyStep(Worker)
  BY <1>0, <1>8, DestroyStale
<1> QED
  BY <1>1, <1>2, <1>3, <1>4, <1>5, <1>6, <1>7, <1>8 DEF WorkerStep

LEMMA StaleStep == Assumptions /\ TypeOK /\ HandleInv /\ StaleInv /\ [Next]_vars => StaleInv'
<1> SUFFICES ASSUME Assumptions, TypeOK, HandleInv, StaleInv, [Next]_vars PROVE StaleInv'
  OBVIOUS
<1>1. CASE PeerStep
  <2>1. PICK f \in Fds : \/ PeerDials(f) \/ PeerAnswers(f) \/ PeerSends(f)
                         \/ PeerCloses(f) \/ PeerResets(f)
    BY <1>1 DEF PeerStep
  <2>2. /\ sock \in [Fds -> Socket]
        /\ \E s : s.owner = sock[f].owner /\ sock' = [sock EXCEPT ![f] = Edge(s)]
    BY <2>1 DEF PeerDials, PeerAnswers, PeerSends, PeerCloses, PeerResets, Peer, TypeOK, SocketTable,
       Socket
  <2>3. \A g \in Fds : sock'[g].owner = sock[g].owner
    BY <2>2 DEF Edge
  <2>4. pc' = pc /\ on' = on /\ link' = link /\ m_maplink' = m_maplink /\ robbed' = robbed
    BY <2>1 DEF PeerDials, PeerAnswers, PeerSends, PeerCloses, PeerResets, Peer, linkVars, threadVars,
       historyVars
  <2> QED
    BY <2>3, <2>4, StillStep DEF Still
<1>2. CASE UNCHANGED vars
  BY <1>2, StillStep DEF vars, Still
<1> QED
  BY <1>1, <1>2, CallStale, WorkerStale DEF Next

(* A registered link never holds the number of a descriptor that is closed *)
(* or has become somebody else's, unless a close that was made for another *)
(* link through a stale number has hit its socket: whatever is created,    *)
(* connected, refused, sent and destroyed meanwhile, by any threads.       *)
THEOREM NumbersAreNotStale == Spec => []NoStaleDescriptor
<1>1. Init => StaleInv
  BY DEF Init, StaleInv
<1>2. TypeOK /\ HandleInv /\ StaleInv /\ [Next]_vars => StaleInv'
  BY StaleStep, TcpLinkAssumption, SocketsAssumption DEF Assumptions
<1>3. TypeOK /\ StaleInv => NoStaleDescriptor
  <2> SUFFICES ASSUME TypeOK, StaleInv, AtRest, NEW l \in m_maplink \ robbed, Fd(l) # NoFd
               PROVE  OwnerOf(sock, Fd(l)) = l
    BY DEF NoStaleDescriptor
  <2>1. \A t \in Threads : pc[t] \in {"wait", "idle"}
    BY DEF AtRest, Threads
  <2>2. sock[Fd(l)].owner = l
    BY <2>1 DEF StaleInv
  <2>3. l # NoLink /\ Fd(l) \in Fds
    BY SocketFacts, TcpLinkAssumption, SocketsAssumption
    DEF Assumptions, Fd, LinkObject, FdOrNone
  <2> QED
    BY <2>2, <2>3 DEF OwnerOf, IsOpen
<1> QED
  BY <1>1, <1>2, <1>3, HandleCorrect, PTL DEF Spec
=============================================================================
