--------------------------- MODULE TcpLink_proofs ---------------------------
(***************************************************************************)
(* Proofs about TcpLink, for every number of descriptors, links, threads   *)
(* and every set of calls the threads make: the types; that links are      *)
(* announced before they are used and a closed one is gone; and that the   *)
(* registry with its callbacks implements LinkTable.                       *)
(***************************************************************************)
EXTENDS TcpLink, TLAPS

-----------------------------------------------------------------------------
(* The operations on the descriptor table stay in its type. *)

LEMMA CloseFdType ==
    ASSUME NEW tab \in SocketTable, NEW f \in FdOrNone
    PROVE  CloseFd(tab, f) \in SocketTable
  BY SocketsAssumption DEF CloseFd, SocketTable, Socket, Unused, LinkOrNone, NoLink, SocketStates

LEMMA AttachType ==
    ASSUME NEW tab \in SocketTable, NEW f \in FdOrNone, NEW h \in LinkOrNone
    PROVE  /\ attach_to_epoll(tab, f, h) \in SocketTable
           /\ mod_epoll_read(tab, f, h) \in SocketTable
  <1> (Poll(tab[f]) # {}) \in BOOLEAN
    OBVIOUS
  <1> QED
  BY SocketsAssumption DEF attach_to_epoll, mod_epoll_read, CanAttach, IsOpen, Armed,
     SocketTable, Socket

LEMMA DetachType ==
    ASSUME NEW tab \in SocketTable, NEW f \in FdOrNone
    PROVE  del_epoll_read(tab, f) \in SocketTable
  BY DEF del_epoll_read, IsOpen, SocketTable, Socket, LinkOrNone, NoLink

LEMMA HarvestType ==
    ASSUME NEW tab \in SocketTable
    PROVE  /\ Quieted(tab) \in SocketTable
           /\ Harvest(tab) \in SUBSET [h : LinkOrNone, ev : SUBSET {"HUP", "IN", "OUT"}]
  <1>1. Quieted(tab) \in SocketTable
    BY DEF Quieted, SocketTable, Socket
  <1>2. ASSUME NEW f \in Fds
        PROVE  /\ tab[f].tag \in LinkOrNone
               /\ Poll(tab[f]) \in SUBSET {"HUP", "IN", "OUT"}
    BY DEF SocketTable, Socket, Poll
  <1> QED
    BY <1>1, <1>2 DEF Harvest, Reported

LEMMA FdType ==
    ASSUME LinksOK, NEW l \in Links
    PROVE  Fd(l) \in FdOrNone
  BY DEF LinksOK, Fd, LinkObject

LEMMA LoadedType ==
    ASSUME LinksOK, ThreadsOK, NEW t \in Threads, on[t] \in Links
    PROVE  Loaded(t) \subseteq FdOrNone
  BY FdType DEF ThreadsOK, Loaded

LEMMA CloseType ==
    ASSUME HistoryOK, sock \in SocketTable, NEW l, NEW f \in FdOrNone, Close(l, f)
    PROVE  sock' \in SocketTable /\ robbed' \in SUBSET Links
<1>1. OwnerOf(sock, f) \in LinkOrNone
  BY DEF OwnerOf, IsOpen, SocketTable, Socket, LinkOrNone
<1> QED
  BY <1>1, CloseFdType DEF Close, HistoryOK, LinkOrNone

LEMMA ToldType ==
    ASSUME HistoryOK, NEW h, NEW e \in EventNames
    PROVE  Told(h, e) \in [Links -> SUBSET EventNames]
  BY DEF HistoryOK, Told

-----------------------------------------------------------------------------
(* A thread that moves to a label of its own program, on a link, keeps the *)
(* threads' types.                                                         *)

Moves(t, label, l, d) ==
    /\ pc' = [pc EXCEPT ![t] = label]
    /\ on' = [on EXCEPT ![t] = l]
    /\ i_fd' = [i_fd EXCEPT ![t] = d]

LEMMA MoveType ==
    ASSUME ThreadsOK, TcpLinkAssumption, NEW t \in Threads, NEW label, NEW l \in LinkOrNone,
           NEW d \in FdOrNone, Moves(t, label, l, d),
           t \in App => label \in AppPcs, t = Worker => label \in WorkerPcs,
           label \in Outside \/ l \in Links,
           b_self' \in [Threads -> BOOLEAN]
    PROVE  ThreadsOK'
<1>1. label \in AppPcs \cup WorkerPcs
  BY DEF Threads
<1>2. /\ pc' \in [Threads -> AppPcs \cup WorkerPcs]
      /\ pc'[t] = label
      /\ \A u \in Threads : u # t => pc'[u] = pc[u]
  BY <1>1 DEF Moves, ThreadsOK
<1>3. /\ on' \in [Threads -> LinkOrNone]
      /\ on'[t] = l
      /\ \A u \in Threads : u # t => on'[u] = on[u]
  BY DEF Moves, ThreadsOK
<1>4. i_fd' \in [Threads -> FdOrNone]
  BY DEF Moves, ThreadsOK
<1>5. \A u \in Threads : pc'[u] \notin Outside => on'[u] \in Links
  BY <1>2, <1>3 DEF ThreadsOK
<1>6. (\A u \in App : pc'[u] \in AppPcs) /\ pc'[Worker] \in WorkerPcs
  BY <1>2 DEF ThreadsOK, Threads, TcpLinkAssumption
<1> QED
  BY <1>2, <1>3, <1>4, <1>5, <1>6 DEF ThreadsOK

LEMMA GotoMoves ==
    ASSUME ThreadsOK, NEW t \in Threads, NEW label, Goto(t, label), UNCHANGED on
    PROVE  Moves(t, label, on[t], NoFd)
  BY DEF ThreadsOK, Goto, Moves

LEMMA ReachMoves ==
    ASSUME ThreadsOK, NEW t \in Threads, NEW label, NEW l, Reach(t, label, l), UNCHANGED on
    PROVE  Moves(t, label, on[t], Fd(l))
  BY DEF ThreadsOK, Reach, Moves

-----------------------------------------------------------------------------
(* Type correctness, one lemma for each group of actions. *)

LEMMA InitType == TcpLinkAssumption /\ SocketsAssumption /\ Init => TypeOK
<1> SUFFICES ASSUME TcpLinkAssumption, SocketsAssumption, Init PROVE TypeOK
  OBVIOUS
<1>1. sock \in SocketTable
  BY DEF Init, SocketTable, Socket, Unused, LinkOrNone, NoLink, SocketStates
<1>2. LinksOK
  BY SocketsAssumption DEF Init, LinksOK, LinkObject, NewLink, LinkOrNone, NoLink, FdOrNone, LinkTypes
<1>3. ThreadsOK
  <2>1. "idle" \in AppPcs /\ "wait" \in WorkerPcs /\ {"idle", "wait"} \subseteq Outside
    BY DEF AppPcs, WorkerPcs, Outside
  <2>2. \A t \in App : t \in Threads /\ t # Worker
    BY TcpLinkAssumption DEF Threads
  <2> QED
    BY <2>1, <2>2 DEF Init, ThreadsOK, Threads, LinkOrNone, FdOrNone, NoLink
<1>4. WorkerOK
  BY TcpLinkAssumption DEF Init, WorkerOK, LinkOrNone, NoLink, Threads
<1>5. HistoryOK
  BY DEF Init, HistoryOK
<1> QED
  BY <1>1, <1>2, <1>3, <1>4, <1>5 DEF TypeOK

(* What a step that changes pc[t] only leaves alone of the worker. *)
LEMMA OtherPc ==
    ASSUME ThreadsOK, TcpLinkAssumption, NEW t \in App, NEW label, NEW l,
           Goto(t, label) \/ Reach(t, label, l)
    PROVE  pc'[Worker] = pc[Worker]
  BY DEF ThreadsOK, Threads, Goto, Reach, TcpLinkAssumption

LEMMA DestroyType ==
    ASSUME TcpLinkAssumption, SocketsAssumption, TypeOK, NEW t \in Threads, DestroyStep(t)
    PROVE  TypeOK'
<1> USE TcpLinkAssumption, SocketsAssumption
<1> USE DEF kernelVars, linkVars, workerVars, threadVars, historyVars
<1> USE DEF TypeOK
<1>0. pc[t] \notin Outside /\ on[t] \in Links /\ on[t] \in LinkOrNone /\ Fd(on[t]) \in FdOrNone
  <2>1. pc[t] \notin Outside
    BY DEF DestroyStep, DestroyCheckFirst, DestroyClearFirst, DelLink, DestroyCheckSocket,
       DestroyClose, DestroySendClosed, DestroyForget, Outside
  <2> QED
    BY <2>1, FdType DEF ThreadsOK, LinkOrNone
<1>1. /\ NoFd \in FdOrNone
      /\ \A label \in DestroyPcs : label \in AppPcs /\ label \in WorkerPcs
      /\ t \in App => Return(t) \in AppPcs
      /\ t = Worker => Return(t) \in WorkerPcs
  BY DEF FdOrNone, AppPcs, WorkerPcs, Return
<1>2. \A label \in {"clear_first", "del_link", "check", "close", "closed", "forget"} :
         label \in DestroyPcs
  BY DEF DestroyPcs
<1>3. t = Worker => \/ pc'[Worker] \notin {"accept_attach", "accepted"}
                    \/ pc'[Worker] = pc[Worker]
  BY DEF DestroyStep, DestroyCheckFirst, DestroyClearFirst, DelLink, DestroyCheckSocket,
     DestroyClose, DestroySendClosed, DestroyForget, Goto, Reach, ThreadsOK, Return
<1>4. t \in App => pc'[Worker] = pc[Worker]
  BY DEF DestroyStep, DestroyCheckFirst, DestroyClearFirst, DelLink, DestroyCheckSocket,
     DestroyClose, DestroySendClosed, DestroyForget, Goto, Reach, ThreadsOK, Threads
<1>5. ASSUME UNCHANGED workerVars PROVE WorkerOK'
  BY <1>3, <1>4, <1>5 DEF WorkerOK, Threads
<1>6. Loaded(t) \subseteq FdOrNone
  BY <1>0, LoadedType
<1>7. CASE DestroyCheckFirst(t)
  <2> USE <1>7 DEF DestroyCheckFirst
  <2>1. ThreadsOK'
    <3>1. PICK label \in DestroyPcs : Reach(t, label, on[t])
      BY <1>2
    <3> QED
      BY <1>0, <1>1, <3>1, ReachMoves, MoveType DEF ThreadsOK
  <2>2. sock' \in SocketTable
    OBVIOUS
  <2>3. LinksOK'
    BY DEF LinksOK
  <2>4. HistoryOK'
    BY DEF HistoryOK
  <2> QED
    BY <1>5, <2>1, <2>2, <2>3, <2>4
<1>8. CASE DestroyClearFirst(t)
  <2> USE <1>8 DEF DestroyClearFirst
  <2>1. ThreadsOK'
    BY <1>0, <1>1, <1>2, ReachMoves, MoveType DEF ThreadsOK
  <2>2. sock' \in SocketTable
    OBVIOUS
  <2>3. LinksOK'
    BY DEF LinksOK, LinkOrNone
  <2>4. HistoryOK'
    BY DEF HistoryOK
  <2> QED
    BY <1>5, <2>1, <2>2, <2>3, <2>4
<1>9. CASE DelLink(t)
  <2> USE <1>9 DEF DelLink
  <2>1. ThreadsOK'
    BY <1>0, <1>1, <1>2, GotoMoves, MoveType DEF ThreadsOK
  <2>2. sock' \in SocketTable
    BY <1>6, DetachType
  <2>3. LinksOK'
    BY DEF LinksOK
  <2>4. HistoryOK'
    BY DEF HistoryOK
  <2> QED
    BY <1>5, <2>1, <2>2, <2>3, <2>4
<1>10. CASE DestroyCheckSocket(t)
  <2> USE <1>10 DEF DestroyCheckSocket
  <2>1. ThreadsOK'
    <3>1. CASE Reach(t, "close", on[t])
      BY <1>0, <1>1, <1>2, <3>1, ReachMoves, MoveType DEF ThreadsOK
    <3>2. CASE Goto(t, Return(t))
      BY <1>0, <1>1, <3>2, GotoMoves, MoveType DEF ThreadsOK
    <3> QED
      BY <3>1, <3>2
  <2>2. sock' \in SocketTable
    OBVIOUS
  <2>3. LinksOK'
    BY DEF LinksOK
  <2>4. HistoryOK'
    BY DEF HistoryOK
  <2> QED
    BY <1>5, <2>1, <2>2, <2>3, <2>4
<1>11. CASE DestroyClose(t)
  <2> USE <1>11 DEF DestroyClose
  <2>1. ThreadsOK'
    <3>1. PICK label \in DestroyPcs : Goto(t, label)
      BY <1>2
    <3> QED
      BY <1>0, <1>1, <3>1, GotoMoves, MoveType DEF ThreadsOK
  <2>2. sock' \in SocketTable /\ robbed' \in SUBSET Links
    BY <1>6, CloseType
  <2>3. LinksOK'
    BY DEF LinksOK
  <2>4. HistoryOK'
    BY <2>2 DEF HistoryOK
  <2> QED
    BY <1>5, <2>1, <2>2, <2>3, <2>4
<1>12. CASE DestroySendClosed(t)
  <2> USE <1>12 DEF DestroySendClosed
  <2>1. ThreadsOK'
    BY <1>0, <1>1, <1>2, GotoMoves, MoveType DEF ThreadsOK
  <2>2. sock' \in SocketTable
    OBVIOUS
  <2>3. LinksOK'
    BY DEF LinksOK
  <2>4. HistoryOK'
    BY ToldType DEF HistoryOK, EventNames
  <2> QED
    BY <1>5, <2>1, <2>2, <2>3, <2>4
<1>13. CASE DestroyForget(t)
  <2> USE <1>13 DEF DestroyForget
  <2>1. ThreadsOK'
    BY <1>0, <1>1, <1>2, GotoMoves, MoveType DEF ThreadsOK
  <2>2. sock' \in SocketTable
    OBVIOUS
  <2>3. LinksOK'
    BY <1>0, <1>1 DEF LinksOK, LinkObject
  <2>4. HistoryOK'
    BY DEF HistoryOK
  <2> QED
    BY <1>5, <2>1, <2>2, <2>3, <2>4
<1> QED
  BY <1>7, <1>8, <1>9, <1>10, <1>11, <1>12, <1>13 DEF DestroyStep

LEMMA CallType ==
    ASSUME TcpLinkAssumption, SocketsAssumption, TypeOK, NEW t \in App, AppStep(t),
           ~DestroyStep(t)
    PROVE  TypeOK'
<1> USE TcpLinkAssumption, SocketsAssumption
<1> USE DEF kernelVars, linkVars, workerVars, threadVars, historyVars
<1> USE DEF TypeOK
<1> t \in Threads
  BY DEF Threads
<1>1. /\ NoFd \in FdOrNone
      /\ \A label \in {"idle", "set_link", "check_first", "set_first", "connect", "connected",
                       "attach", "refused", "refused_forget", "listen", "send", "destroy"} :
            label \in AppPcs
      /\ "idle" \in Outside
      /\ t # Worker
      /\ \A l \in Links : l \in LinkOrNone
      /\ on[t] \in LinkOrNone
      /\ b_self \in [Threads -> BOOLEAN]
  BY DEF FdOrNone, AppPcs, DestroyPcs, Outside, LinkOrNone, ThreadsOK
<1>2. ASSUME NEW label, NEW l, Goto(t, label) \/ Reach(t, label, l), UNCHANGED workerVars
      PROVE  WorkerOK'
  BY <1>2, OtherPc DEF WorkerOK
<1>3. CASE Create(t)
  <2> USE <1>3 DEF Create
  <2>1. i_link + 1 \in Links /\ i_link \in Nat
    BY DEF HandleLeft, LinksOK, Links
  <2>2. ThreadsOK'
    <3>1. Moves(t, "set_link", i_link + 1, NoFd)
      BY DEF Goto, Moves
    <3> QED
      BY <1>1, <2>1, <3>1, MoveType
  <2>3. sock' \in SocketTable
    BY <2>1 DEF FreeFds, Fresh, SocketTable, Socket, SocketStates, LinkOrNone, NoLink
  <2>4. LinksOK'
    <3>1. link' \in [Links -> LinkObject]
      BY <2>1 DEF LinksOK, LinkObject, FreeFds, FdOrNone
    <3> QED
      BY <2>1, <3>1 DEF LinksOK, Links
  <2>5. HistoryOK'
    BY DEF HistoryOK
  <2> QED
    BY <1>2, <2>2, <2>3, <2>4, <2>5
<1>16. ASSUME NEW handles \in SUBSET Links, NEW label \in {"connect", "listen", "send", "destroy"},
              Call(t, handles, label)
       PROVE  TypeOK'
  <2> USE <1>16 DEF Call
  <2>2. PICK h \in Links : on' = [on EXCEPT ![t] = h] /\ Reach(t, label, h)
    OBVIOUS
  <2>3. ThreadsOK'
    <3>1. Moves(t, label, h, Fd(h)) /\ Fd(h) \in FdOrNone
      BY <2>2, FdType DEF Reach, Moves
    <3>2. b_self' \in [Threads -> BOOLEAN]
      BY DEF ThreadsOK
    <3> QED
      BY <1>1, <2>2, <3>1, <3>2, MoveType
  <2>4. LinksOK' /\ HistoryOK'
    BY DEF LinksOK, HistoryOK
  <2> QED
    BY <1>2, <2>2, <2>3, <2>4
<1>4. CASE CallConnect(t) \/ CallListen(t) \/ CallSend(t) \/ CallDestroy(t)
  <2>1. \A name : HandlesFor(t, name) \in SUBSET Links
    BY DEF HandlesFor
  <2>2. CASE CallConnect(t)
    <3> DEFINE H == (HandlesFor(t, "connect") \cap NewLinks) \cup (HandlesFor(t, "again") \ NewLinks)
    <3>1. H \in SUBSET Links
      BY <2>1
    <3>2. Call(t, H, "connect")
      BY <2>2 DEF CallConnect
    <3> HIDE DEF H
    <3> QED
      BY <3>1, <3>2, <1>16
  <2>3. CASE CallListen(t)
    <3> DEFINE H == (HandlesFor(t, "listen") \cap NewLinks) \cup (HandlesFor(t, "again") \ NewLinks)
    <3>1. H \in SUBSET Links
      BY <2>1
    <3>2. Call(t, H, "listen")
      BY <2>3 DEF CallListen
    <3> HIDE DEF H
    <3> QED
      BY <3>1, <3>2, <1>16
  <2>4. CASE CallSend(t)
    BY <2>1, <2>4, <1>16 DEF CallSend
  <2>5. CASE CallDestroy(t)
    <3> DEFINE H == HandlesFor(t, "destroy") \ Kept
    <3>1. H \in SUBSET Links
      BY <2>1
    <3>2. Call(t, H, "destroy")
      BY <2>5 DEF CallDestroy
    <3> HIDE DEF H
    <3> QED
      BY <3>1, <3>2, <1>16
  <2> QED
    BY <1>4, <2>2, <2>3, <2>4, <2>5
<1> DEFINE l == on[t]
<1>5. ASSUME pc[t] \notin Outside
      PROVE  l \in Links /\ Fd(l) \in FdOrNone /\ Loaded(t) \subseteq FdOrNone
  BY <1>5, FdType, LoadedType DEF ThreadsOK
<1>6. CASE CreateAnnounce(t)
  <2> USE <1>6 DEF CreateAnnounce
  <2>1. l \in Links
    BY <1>5 DEF Outside
  <2>2. ThreadsOK'
    BY <1>1, <2>1, GotoMoves, MoveType DEF ThreadsOK
  <2>3. LinksOK'
    BY <2>1, <1>1 DEF LinksOK, LinkObject
  <2>4. HistoryOK'
    BY ToldType DEF HistoryOK, EventNames
  <2> QED
    BY <1>2, <2>2, <2>3, <2>4
<1>7. CASE CreateCheckFirst(t)
  <2> USE <1>7 DEF CreateCheckFirst
  <2>1. l \in Links
    BY <1>5 DEF Outside
  <2>2. PICK label \in {"set_first", "idle"} : Goto(t, label)
    OBVIOUS
  <2>3. ThreadsOK'
    BY <1>1, <2>1, <2>2, GotoMoves, MoveType DEF ThreadsOK
  <2>4. LinksOK' /\ HistoryOK'
    BY DEF LinksOK, HistoryOK
  <2> QED
    BY <1>2, <2>2, <2>3, <2>4
<1>8. CASE CreateSetFirst(t)
  <2> USE <1>8 DEF CreateSetFirst
  <2>1. ThreadsOK'
    BY <1>1, GotoMoves, MoveType DEF ThreadsOK
  <2>2. LinksOK' /\ HistoryOK'
    BY <1>1 DEF LinksOK, HistoryOK
  <2> QED
    BY <1>2, <2>1, <2>2
<1>9. CASE LinkConnect(t)
  <2> USE <1>9 DEF LinkConnect
  <2>1. l \in Links /\ Fd(l) \in FdOrNone
    BY <1>5 DEF Outside
  <2>2. Goto(t, "connected") \/ Reach(t, "refused", l)
    OBVIOUS
  <2>3. ThreadsOK'
    <3>1. CASE Goto(t, "connected")
      BY <1>1, <2>1, <3>1, GotoMoves, MoveType DEF ThreadsOK
    <3>2. CASE Reach(t, "refused", l)
      BY <1>1, <2>1, <3>2, ReachMoves, MoveType DEF ThreadsOK
    <3> QED
      BY <2>2, <3>1, <3>2
  <2>4. sock' \in SocketTable
    <3>1. \A f : CanConnect(sock, f) => f \in Fds
      BY DEF CanConnect, StateOf, IsOpen
    <3> QED
      BY <3>1 DEF SocketTable, Socket, SocketStates
  <2>5. LinksOK'
    BY <2>1 DEF LinksOK, LinkObject, LinkTypes
  <2>6. HistoryOK'
    BY DEF HistoryOK
  <2> QED
    BY <1>2, <2>2, <2>3, <2>4, <2>5, <2>6
<1>10. CASE SendConnected(t)
  <2> USE <1>10 DEF SendConnected
  <2>1. l \in Links /\ Fd(l) \in FdOrNone
    BY <1>5 DEF Outside
  <2>2. ThreadsOK'
    BY <1>1, <2>1, ReachMoves, MoveType DEF ThreadsOK
  <2>3. LinksOK' /\ HistoryOK'
    BY ToldType DEF LinksOK, HistoryOK, EventNames
  <2> QED
    BY <1>2, <2>2, <2>3
<1>11. CASE Attach(t)
  <2> USE <1>11 DEF Attach
  <2>1. l \in Links /\ Loaded(t) \subseteq FdOrNone
    BY <1>5 DEF Outside
  <2>2. ThreadsOK'
    BY <1>1, GotoMoves, MoveType DEF ThreadsOK
  <2>3. sock' \in SocketTable
    BY <1>1, <2>1, AttachType
  <2>4. LinksOK' /\ HistoryOK'
    BY DEF LinksOK, HistoryOK
  <2> QED
    BY <1>2, <2>2, <2>3, <2>4
<1>12. CASE ConnectRefused(t)
  <2> USE <1>12 DEF ConnectRefused
  <2>1. l \in Links /\ Loaded(t) \subseteq FdOrNone
    BY <1>5 DEF Outside
  <2>2. ThreadsOK'
    BY <1>1, <2>1, GotoMoves, MoveType DEF ThreadsOK
  <2>3. sock' \in SocketTable /\ robbed' \in SUBSET Links
    BY <2>1, CloseType
  <2>4. LinksOK' /\ HistoryOK'
    BY <2>3 DEF LinksOK, HistoryOK
  <2> QED
    BY <1>2, <2>2, <2>3, <2>4
<1>13. CASE ConnectForget(t)
  <2> USE <1>13 DEF ConnectForget
  <2>1. l \in Links
    BY <1>5 DEF Outside
  <2>2. ThreadsOK'
    BY <1>1, GotoMoves, MoveType DEF ThreadsOK
  <2>3. LinksOK'
    BY <1>1, <2>1 DEF LinksOK, LinkObject
  <2>4. HistoryOK'
    BY ToldType DEF HistoryOK, EventNames
  <2> QED
    BY <1>2, <2>2, <2>3, <2>4
<1>14. CASE LinkListen(t)
  <2> USE <1>14 DEF LinkListen
  <2>1. l \in Links /\ Fd(l) \in FdOrNone
    BY <1>5 DEF Outside
  <2>2. Goto(t, "idle") \/ Reach(t, "attach", l)
    OBVIOUS
  <2>3. ThreadsOK'
    BY <1>1, <2>1, <2>2, GotoMoves, ReachMoves, MoveType DEF ThreadsOK
  <2>4. sock' \in SocketTable
    <3>1. \A f : CanListen(sock, f) => f \in Fds
      BY DEF CanListen, StateOf, IsOpen
    <3> QED
      BY <3>1 DEF SocketTable, Socket, SocketStates
  <2>5. LinksOK'
    BY <2>1 DEF LinksOK, LinkObject, LinkTypes
  <2>6. HistoryOK'
    BY DEF HistoryOK
  <2> QED
    BY <1>2, <2>2, <2>3, <2>4, <2>5, <2>6
<1>15. CASE LinkSendData(t)
  <2> USE <1>15 DEF LinkSendData
  <2>1. ThreadsOK'
    BY <1>1, GotoMoves, MoveType DEF ThreadsOK
  <2>2. LinksOK' /\ HistoryOK'
    BY DEF LinksOK, HistoryOK
  <2> QED
    BY <1>2, <2>1, <2>2
<1> QED
  BY <1>3, <1>4, <1>6, <1>7, <1>8, <1>9, <1>10, <1>11, <1>12, <1>13, <1>14, <1>15
     DEF AppStep, InCall

LEMMA WorkerType ==
    ASSUME TcpLinkAssumption, SocketsAssumption, TypeOK, WorkerStep, ~DestroyStep(Worker)
    PROVE  TypeOK'
<1> USE TcpLinkAssumption, SocketsAssumption
<1> USE DEF kernelVars, linkVars, workerVars, threadVars, historyVars
<1> USE DEF TypeOK
<1> DEFINE l == on[Worker]
<1>1. /\ NoFd \in FdOrNone
      /\ Worker \in Threads /\ Worker \notin App
      /\ \A label \in {"wait", "keepalive", "find_first", "events", "disconnected", "accept",
                       "accept_attach", "accepted", "recv_begin", "read", "middle",
                       "read_gone", "recv_end", "destroy"} : label \in WorkerPcs
      /\ {"wait", "keepalive", "find_first", "events"} \subseteq Outside
      /\ l \in LinkOrNone
      /\ b_self \in [Threads -> BOOLEAN]
      /\ i_fd \in [Threads -> FdOrNone]
      /\ pc[Worker] \in WorkerPcs
  BY DEF FdOrNone, WorkerPcs, DestroyPcs, Outside, ThreadsOK, Threads
<1>2. ASSUME NEW label \in WorkerPcs, Goto(Worker, label), UNCHANGED <<on, b_self>>,
             label \in Outside \/ l \in Links
      PROVE  ThreadsOK'
  BY <1>1, <1>2, GotoMoves, MoveType
<1>3. ASSUME NEW label \in WorkerPcs, NEW k, Reach(Worker, label, k), UNCHANGED <<on, b_self>>,
             Fd(k) \in FdOrNone, label \in Outside \/ l \in Links
      PROVE  ThreadsOK'
  BY <1>1, <1>3, ReachMoves, MoveType
<1>4. ASSUME NEW label, Goto(Worker, label) \/ \E k : Reach(Worker, label, k)
      PROVE  pc'[Worker] = label
  BY <1>1, <1>4 DEF Goto, Reach, ThreadsOK
<1>5. ASSUME pc[Worker] \notin Outside
      PROVE  l \in Links /\ Fd(l) \in FdOrNone /\ Loaded(Worker) \subseteq FdOrNone
  BY <1>1, <1>5, FdType, LoadedType DEF ThreadsOK
<1>6. (beat + 1) % KeepPeriod \in 0 .. KeepPeriod - 1
  BY DEF WorkerOK, TcpLinkAssumption
<1>7. CASE EpollWait
  <2> USE <1>7 DEF EpollWait
  <2>1. ThreadsOK'
    BY <1>1, <1>2
  <2>2. sock' \in SocketTable /\ WorkerOK'
    BY <1>4, HarvestType DEF WorkerOK
  <2>3. LinksOK' /\ HistoryOK'
    BY DEF LinksOK, HistoryOK
  <2> QED
    BY <2>1, <2>2, <2>3
<1>8. CASE Keepalive
  <2> USE <1>8 DEF Keepalive
  <2>1. Goto(Worker, "events") \/ Goto(Worker, "find_first")
    OBVIOUS
  <2>2. ThreadsOK'
    BY <1>1, <1>2, <2>1
  <2>3. WorkerOK'
    BY <1>4, <1>6, <2>1 DEF WorkerOK
  <2>4. LinksOK' /\ HistoryOK'
    BY DEF LinksOK, HistoryOK
  <2> QED
    BY <2>2, <2>3, <2>4
<1>9. CASE KeepaliveFind
  <2> USE <1>9 DEF KeepaliveFind
  <2>1. Goto(Worker, "events") \/ Goto(Worker, "wait")
    OBVIOUS
  <2>2. ThreadsOK'
    BY <1>1, <1>2, <2>1
  <2>3. WorkerOK'
    BY <1>4, <1>6, <2>1 DEF WorkerOK
  <2>4. LinksOK'
    BY DEF LinksOK
  <2>5. HistoryOK'
    BY ToldType DEF HistoryOK, EventNames
  <2> QED
    BY <2>2, <2>3, <2>4, <2>5
<1>10. CASE Dispatch
  <2> USE <1>10 DEF Dispatch
  <2>1. PICK e \in batch :
           /\ batch' = batch \ {e}
           /\ IF e.h \in m_maplink
              THEN /\ on' = [on EXCEPT ![Worker] = e.h]
                   /\ Reach(Worker, HandlerOf(e.h, e.ev), e.h)
                   /\ b_self' = [b_self EXCEPT ![Worker] = "HUP" \notin e.ev]
                   /\ link' = IF /\ link[e.h].m_link_type = "Connect"
                                 /\ "HUP" \notin e.ev
                                 /\ e.ev # {}
                              THEN [link EXCEPT ![e.h].m_link_type = "Connected"]
                              ELSE link
              ELSE UNCHANGED <<on, b_self, link, pc, i_fd>>
    OBVIOUS
  <2>2. CASE e.h \in m_maplink
    <3>1. e.h \in Links /\ e.h \in LinkOrNone
      BY <2>2 DEF LinksOK, Links, LinkOrNone
    <3>2. HandlerOf(e.h, e.ev) \in {"disconnected", "accept", "recv_begin", "events"}
      BY DEF HandlerOf
    <3>3. b_self' \in [Threads -> BOOLEAN]
      <4> ("HUP" \notin e.ev) \in BOOLEAN
        OBVIOUS
      <4> QED
        BY <1>1, <2>1, <2>2
    <3>4. ThreadsOK'
      <4>1. Moves(Worker, HandlerOf(e.h, e.ev), e.h, Fd(e.h))
        BY <2>1, <2>2 DEF Moves, Reach
      <4>2. Fd(e.h) \in FdOrNone
        BY <3>1, FdType
      <4> QED
        BY <1>1, <3>1, <3>2, <3>3, <4>1, <4>2, MoveType
    <3>5. link' \in [Links -> LinkObject]
      BY <2>1, <2>2, <3>1 DEF LinksOK, LinkObject, LinkTypes
    <3>6. LinksOK' /\ HistoryOK'
      BY <3>5 DEF LinksOK, HistoryOK
    <3>7. pc'[Worker] \notin {"accept_attach", "accepted"}
      BY <1>4, <2>1, <2>2, <3>2
    <3>8. WorkerOK'
      BY <2>1, <3>7 DEF WorkerOK
    <3> QED
      BY <3>4, <3>6, <3>8
  <2>3. CASE e.h \notin m_maplink
    BY <2>1, <2>3 DEF ThreadsOK, LinksOK, WorkerOK, HistoryOK
  <2> QED
    BY <2>2, <2>3
<1>11. CASE EndBatch
  <2> USE <1>11 DEF EndBatch
  <2>1. ThreadsOK'
    BY <1>1, <1>2
  <2>2. LinksOK' /\ HistoryOK' /\ WorkerOK'
    BY <1>4 DEF LinksOK, HistoryOK, WorkerOK
  <2> QED
    BY <2>1, <2>2
<1>12. CASE SendDisconnected
  <2> USE <1>12 DEF SendDisconnected
  <2>1. ThreadsOK'
    BY <1>1, <1>2, <1>5 DEF Outside
  <2>2. LinksOK' /\ WorkerOK'
    BY <1>4 DEF LinksOK, WorkerOK
  <2>3. HistoryOK'
    BY ToldType DEF HistoryOK, EventNames
  <2> QED
    BY <2>1, <2>2, <2>3
<1>13. CASE Accept
  <2> USE <1>13 DEF Accept
  <2>0. l \in Links
    BY <1>5 DEF Outside
  <2>1. PICK f \in Loaded(Worker) :
           /\ IF StateOf(sock, f) = "listening" /\ sock[f].rx > 0 /\ FreeFds(sock) # {}
              THEN /\ i_link < MaxLinks
                   /\ \E g \in FreeFds(sock) :
                        /\ sock' = [sock EXCEPT ![f].rx = @ - 1, ![g] = Fresh(i_link + 1, "up")]
                        /\ link' = [link EXCEPT ![i_link + 1].mi_socket = g,
                                                ![i_link + 1].m_link_type = "Accept"]
                   /\ i_link' = i_link + 1
                   /\ m_maplink' = m_maplink \cup {i_link + 1}
                   /\ h_accept' = i_link + 1
                   /\ Goto(Worker, "accept_attach")
              ELSE /\ Goto(Worker, "events")
                   /\ UNCHANGED <<sock, link, i_link, m_maplink, h_accept>>
    OBVIOUS
  <2>2. HistoryOK'
    BY <2>1 DEF HistoryOK
  <2>3. CASE StateOf(sock, f) = "listening" /\ sock[f].rx > 0 /\ FreeFds(sock) # {}
    <3>1. PICK g \in FreeFds(sock) :
             /\ sock' = [sock EXCEPT ![f].rx = @ - 1, ![g] = Fresh(i_link + 1, "up")]
             /\ link' = [link EXCEPT ![i_link + 1].mi_socket = g,
                                     ![i_link + 1].m_link_type = "Accept"]
      BY <2>1, <2>3
    <3>2. f \in Fds /\ g \in Fds /\ g \in FdOrNone
      BY <2>3 DEF StateOf, IsOpen, FreeFds, FdOrNone
    <3>3. i_link + 1 \in Links /\ i_link + 1 \in LinkOrNone
      BY <2>1, <2>3 DEF LinksOK, Links, LinkOrNone
    <3>4. sock' \in SocketTable
      <4>1. Fresh(i_link + 1, "up") \in Socket
        BY <3>3 DEF Fresh, Socket, SocketStates, LinkOrNone, NoLink
      <4>2. [sock EXCEPT ![f].rx = @ - 1] \in SocketTable
        BY <2>3, <3>2 DEF SocketTable, Socket
      <4> QED
        BY <3>1, <3>2, <4>1, <4>2 DEF SocketTable
    <3>5. LinksOK'
      <4>1. link' \in [Links -> LinkObject]
        <5> DEFINE linkA == [link EXCEPT ![i_link + 1].mi_socket = g]
        <5>1. linkA \in [Links -> LinkObject]
          BY <3>2, <3>3 DEF LinksOK, LinkObject
        <5>2. [linkA EXCEPT ![i_link + 1].m_link_type = "Accept"] \in [Links -> LinkObject]
          BY <3>3, <5>1 DEF LinkObject, LinkTypes
        <5> QED
          BY <3>1, <3>3, <5>2 DEF LinksOK
      <4>2. i_link' \in 0 .. MaxLinks
        BY <2>1, <2>3 DEF LinksOK
      <4>3. m_maplink' \in SUBSET (1 .. i_link')
        BY <2>1, <2>3 DEF LinksOK
      <4> QED
        BY <4>1, <4>2, <4>3 DEF LinksOK
    <3>6. ThreadsOK'
      BY <1>1, <1>2, <2>0, <2>1, <2>3
    <3>7. WorkerOK'
      BY <2>1, <2>3, <3>3 DEF WorkerOK
    <3> QED
      BY <2>2, <3>4, <3>5, <3>6, <3>7
  <2>4. CASE ~(StateOf(sock, f) = "listening" /\ sock[f].rx > 0 /\ FreeFds(sock) # {})
    <3>1. Goto(Worker, "events") /\ UNCHANGED <<sock, link, i_link, m_maplink, h_accept>>
      BY <2>1, <2>4
    <3>2. ThreadsOK'
      BY <1>1, <1>2, <3>1
    <3>3. LinksOK' /\ WorkerOK'
      BY <1>4, <3>1 DEF LinksOK, WorkerOK
    <3> QED
      BY <2>2, <3>1, <3>2, <3>3
  <2> QED
    BY <2>3, <2>4
<1>14. CASE AcceptAttach
  <2> USE <1>14 DEF AcceptAttach
  <2>1. /\ l \in Links /\ Fd(l) \in FdOrNone
        /\ h_accept \in Links /\ h_accept \in LinkOrNone /\ Fd(h_accept) \in FdOrNone
    BY <1>5, FdType DEF Outside, WorkerOK, LinkOrNone
  <2>2. \/ Goto(Worker, "accepted") /\ sock' = attach_to_epoll(sock, Fd(h_accept), h_accept)
        \/ Reach(Worker, "accept", l) /\ sock' = sock
    OBVIOUS
  <2>3. sock' \in SocketTable
    BY <2>1, <2>2, AttachType
  <2>4. ThreadsOK'
    BY <1>1, <1>2, <1>3, <2>1, <2>2
  <2>5. LinksOK'
    <3>1. link' \in [Links -> LinkObject]
      BY <2>1 DEF LinksOK, LinkObject
    <3> QED
      BY <3>1 DEF LinksOK
  <2>6. WorkerOK' /\ HistoryOK'
    BY <2>1 DEF WorkerOK, HistoryOK
  <2> QED
    BY <2>3, <2>4, <2>5, <2>6
<1>15. CASE SendAccepted
  <2> USE <1>15 DEF SendAccepted
  <2>1. l \in Links /\ Fd(l) \in FdOrNone
    BY <1>5 DEF Outside
  <2>2. ThreadsOK'
    BY <1>1, <1>3, <2>1
  <2>3. LinksOK' /\ WorkerOK'
    BY <1>4 DEF LinksOK, WorkerOK
  <2>4. HistoryOK'
    BY ToldType DEF HistoryOK, EventNames
  <2> QED
    BY <2>2, <2>3, <2>4
<1>16. CASE Read
  <2> USE <1>16 DEF Read
  <2>1. /\ l \in Links /\ Fd(l) \in FdOrNone /\ Loaded(Worker) \subseteq FdOrNone
        /\ link[l].mh_link \in LinkOrNone
    BY <1>5 DEF Outside, LinksOK, LinkObject
  <2>2. \/ Goto(Worker, "middle") \/ Reach(Worker, "read_gone", l) \/ Goto(Worker, "recv_end")
    OBVIOUS
  <2>3. ThreadsOK'
    BY <1>1, <1>2, <1>3, <2>1, <2>2
  <2>4. sock' \in SocketTable
    <3>1. PICK f \in Loaded(Worker) :
             \/ sock' = sock
             \/ /\ StateOf(sock, f) \in {"up", "fin"}
                /\ sock[f].rx > 0
                /\ sock' = [sock EXCEPT ![f].rx = @ - 1]
             \/ sock' = mod_epoll_read(sock, f, link[l].mh_link)
      OBVIOUS
    <3>2. CASE StateOf(sock, f) \in {"up", "fin"} /\ sock[f].rx > 0
               /\ sock' = [sock EXCEPT ![f].rx = @ - 1]
      BY <3>2 DEF StateOf, IsOpen, SocketTable, Socket
    <3>3. mod_epoll_read(sock, f, link[l].mh_link) \in SocketTable
      BY <2>1, <3>1, AttachType
    <3> QED
      BY <3>1, <3>2, <3>3
  <2>5. LinksOK' /\ WorkerOK'
    BY <1>4, <2>2 DEF LinksOK, WorkerOK
  <2>6. HistoryOK'
    BY DEF HistoryOK
  <2> QED
    BY <2>3, <2>4, <2>5, <2>6
<1>17. CASE ReadBegin \/ ReadMiddle
  <2> USE <1>17 DEF ReadBegin, ReadMiddle
  <2>1. l \in Links /\ Fd(l) \in FdOrNone
    BY <1>5 DEF Outside
  <2>2. ThreadsOK'
    BY <1>1, <1>3, <2>1
  <2>3. LinksOK' /\ WorkerOK'
    BY <1>4 DEF LinksOK, WorkerOK
  <2>4. HistoryOK'
    BY ToldType DEF HistoryOK, EventNames
  <2> QED
    BY <2>2, <2>3, <2>4
<1>18. CASE ReadGone
  <2> USE <1>18 DEF ReadGone
  <2>1. l \in Links /\ Loaded(Worker) \subseteq FdOrNone
    BY <1>5 DEF Outside
  <2>2. ThreadsOK'
    BY <1>1, <1>2, <2>1
  <2>3. sock' \in SocketTable
    BY <2>1, DetachType
  <2>4. LinksOK' /\ WorkerOK'
    BY <1>4 DEF LinksOK, WorkerOK
  <2>5. HistoryOK'
    BY DEF HistoryOK
  <2> QED
    BY <2>2, <2>3, <2>4, <2>5
<1>19. CASE ReadEnd
  <2> USE <1>19 DEF ReadEnd
  <2>1. ThreadsOK'
    BY <1>1, <1>2
  <2>2. LinksOK' /\ WorkerOK'
    BY <1>4 DEF LinksOK, WorkerOK
  <2>3. HistoryOK'
    BY ToldType DEF HistoryOK, EventNames
  <2> QED
    BY <2>1, <2>2, <2>3
<1> QED
  BY <1>7, <1>8, <1>9, <1>10, <1>11, <1>12, <1>13, <1>14, <1>15, <1>16, <1>17, <1>18, <1>19
     DEF WorkerStep

LEMMA PeerType ==
    ASSUME TcpLinkAssumption, SocketsAssumption, TypeOK, PeerStep
    PROVE  TypeOK'
<1> USE TcpLinkAssumption, SocketsAssumption
<1> USE DEF kernelVars, linkVars, workerVars, threadVars, historyVars
<1> USE DEF TypeOK
<1>1. ASSUME NEW act, NEW f \in Fds, NEW s \in Socket, Peer(act, f, s)
      PROVE  TypeOK'
  <2>1. (s.tag # NoLink) \in BOOLEAN
    OBVIOUS
  <2>2. Edge(s) \in Socket
    BY <1>1, <2>1 DEF Edge, Socket
  <2>3. sock' \in SocketTable
    BY <1>1, <2>2 DEF Peer, SocketTable
  <2> QED
    BY <1>1, <2>3 DEF Peer, LinksOK, ThreadsOK, WorkerOK, HistoryOK
<1>2. PICK f \in Fds : PeerDials(f) \/ PeerAnswers(f) \/ PeerSends(f)
                         \/ PeerCloses(f) \/ PeerResets(f)
  BY DEF PeerStep
<1>3. sock[f] \in Socket
  BY DEF SocketTable
<1>4. CASE PeerDials(f)
  <2>1. [sock[f] EXCEPT !.rx = 1] \in Socket
    BY <1>3 DEF Socket, SocketsAssumption
  <2> QED
    BY <1>1, <1>4, <2>1 DEF PeerDials
<1>5. CASE PeerAnswers(f)
  <2>1. [sock[f] EXCEPT !.st = "up"] \in Socket
    BY <1>3 DEF Socket, SocketStates
  <2> QED
    BY <1>1, <1>5, <2>1 DEF PeerAnswers
<1>6. CASE PeerSends(f)
  <2>1. [sock[f] EXCEPT !.rx = @ + 1] \in Socket
    BY <1>3, <1>6 DEF PeerSends, Socket, SocketsAssumption
  <2> QED
    BY <1>1, <1>6, <2>1 DEF PeerSends
<1>7. CASE PeerCloses(f)
  <2>1. [sock[f] EXCEPT !.st = "fin"] \in Socket
    BY <1>3 DEF Socket, SocketStates
  <2> QED
    BY <1>1, <1>7, <2>1 DEF PeerCloses
<1>8. CASE PeerResets(f)
  <2>1. "reset" \in SocketStates /\ 0 \in 0 .. MaxRx
    BY DEF SocketStates, SocketsAssumption
  <2>2. [sock[f] EXCEPT !.st = "reset", !.rx = 0] \in Socket
    BY <1>3, <2>1 DEF Socket
  <2> QED
    BY <1>1, <1>8, <2>2 DEF PeerResets
<1> QED
  BY <1>2, <1>4, <1>5, <1>6, <1>7, <1>8

LEMMA StepType == TcpLinkAssumption /\ SocketsAssumption /\ TypeOK /\ [Next]_vars => TypeOK'
<1> SUFFICES ASSUME TcpLinkAssumption, SocketsAssumption, TypeOK, [Next]_vars
             PROVE  TypeOK'
  OBVIOUS
<1>1. CASE UNCHANGED vars
  BY <1>1 DEF vars, TypeOK, LinksOK, ThreadsOK, WorkerOK, HistoryOK
<1>2. CASE \E t \in App : AppStep(t)
  <2>1. PICK t \in App : AppStep(t)
    BY <1>2
  <2>2. t \in Threads
    BY DEF Threads
  <2> QED
    BY <2>1, <2>2, DestroyType, CallType
<1>3. CASE WorkerStep
  <2>1. Worker \in Threads
    BY DEF Threads
  <2> QED
    BY <1>3, <2>1, DestroyType, WorkerType
<1>4. CASE PeerStep
  BY <1>4, PeerType
<1> QED
  BY <1>1, <1>2, <1>3, <1>4 DEF Next

(* Type correctness: no call, handler or event, in any interleaving of any *)
(* number of application threads with the worker, leaves a variable        *)
(* outside the type the code declares, a thread inside a call without a    *)
(* link to work on, or the keepalive counter outside its period.           *)
THEOREM TypeCorrect == Spec => []TypeOK
<1>1. Init => TypeOK
  BY InitType, TcpLinkAssumption, SocketsAssumption
<1>2. TypeOK /\ [Next]_vars => TypeOK'
  BY StepType, TcpLinkAssumption, SocketsAssumption
<1> QED
  BY <1>1, <1>2, PTL DEF Spec

-----------------------------------------------------------------------------
(* Handles: they are announced before they are used, a closed one is gone, *)
(* and the registry with its callbacks implements LinkTable.  The proofs   *)
(* rest on HandleInv of TcpLink.                                           *)

Assumptions == TcpLinkAssumption /\ SocketsAssumption

-----------------------------------------------------------------------------
(* Most steps are tame: they introduce no link.  A tame step says nothing  *)
(* new of a link that is not known, unregisters known links only, takes    *)
(* its handles from where known ones are, and moves one thread.            *)

TameSeen ==
    \A l \in Links : /\ seen[l] \subseteq seen'[l]
                     /\ seen'[l] # seen[l] => Known(l)
                     /\ "CLOSED" \in seen'[l] => "CLOSED" \in seen[l] \/ l \notin m_maplink
TameTable ==
    /\ i_link' = i_link
    /\ m_maplink' \subseteq m_maplink
    /\ \A l \in m_maplink \ m_maplink' : Known(l)
    /\ \A l \in Links : link'[l].mh_link = link[l].mh_link
TameSources ==
    /\ first' \in {first, NoLink} \/ Known(first')
    /\ \A e \in batch' : e.h # NoLink => Known(e.h)
    /\ h_accept' = h_accept
TameTags ==
    \A f \in Fds : \/ sock'[f].tag \in {sock[f].tag, NoLink}
                   \/ Known(sock'[f].tag)
TameThread(t) ==
    \/ pc'[t] = pc[t] /\ on'[t] = on[t]
    \/ /\ pc'[t] \notin Accepting \cup {"set_link"}
       /\ pc[t] # "accepted"
       /\ pc'[t] \in Outside \/ Known(on'[t])
       /\ pc'[t] \in GonePcs => on'[t] \notin m_maplink'
Tame == TameSeen /\ TameTable /\ TameSources /\ TameTags /\ \A t \in Threads : TameThread(t)

LEMMA TameStep ==
    ASSUME Assumptions, TypeOK, TypeOK', HandleInv, Tame
    PROVE  HandleInv'
<1> USE DEF Assumptions, Tame, HandleInv
<1>1. \A l \in Links : Known(l)' <=> Known(l)
  BY DEF TameSeen, Known
<1>2. /\ \A l \in m_maplink : l \in Links
      /\ first \in LinkOrNone /\ first' \in LinkOrNone
      /\ \A e \in batch' : e.h \in LinkOrNone
      /\ \A f \in Fds : sock[f].tag \in LinkOrNone /\ sock'[f].tag \in LinkOrNone
      /\ \A t \in Threads : on[t] \in LinkOrNone /\ on'[t] \in LinkOrNone
      /\ \A t \in App : t \in Threads /\ t # Worker
      /\ Worker \in Threads
  BY DEF TypeOK, LinksOK, WorkerOK, ThreadsOK, Links, SocketTable, Socket, SocketsAssumption,
     TcpLinkAssumption, Threads
<1>3. OwnHandle'
  BY DEF OwnHandle, TameTable
<1>4. KnownIsSet'
  BY <1>1 DEF KnownIsSet, TameTable
<1>5. AnnouncedFirst'
  BY <1>1 DEF AnnouncedFirst, TameSeen
<1>6. ThreadsKnow'
  <2> SUFFICES ASSUME NEW t \in Threads, pc'[t] \notin Outside \cup {"set_link"}
               PROVE  Known(on[t])'
    BY DEF ThreadsKnow
  <2>1. Known(on'[t])
    BY DEF ThreadsKnow, TameThread
  <2>2. on'[t] \in Links
    BY DEF TypeOK, ThreadsOK
  <2> QED
    BY <1>1, <2>1, <2>2
<1>7. SourcesKnown'
  BY <1>1, <1>2 DEF SourcesKnown, TameSources, LinkOrNone
<1>8. TagsKnown'
  <2> SUFFICES ASSUME NEW f \in Fds, sock'[f].tag # NoLink
               PROVE  Known(sock[f].tag)' \/ (pc'[Worker] = "accepted" /\ sock'[f].tag = h_accept')
    BY DEF TagsKnown
  <2>1. \/ Known(sock'[f].tag)
        \/ pc[Worker] = "accepted" /\ sock'[f].tag = h_accept
    BY DEF TagsKnown, TameTags
  <2>2. pc[Worker] = "accepted" => pc'[Worker] = "accepted"
    BY <1>2 DEF TameThread
  <2>3. sock'[f].tag \in Links
    BY <1>2 DEF LinkOrNone
  <2> QED
    BY <1>1, <2>1, <2>2, <2>3 DEF TameSources
<1>9. Introduced'
  <2>1. ASSUME NEW t \in App, pc'[t] = "set_link"
        PROVE  pc[t] = "set_link" /\ on'[t] = on[t] /\ on[t] \in m_maplink' /\ ~Known(on[t])'
    <3>1. pc[t] = "set_link" /\ on'[t] = on[t]
      BY <1>2, <2>1 DEF TameThread
    <3>2. on[t] \in m_maplink /\ ~Known(on[t])
      BY <3>1 DEF Introduced
    <3> QED
      BY <1>1, <1>2, <3>1, <3>2 DEF TameTable
  <2>2. ASSUME pc'[Worker] \in Accepting
        PROVE  /\ pc[Worker] = pc'[Worker]
               /\ h_accept' = h_accept /\ h_accept \in m_maplink' /\ ~Known(h_accept)'
    <3>1. pc[Worker] = pc'[Worker]
      BY <1>2, <2>2 DEF TameThread
    <3>2. h_accept \in m_maplink /\ ~Known(h_accept)
      BY <2>2, <3>1 DEF Introduced
    <3> QED
      BY <1>1, <1>2, <3>1, <3>2 DEF TameTable, TameSources
  <2>3. pc'[Worker] = "accepted" => link'[h_accept'].mh_link = h_accept'
    BY <1>2, <2>2 DEF Accepting, Introduced, TameTable
  <2>4. pc'[Worker] # "set_link"
    BY <1>2 DEF TameThread, Introduced
  <2> QED
    BY <2>1, <2>2, <2>3, <2>4 DEF Introduced
<1>10. GoneStays'
  BY DEF GoneStays, TameThread, TameTable
<1>11. ClosedIsGone'
  BY DEF ClosedIsGone, TameSeen, TameTable
<1> QED
  BY <1>3, <1>4, <1>5, <1>6, <1>7, <1>8, <1>9, <1>10, <1>11


-----------------------------------------------------------------------------
(* What makes the parts of a step tame. *)

LEMMA FrameTame ==
    ASSUME TypeOK, HandleInv
    PROVE  /\ seen' = seen => TameSeen
           /\ UNCHANGED <<i_link, m_maplink>> /\ (\A l \in Links : link'[l].mh_link = link[l].mh_link)
                => TameTable
           /\ UNCHANGED <<first, batch, h_accept>> => TameSources
           /\ sock' = sock => TameTags
  BY DEF HandleInv, TameSeen, TameTable, TameSources, TameTags, SourcesKnown

LEMMA ToldTame ==
    ASSUME TypeOK, HandleInv, NEW l \in Links, Known(l), NEW e \in EventNames,
           e = "CLOSED" => l \notin m_maplink,
           seen' = Told(link[l].mh_link, e)
    PROVE  TameSeen
<1>1. link[l].mh_link = l
  BY DEF HandleInv, KnownIsSet
<1>2. seen \in [Links -> SUBSET EventNames]
  BY DEF TypeOK, HistoryOK
<1> QED
  BY <1>1, <1>2 DEF Told, TameSeen

LEMMA TagsTame ==
    ASSUME TypeOK, HandleInv, NEW f, NEW h, Known(h) \/ h = NoLink,
           sock' \in {attach_to_epoll(sock, f, h), mod_epoll_read(sock, f, h),
                      del_epoll_read(sock, f), CloseFd(sock, f), Quieted(sock)}
    PROVE  TameTags
<1>1. sock \in SocketTable
  BY DEF TypeOK
<1>2. CASE sock' = attach_to_epoll(sock, f, h)
  BY <1>1, <1>2 DEF TameTags, attach_to_epoll, CanAttach, IsOpen, Armed, SocketTable, Socket
<1>3. CASE sock' = mod_epoll_read(sock, f, h)
  BY <1>1, <1>3 DEF TameTags, mod_epoll_read, IsOpen, Armed, SocketTable, Socket
<1>4. CASE sock' = del_epoll_read(sock, f)
  BY <1>1, <1>4 DEF TameTags, del_epoll_read, IsOpen, SocketTable, Socket
<1>5. CASE sock' = CloseFd(sock, f)
  BY <1>1, <1>5 DEF TameTags, CloseFd, Unused, SocketTable, Socket
<1>6. CASE sock' = Quieted(sock)
  BY <1>1, <1>6 DEF TameTags, Quieted, SocketTable, Socket
<1> QED
  BY <1>2, <1>3, <1>4, <1>5, <1>6

LEMMA ThreadTame ==
    ASSUME TypeOK, NEW t \in Threads, NEW label,
           Goto(t, label) \/ (\E k : Reach(t, label, k)), on' = on,
           label \notin Accepting \cup {"set_link"}, pc[t] # "accepted",
           label \in Outside \/ Known(on[t]),
           label \in GonePcs => on[t] \notin m_maplink'
    PROVE  \A u \in Threads : TameThread(u)
<1>1. pc' = [pc EXCEPT ![t] = label]
  BY DEF Goto, Reach
<1> QED
  BY <1>1 DEF TameThread, TypeOK, ThreadsOK

(* A thread inside a call or a handler works on a link it knows.           *)
LEMMA OnKnown ==
    ASSUME TypeOK, HandleInv, NEW t \in Threads, pc[t] \notin Outside \cup {"set_link"}
    PROVE  /\ on[t] \in Links /\ Known(on[t])
           /\ link[on[t]].mh_link = on[t] /\ on[t] <= i_link
  BY DEF TypeOK, ThreadsOK, HandleInv, ThreadsKnow, KnownIsSet

-----------------------------------------------------------------------------
LEMMA DestroyTame ==
    ASSUME Assumptions, TypeOK, HandleInv, NEW t \in Threads, DestroyStep(t)
    PROVE  Tame
<1> USE DEF kernelVars, linkVars, workerVars, threadVars, historyVars
<1> DEFINE l == on[t]
<1>1. pc[t] \in DestroyPcs
  BY DEF DestroyStep, DestroyCheckFirst, DestroyClearFirst, DelLink, DestroyCheckSocket,
     DestroyClose, DestroySendClosed, DestroyForget, DestroyPcs
<1>2. pc[t] \notin Outside \cup {"set_link"} /\ pc[t] # "accepted"
  BY <1>1 DEF DestroyPcs, Outside
<1>3. l \in Links /\ Known(l) /\ link[l].mh_link = l
  BY <1>2, OnKnown
<1>4. pc[t] \in GonePcs => l \notin m_maplink
  BY DEF HandleInv, GoneStays
<1>5. link \in [Links -> LinkObject]
  BY DEF TypeOK, LinksOK
<1>6. ASSUME NEW label \in {"clear_first", "del_link", "idle", "recv_end", "events"},
             Goto(t, label) \/ \E k : Reach(t, label, k), on' = on
      PROVE  \A u \in Threads : TameThread(u)
  BY <1>2, <1>3, <1>6, ThreadTame DEF Accepting, GonePcs
<1>7. ASSUME NEW label \in GonePcs, Goto(t, label) \/ \E k : Reach(t, label, k), on' = on,
             l \notin m_maplink'
      PROVE  \A u \in Threads : TameThread(u)
  BY <1>2, <1>3, <1>7, ThreadTame DEF Accepting, GonePcs
<1>8. Return(t) \in {"clear_first", "del_link", "idle", "recv_end", "events"}
  BY DEF Return
<1>9. CASE DestroyCheckFirst(t)
  <2>1. PICK label \in {"clear_first", "del_link"} : Reach(t, label, l)
    BY <1>9 DEF DestroyCheckFirst
  <2>2. \A u \in Threads : TameThread(u)
    BY <1>6, <1>9, <2>1 DEF DestroyCheckFirst
  <2> QED
    BY <1>9, <2>2, FrameTame DEF DestroyCheckFirst, Tame
<1>10. CASE DestroyClearFirst(t)
  <2> USE <1>10 DEF DestroyClearFirst
  <2>1. \A u \in Threads : TameThread(u)
    BY <1>6
  <2>2. TameSources
    BY DEF TameSources, HandleInv, SourcesKnown
  <2> QED
    BY <2>1, <2>2, FrameTame DEF Tame
<1>11. CASE DelLink(t)
  <2> USE <1>11 DEF DelLink
  <2>1. m_maplink' = m_maplink \ {l}
    BY <1>3
  <2>2. \A u \in Threads : TameThread(u)
    BY <1>7, <2>1 DEF GonePcs
  <2>3. TameTable
    BY <1>3, <2>1 DEF TameTable
  <2>4. TameTags
    <3>1. sock' = sock \/ \E f : sock' = del_epoll_read(sock, f)
      OBVIOUS
    <3> QED
      BY <3>1, TagsTame, FrameTame
  <2> QED
    BY <2>2, <2>3, <2>4, FrameTame DEF Tame
<1>12. CASE DestroyCheckSocket(t)
  <2> USE <1>12 DEF DestroyCheckSocket
  <2>1. CASE Reach(t, "close", l)
    BY <1>4, <1>7, <2>1, FrameTame DEF GonePcs, Tame
  <2>2. CASE Goto(t, Return(t))
    BY <1>6, <1>8, <2>2, FrameTame DEF Tame
  <2> QED
    BY <2>1, <2>2
<1>13. CASE DestroyClose(t)
  <2> USE <1>13 DEF DestroyClose
  <2>1. PICK label \in {"closed", "forget"} : Goto(t, label)
    OBVIOUS
  <2>2. \A u \in Threads : TameThread(u)
    BY <1>4, <1>7, <2>1 DEF GonePcs
  <2>3. TameTags
    <3>1. \E f : sock' = CloseFd(sock, f)
      BY DEF Close
    <3> QED
      BY <3>1, TagsTame
  <2> QED
    BY <2>2, <2>3, FrameTame DEF Tame
<1>14. CASE DestroySendClosed(t)
  <2> USE <1>14 DEF DestroySendClosed
  <2>1. \A u \in Threads : TameThread(u)
    BY <1>4, <1>7 DEF GonePcs
  <2>2. TameSeen
    BY <1>3, <1>4, ToldTame DEF GonePcs, EventNames
  <2> QED
    BY <2>1, <2>2, FrameTame DEF Tame
<1>15. CASE DestroyForget(t)
  <2> USE <1>15 DEF DestroyForget
  <2>1. \A u \in Threads : TameThread(u)
    BY <1>6, <1>8
  <2>2. \A k \in Links : link'[k].mh_link = link[k].mh_link
    BY <1>3, <1>5 DEF LinkObject
  <2> QED
    BY <2>1, <2>2, FrameTame DEF Tame
<1> QED
  BY <1>9, <1>10, <1>11, <1>12, <1>13, <1>14, <1>15 DEF DestroyStep

LEMMA CallTame ==
    ASSUME Assumptions, TypeOK, HandleInv, NEW t \in App, AppStep(t),
           ~DestroyStep(t), ~Create(t), ~CreateAnnounce(t)
    PROVE  Tame
<1> USE DEF kernelVars, linkVars, workerVars, threadVars, historyVars
<1> DEFINE l == on[t]
<1> t \in Threads
  BY DEF Threads
<1>1. link \in [Links -> LinkObject]
  BY DEF TypeOK, LinksOK
<1>2. ASSUME pc[t] \in {"check_first", "set_first", "connect", "connected", "attach", "refused",
                        "refused_forget", "listen", "send"}
      PROVE  l \in Links /\ Known(l) /\ link[l].mh_link = l
  BY <1>2, OnKnown DEF Outside
<1>3. ASSUME NEW label \in {"set_first", "connect", "connected", "attach", "refused",
                            "refused_forget", "listen", "send"},
             Goto(t, label) \/ \E k : Reach(t, label, k), on' = on, Known(l), pc[t] # "accepted"
      PROVE  \A u \in Threads : TameThread(u)
  BY <1>3, ThreadTame DEF Accepting, GonePcs
<1>4. ASSUME Goto(t, "idle"), on' = on, pc[t] # "accepted"
      PROVE  \A u \in Threads : TameThread(u)
  BY <1>4, ThreadTame DEF Accepting, GonePcs, Outside
<1>5. ASSUME NEW handles, NEW label \in {"connect", "listen", "send", "destroy"},
             Call(t, handles, label)
      PROVE  Tame
  <2> USE <1>5 DEF Call
  <2>1. PICK h \in handles \cap m_maplink :
           Known(h) /\ on' = [on EXCEPT ![t] = h] /\ Reach(t, label, h)
    OBVIOUS
  <2>2. \A u \in Threads : TameThread(u)
    <3>1. /\ pc' = [pc EXCEPT ![t] = label]
          /\ label \notin Accepting \cup GonePcs \cup {"set_link"}
      BY <2>1 DEF Reach, Accepting, GonePcs
    <3> QED
      BY <2>1, <3>1 DEF TameThread, TypeOK, ThreadsOK
  <2> QED
    BY <2>2, FrameTame DEF Tame
<1>6. CASE CallConnect(t) \/ CallListen(t) \/ CallSend(t) \/ CallDestroy(t)
  BY <1>5, <1>6 DEF CallConnect, CallListen, CallSend, CallDestroy
<1>7. CASE CreateCheckFirst(t)
  <2> USE <1>7 DEF CreateCheckFirst
  <2>1. \A u \in Threads : TameThread(u)
    <3>1. Goto(t, "set_first") \/ Goto(t, "idle")
      OBVIOUS
    <3> QED
      BY <1>2, <1>3, <1>4, <3>1
  <2> QED
    BY <2>1, FrameTame DEF Tame
<1>8. CASE CreateSetFirst(t)
  <2> USE <1>8 DEF CreateSetFirst
  <2>1. \A u \in Threads : TameThread(u)
    BY <1>4
  <2>2. TameSources
    BY <1>2 DEF TameSources, HandleInv, SourcesKnown
  <2> QED
    BY <2>1, <2>2, FrameTame DEF Tame
<1>9. CASE LinkConnect(t)
  <2> USE <1>9 DEF LinkConnect
  <2>1. \A u \in Threads : TameThread(u)
    <3>1. Goto(t, "connected") \/ Reach(t, "refused", l)
      OBVIOUS
    <3> QED
      BY <1>2, <1>3, <3>1
  <2>2. \A k \in Links : link'[k].mh_link = link[k].mh_link
    BY <1>1, <1>2 DEF LinkObject
  <2>3. TameTags
    BY DEF TameTags, TypeOK, SocketTable, Socket
  <2> QED
    BY <2>1, <2>2, <2>3, FrameTame DEF Tame
<1>10. CASE SendConnected(t)
  <2> USE <1>10 DEF SendConnected
  <2>1. \A u \in Threads : TameThread(u)
    BY <1>2, <1>3
  <2>2. TameSeen
    BY <1>2, ToldTame DEF EventNames
  <2> QED
    BY <2>1, <2>2, FrameTame DEF Tame
<1>11. CASE Attach(t)
  <2> USE <1>11 DEF Attach
  <2>1. \A u \in Threads : TameThread(u)
    BY <1>4
  <2>2. TameTags
    <3>1. sock' = sock \/ \E f : sock' = attach_to_epoll(sock, f, l)
      OBVIOUS
    <3> QED
      BY <1>2, <3>1, TagsTame, FrameTame
  <2> QED
    BY <2>1, <2>2, FrameTame DEF Tame
<1>12. CASE ConnectRefused(t)
  <2> USE <1>12 DEF ConnectRefused
  <2>1. \A u \in Threads : TameThread(u)
    BY <1>2, <1>3
  <2>2. TameTags
    <3>1. \E f : sock' = CloseFd(sock, f)
      BY DEF Close
    <3> QED
      BY <1>2, <3>1, TagsTame
  <2> QED
    BY <2>1, <2>2, FrameTame DEF Tame
<1>13. CASE ConnectForget(t)
  <2> USE <1>13 DEF ConnectForget
  <2>1. \A u \in Threads : TameThread(u)
    BY <1>4
  <2>2. \A k \in Links : link'[k].mh_link = link[k].mh_link
    BY <1>1, <1>2 DEF LinkObject
  <2>3. TameSeen
    BY <1>2, ToldTame DEF EventNames
  <2> QED
    BY <2>1, <2>2, <2>3, FrameTame DEF Tame
<1>14. CASE LinkListen(t)
  <2> USE <1>14 DEF LinkListen
  <2>1. \A u \in Threads : TameThread(u)
    <3>1. Reach(t, "attach", l) \/ Goto(t, "idle")
      OBVIOUS
    <3> QED
      BY <1>2, <1>3, <1>4, <3>1
  <2>2. \A k \in Links : link'[k].mh_link = link[k].mh_link
    BY <1>1, <1>2 DEF LinkObject
  <2>3. TameTags
    BY DEF TameTags, TypeOK, SocketTable, Socket
  <2> QED
    BY <2>1, <2>2, <2>3, FrameTame DEF Tame
<1>15. CASE LinkSendData(t)
  <2> USE <1>15 DEF LinkSendData
  <2>1. \A u \in Threads : TameThread(u)
    BY <1>4
  <2> QED
    BY <2>1, FrameTame DEF Tame
<1> QED
  BY <1>6, <1>7, <1>8, <1>9, <1>10, <1>11, <1>12, <1>13, <1>14, <1>15 DEF AppStep, InCall

LEMMA WorkerTame ==
    ASSUME Assumptions, TypeOK, HandleInv, WorkerStep, ~DestroyStep(Worker),
           ~SendAccepted, ~AcceptAttach, i_link' = i_link
    PROVE  Tame
<1> USE DEF kernelVars, linkVars, workerVars, threadVars, historyVars
<1> DEFINE l == on[Worker]
<1> Worker \in Threads
  BY DEF Threads
<1>1. link \in [Links -> LinkObject] /\ i_link \in Nat
  BY DEF TypeOK, LinksOK
<1>2. ASSUME pc[Worker] \in {"disconnected", "accept", "recv_begin", "read", "middle", "read_gone",
                            "recv_end"}
      PROVE  l \in Links /\ Known(l) /\ link[l].mh_link = l
  BY <1>2, OnKnown DEF Outside
<1>3. ASSUME NEW label \in {"destroy", "middle", "read_gone", "recv_end", "read"},
             Goto(Worker, label) \/ \E k : Reach(Worker, label, k), on' = on, Known(l),
             pc[Worker] # "accepted"
      PROVE  \A u \in Threads : TameThread(u)
  BY <1>3, ThreadTame DEF Accepting, GonePcs
<1>4. ASSUME NEW label \in {"wait", "keepalive", "find_first", "events"}, Goto(Worker, label),
             on' = on, pc[Worker] # "accepted"
      PROVE  \A u \in Threads : TameThread(u)
  BY <1>4, ThreadTame DEF Accepting, GonePcs, Outside
<1>5. CASE EpollWait
  <2> USE <1>5 DEF EpollWait
  <2>1. \A u \in Threads : TameThread(u)
    BY <1>4
  <2>2. TameTags
    BY TagsTame
  <2>3. TameSources
    BY DEF TameSources, Harvest, Reported, HandleInv, TagsKnown
  <2> QED
    BY <2>1, <2>2, <2>3, FrameTame DEF Tame
<1>6. CASE Keepalive
  <2> USE <1>6 DEF Keepalive
  <2>1. \A u \in Threads : TameThread(u)
    <3>1. Goto(Worker, "events") \/ Goto(Worker, "find_first")
      OBVIOUS
    <3> QED
      BY <1>4, <3>1
  <2> QED
    BY <2>1, FrameTame DEF Tame
<1>7. CASE KeepaliveFind
  <2> USE <1>7 DEF KeepaliveFind
  <2>1. \A u \in Threads : TameThread(u)
    <3>1. Goto(Worker, "events") \/ Goto(Worker, "wait")
      OBVIOUS
    <3> QED
      BY <1>4, <3>1
  <2>2. TameSeen
    <3>1. CASE first \in m_maplink
      <4>1. first \in Links /\ first # NoLink
        BY <3>1 DEF TypeOK, LinksOK, Links, NoLink, Assumptions, SocketsAssumption
      <4>2. Known(first)
        BY <4>1 DEF HandleInv, SourcesKnown
      <4> QED
        BY <3>1, <4>1, <4>2, ToldTame DEF EventNames
    <3>2. CASE first \notin m_maplink
      BY <3>2, FrameTame
    <3> QED
      BY <3>1, <3>2
  <2>3. TameSources
    BY DEF TameSources, HandleInv, SourcesKnown
  <2> QED
    BY <2>1, <2>2, <2>3, FrameTame DEF Tame
<1>8. CASE Dispatch
  <2> USE <1>8 DEF Dispatch
  <2>1. PICK e \in batch :
           /\ batch' = batch \ {e}
           /\ IF e.h \in m_maplink
              THEN /\ on' = [on EXCEPT ![Worker] = e.h]
                   /\ Reach(Worker, HandlerOf(e.h, e.ev), e.h)
                   /\ link' = IF /\ link[e.h].m_link_type = "Connect"
                                 /\ "HUP" \notin e.ev
                                 /\ e.ev # {}
                              THEN [link EXCEPT ![e.h].m_link_type = "Connected"]
                              ELSE link
              ELSE UNCHANGED <<on, b_self, link, pc, i_fd>>
    OBVIOUS
  <2>2. \A u \in Threads : TameThread(u)
    <3>1. CASE e.h \in m_maplink
      <4>1. Known(e.h)
        BY <3>1 DEF HandleInv, SourcesKnown, TypeOK, LinksOK, NoLink
      <4>2. /\ pc' = [pc EXCEPT ![Worker] = HandlerOf(e.h, e.ev)]
            /\ HandlerOf(e.h, e.ev) \notin Accepting \cup GonePcs \cup {"set_link"}
        BY <2>1, <3>1 DEF Reach, HandlerOf, Accepting, GonePcs
      <4> QED
        BY <2>1, <3>1, <4>1, <4>2 DEF TameThread, TypeOK, ThreadsOK
    <3>2. CASE e.h \notin m_maplink
      BY <2>1, <3>2 DEF TameThread
    <3> QED
      BY <3>1, <3>2
  <2>3. \A k \in Links : link'[k].mh_link = link[k].mh_link
    BY <1>1, <2>1 DEF LinkObject
  <2>4. TameSources
    BY <2>1 DEF TameSources, HandleInv, SourcesKnown
  <2> QED
    BY <2>2, <2>3, <2>4, FrameTame DEF Tame
<1>9. CASE EndBatch
  <2> USE <1>9 DEF EndBatch
  <2>1. \A u \in Threads : TameThread(u)
    BY <1>4
  <2> QED
    BY <2>1, FrameTame DEF Tame
<1>10. CASE SendDisconnected
  <2> USE <1>10 DEF SendDisconnected
  <2>1. \A u \in Threads : TameThread(u)
    BY <1>2, <1>3
  <2>2. TameSeen
    BY <1>2, ToldTame DEF EventNames
  <2> QED
    BY <2>1, <2>2, FrameTame DEF Tame
<1>11. CASE Accept                       \* that finds nothing to accept
  <2> USE <1>11 DEF Accept
  <2>1. Goto(Worker, "events") /\ UNCHANGED <<sock, link, i_link, m_maplink, h_accept>>
    BY <1>1
  <2>2. \A u \in Threads : TameThread(u)
    BY <1>4, <2>1
  <2> QED
    BY <2>1, <2>2, FrameTame DEF Tame
<1>12. CASE Read
  <2> USE <1>12 DEF Read
  <2>1. \A u \in Threads : TameThread(u)
    <3>1. Goto(Worker, "middle") \/ Reach(Worker, "read_gone", l) \/ Goto(Worker, "recv_end")
      OBVIOUS
    <3> QED
      BY <1>2, <1>3, <3>1
  <2>2. TameTags
    <3>1. PICK f \in Loaded(Worker) :
             \/ sock' = sock
             \/ sock' = [sock EXCEPT ![f].rx = @ - 1]
             \/ sock' = mod_epoll_read(sock, f, link[l].mh_link)
      OBVIOUS
    <3>2. CASE sock' = [sock EXCEPT ![f].rx = @ - 1]
      BY <3>2 DEF TameTags, TypeOK, SocketTable, Socket
    <3> QED
      BY <1>2, <3>1, <3>2, TagsTame, FrameTame
  <2> QED
    BY <2>1, <2>2, FrameTame DEF Tame
<1>13. CASE ReadBegin \/ ReadMiddle
  <2> USE <1>13 DEF ReadBegin, ReadMiddle
  <2>1. \A u \in Threads : TameThread(u)
    BY <1>2, <1>3
  <2>2. TameSeen
    BY <1>2, ToldTame DEF EventNames
  <2> QED
    BY <2>1, <2>2, FrameTame DEF Tame
<1>14. CASE ReadGone
  <2> USE <1>14 DEF ReadGone
  <2>1. \A u \in Threads : TameThread(u)
    BY <1>2, <1>3
  <2>2. TameTags
    <3>1. \E f : sock' = del_epoll_read(sock, f)
      OBVIOUS
    <3> QED
      BY <3>1, TagsTame
  <2> QED
    BY <2>1, <2>2, FrameTame DEF Tame
<1>15. CASE ReadEnd
  <2> USE <1>15 DEF ReadEnd
  <2>1. \A u \in Threads : TameThread(u)
    BY <1>4
  <2>2. TameSeen
    BY <1>2, ToldTame DEF EventNames
  <2> QED
    BY <2>1, <2>2, FrameTame DEF Tame
<1> QED
  BY <1>5, <1>6, <1>7, <1>8, <1>9, <1>10, <1>11, <1>12, <1>13, <1>14, <1>15 DEF WorkerStep

LEMMA PeerTame ==
    ASSUME Assumptions, TypeOK, HandleInv, PeerStep
    PROVE  Tame
<1> USE DEF linkVars, workerVars, threadVars, historyVars
<1>1. PICK f \in Fds : PeerDials(f) \/ PeerAnswers(f) \/ PeerSends(f)
                         \/ PeerCloses(f) \/ PeerResets(f)
  BY DEF PeerStep
<1>2. sock[f] \in Socket
  BY DEF TypeOK, SocketTable
<1>3. ASSUME NEW act, NEW s \in Socket, Peer(act, f, s), s.tag = sock[f].tag
      PROVE  Tame
  <2>1. TameTags
    BY <1>3 DEF Peer, Edge, TameTags, TypeOK, SocketTable, Socket
  <2> QED
    BY <1>3, <2>1, FrameTame DEF Peer, Tame, TameThread
<1>4. 0 \in 0 .. MaxRx /\ 1 \in 0 .. MaxRx
  BY DEF Assumptions, SocketsAssumption
<1>5. CASE PeerDials(f)
  <2>1. [sock[f] EXCEPT !.rx = 1] \in Socket
    BY <1>2, <1>4 DEF Socket
  <2> QED
    BY <1>2, <1>3, <1>5, <2>1 DEF PeerDials, Socket
<1>6. CASE PeerAnswers(f)
  <2>1. [sock[f] EXCEPT !.st = "up"] \in Socket
    BY <1>2 DEF Socket, SocketStates
  <2> QED
    BY <1>2, <1>3, <1>6, <2>1 DEF PeerAnswers, Socket
<1>7. CASE PeerSends(f)
  <2>1. [sock[f] EXCEPT !.rx = @ + 1] \in Socket
    BY <1>2, <1>7 DEF PeerSends, Socket, Assumptions, SocketsAssumption
  <2> QED
    BY <1>2, <1>3, <1>7, <2>1 DEF PeerSends, Socket
<1>8. CASE PeerCloses(f)
  <2>1. [sock[f] EXCEPT !.st = "fin"] \in Socket
    BY <1>2 DEF Socket, SocketStates
  <2> QED
    BY <1>2, <1>3, <1>8, <2>1 DEF PeerCloses, Socket
<1>9. CASE PeerResets(f)
  <2>1. "reset" \in SocketStates
    BY DEF SocketStates
  <2>2. [sock[f] EXCEPT !.st = "reset", !.rx = 0] \in Socket
    BY <1>2, <1>4, <2>1 DEF Socket
  <2> QED
    BY <1>2, <1>3, <1>9, <2>2 DEF PeerResets, Socket
<1> QED
  BY <1>1, <1>5, <1>6, <1>7, <1>8, <1>9

-----------------------------------------------------------------------------
(* The five steps that introduce links. *)

LEMMA NextHandle ==
    ASSUME Assumptions, TypeOK, HandleInv, i_link < MaxLinks
    PROVE  /\ i_link + 1 \in Links /\ i_link + 1 \notin m_maplink
           /\ \A l \in Links : Known(l) => l # i_link + 1
           /\ i_link \in Nat
           /\ \A l \in m_maplink : l \in Links /\ l <= i_link
  BY DEF Assumptions, SocketsAssumption, TypeOK, LinksOK, Links, HandleInv, KnownIsSet

(* A link that no one knows yet enters the registry.                       *)
LEMMA RegisterStep ==
    ASSUME Assumptions, TypeOK, TypeOK', HandleInv, NEW t \in Threads, NEW label,
           i_link < MaxLinks,
           i_link' = i_link + 1, m_maplink' = m_maplink \cup {i_link + 1},
           \A l \in Links : link'[l].mh_link = link[l].mh_link,
           \A f \in Fds : sock'[f].tag \in {sock[f].tag, NoLink},
           pc' = [pc EXCEPT ![t] = label], pc[t] # "accepted",
           UNCHANGED <<first, batch, seen>>,
           \/ /\ t \in App /\ label = "set_link"
              /\ on' = [on EXCEPT ![t] = i_link + 1] /\ h_accept' = h_accept
           \/ /\ t = Worker /\ label = "accept_attach" /\ Known(on[t])
              /\ on' = on /\ h_accept' = i_link + 1
    PROVE  HandleInv'
<1> DEFINE n == i_link + 1
<1> USE DEF HandleInv
<1>1. /\ n \in Links /\ n \notin m_maplink
      /\ \A l \in Links : Known(l) => l # n
      /\ \A l \in m_maplink : l \in Links
      /\ i_link \in Nat
  BY NextHandle
<1>2. \A l : Known(l)' <=> Known(l)
  BY DEF Known
<1>3. /\ pc \in [Threads -> AppPcs \cup WorkerPcs] /\ on \in [Threads -> LinkOrNone]
      /\ \A u \in Threads : pc[u] \notin Outside => on[u] \in Links
      /\ \A u \in App : u \in Threads /\ u # Worker
      /\ Worker \in Threads
  BY DEF TypeOK, ThreadsOK, Threads, Assumptions, TcpLinkAssumption
<1>4. OwnHandle' /\ AnnouncedFirst' /\ SourcesKnown'
  BY <1>2 DEF OwnHandle, AnnouncedFirst, SourcesKnown
<1>5. KnownIsSet'
  BY <1>1, <1>2 DEF KnownIsSet, Links
<1>6. ThreadsKnow'
  BY <1>2, <1>3 DEF ThreadsKnow
<1>7. TagsKnown'
  <2>1. pc[Worker] = "accepted" => pc'[Worker] = "accepted" /\ h_accept' = h_accept
    BY <1>3
  <2> QED
    BY <1>2, <2>1 DEF TagsKnown
<1>8. GoneStays'
  <2> SUFFICES ASSUME NEW u \in Threads, pc'[u] \in GonePcs
               PROVE  on'[u] \notin m_maplink'
    BY DEF GoneStays
  <2>1. pc'[u] = pc[u] /\ on'[u] = on[u] /\ pc[u] \notin Outside \cup {"set_link"}
    BY <1>3 DEF GonePcs, Outside
  <2>2. Known(on[u]) /\ on[u] \in Links /\ on[u] \notin m_maplink
    BY <1>3, <2>1 DEF ThreadsKnow, GoneStays
  <2> QED
    BY <1>1, <2>1, <2>2
<1>9. ClosedIsGone'
  BY <1>1, <1>2 DEF ClosedIsGone, AnnouncedFirst
<1>10. Introduced'
  <2>1. CASE t \in App /\ label = "set_link" /\ on' = [on EXCEPT ![t] = n] /\ h_accept' = h_accept
    <3>1. pc'[Worker] = pc[Worker] /\ pc'[t] = "set_link" /\ on'[t] = n
      BY <1>3, <2>1
    <3>2. \A u \in App \ {t} : pc'[u] = pc[u] /\ on'[u] = on[u]
      BY <1>3, <2>1
    <3>3. ~Known(n)
      BY <1>1
    <3>4. pc[Worker] \in Accepting => h_accept # n
      BY <1>1 DEF Introduced
    <3>5. \A u \in App \ {t} : pc[u] = "set_link" => on[u] # n
      BY <1>1 DEF Introduced
    <3>6. ASSUME NEW u \in App, pc'[u] = "set_link"
          PROVE  /\ on'[u] \in m_maplink' /\ ~Known(on[u])'
                 /\ pc'[Worker] \in Accepting => on'[u] # h_accept'
                 /\ \A v \in App \ {u} : pc'[v] = "set_link" => on'[v] # on'[u]
      <4>1. CASE u = t
        BY <1>2, <2>1, <3>1, <3>2, <3>3, <3>4, <3>5, <4>1
      <4>2. CASE u # t
        BY <1>2, <2>1, <3>1, <3>2, <3>5, <3>6, <4>2 DEF Introduced
      <4> QED
        BY <4>1, <4>2
    <3>7. pc'[Worker] \in Accepting => h_accept' \in m_maplink' /\ ~Known(h_accept)'
      BY <1>2, <2>1, <3>1 DEF Introduced
    <3>8. pc'[Worker] = "accepted" => link'[h_accept'].mh_link = h_accept'
      BY <1>1, <2>1, <3>1 DEF Introduced, Accepting
    <3> QED
      BY <3>1, <3>6, <3>7, <3>8 DEF Introduced
  <2>2. CASE t = Worker /\ label = "accept_attach" /\ on' = on /\ h_accept' = n
    <3>1. pc'[Worker] = "accept_attach" /\ \A u \in App : pc'[u] = pc[u]
      BY <1>3, <2>2
    <3>2. ~Known(n) /\ ~Known(h_accept)'
      BY <1>1, <1>2, <2>2
    <3>3. \A u \in App : pc[u] = "set_link" => on[u] # n
      BY <1>1 DEF Introduced
    <3>4. \A u \in App : Known(on[u])' <=> Known(on[u])
      BY <1>2, <2>2
    <3> QED
      BY <2>2, <3>1, <3>2, <3>3, <3>4 DEF Introduced
  <2> QED
    BY <2>1, <2>2
<1> QED
  BY <1>4, <1>5, <1>6, <1>7, <1>8, <1>9, <1>10


(* The application is told of link n, that it did not know.                *)
LEMMA AnnounceStep ==
    ASSUME Assumptions, TypeOK, TypeOK', HandleInv, NEW t \in Threads, NEW label,
           NEW e \in {"CREATED", "ACCEPTED"}, NEW n \in m_maplink,
           seen' = Told(n, e),
           \A l \in Links \ {n} : link'[l].mh_link = link[l].mh_link,
           link'[n].mh_link = n,
           UNCHANGED <<i_link, m_maplink, first, batch, h_accept, sock, on>>,
           pc' = [pc EXCEPT ![t] = label],
           \/ t \in App /\ pc[t] = "set_link" /\ on[t] = n /\ label = "check_first"
           \/ t = Worker /\ pc[t] = "accepted" /\ h_accept = n /\ label = "accept"
    PROVE  HandleInv'
<1> USE DEF HandleInv
<1>1. /\ n \in Links /\ n <= i_link /\ ~Known(n)
      /\ \A l \in m_maplink : l \in Links
  BY DEF Assumptions, SocketsAssumption, TypeOK, LinksOK, Links, Introduced, Accepting
<1>2. /\ pc \in [Threads -> AppPcs \cup WorkerPcs] /\ on \in [Threads -> LinkOrNone]
      /\ \A u \in Threads : pc[u] \notin Outside => on[u] \in Links
      /\ \A u \in App : u \in Threads /\ u # Worker
      /\ Worker \in Threads
  BY DEF TypeOK, ThreadsOK, Threads, Assumptions, TcpLinkAssumption
<1>3. seen' = [seen EXCEPT ![n] = @ \cup {e}] /\ seen \in [Links -> SUBSET EventNames]
  BY <1>1 DEF Told, Assumptions, TcpLinkAssumption, TypeOK, HistoryOK
<1>4. \A l \in Links : Known(l)' <=> (Known(l) \/ l = n)
  BY <1>3 DEF Known
<1>5. OwnHandle' /\ KnownIsSet'
  BY <1>1, <1>4 DEF OwnHandle, KnownIsSet
<1>6. AnnouncedFirst'
  BY <1>3, <1>4 DEF AnnouncedFirst
<1>7. \A h \in LinkOrNone : h # NoLink /\ Known(h) => Known(h)'
  BY <1>4 DEF LinkOrNone
<1>8. ThreadsKnow'
  <2> SUFFICES ASSUME NEW u \in Threads, pc'[u] \notin Outside \cup {"set_link"}
               PROVE  Known(on[u])'
    BY DEF ThreadsKnow
  <2>1. CASE u = t
    <3>1. on[u] \in Links /\ (on[u] = n \/ Known(on[u]))
      BY <1>1, <1>2, <2>1 DEF ThreadsKnow, Outside
    <3> QED
      BY <1>4, <3>1
  <2>2. CASE u # t
    BY <1>2, <1>4, <2>2 DEF ThreadsKnow
  <2> QED
    BY <2>1, <2>2
<1>9. SourcesKnown'
  <2>1. first \in LinkOrNone /\ \A b \in batch : b.h \in LinkOrNone
    BY DEF TypeOK, LinksOK, WorkerOK
  <2> QED
    BY <1>7, <2>1 DEF SourcesKnown
<1>10. TagsKnown'
  <2> SUFFICES ASSUME NEW f \in Fds, sock[f].tag # NoLink
               PROVE  Known(sock[f].tag)' \/ (pc'[Worker] = "accepted" /\ sock[f].tag = h_accept)
    BY DEF TagsKnown
  <2>1. sock[f].tag \in LinkOrNone
    BY DEF TypeOK, SocketTable, Socket
  <2>2. CASE Known(sock[f].tag)
    BY <1>7, <2>1, <2>2
  <2>3. CASE pc[Worker] = "accepted" /\ sock[f].tag = h_accept
    BY <1>1, <1>2, <1>4, <2>3
  <2> QED
    BY <2>2, <2>3 DEF TagsKnown
<1>11. GoneStays'
  BY <1>2 DEF GoneStays, GonePcs
<1>12. ClosedIsGone'
  BY <1>3 DEF ClosedIsGone
<1>13. Introduced'
  <2>1. ASSUME NEW u \in App, pc'[u] = "set_link"
        PROVE  u # t /\ pc[u] = "set_link" /\ on[u] # n
    <3>1. u # t /\ pc[u] = "set_link"
      BY <1>2, <2>1
    <3> QED
      BY <3>1 DEF Introduced, Accepting
  <2>2. \A u \in App : pc'[u] = "set_link" => ~Known(on[u])'
    BY <1>1, <1>4, <2>1 DEF Introduced
  <2>3. ASSUME pc'[Worker] \in Accepting
        PROVE  t \in App /\ pc'[Worker] = pc[Worker] /\ h_accept # n
    <3>1. t # Worker
      BY <1>2, <2>3 DEF Accepting
    <3> QED
      BY <1>2, <2>3, <3>1 DEF Introduced
  <2>4. pc'[Worker] \in Accepting => ~Known(h_accept)'
    BY <1>1, <1>4, <2>3 DEF Introduced
  <2>5. pc'[Worker] = "accepted" => link'[h_accept].mh_link = h_accept
    BY <1>1, <2>3 DEF Introduced, Accepting
  <2>6. pc'[Worker] # "set_link"
    BY <1>2 DEF Introduced
  <2>7. \A u \in App : pc'[u] = "set_link" =>
           /\ on[u] \in m_maplink
           /\ pc'[Worker] \in Accepting => on[u] # h_accept
           /\ \A v \in App \ {u} : pc'[v] = "set_link" => on[v] # on[u]
    BY <2>1, <2>3 DEF Introduced
  <2>8. pc'[Worker] \in Accepting => h_accept \in m_maplink
    BY <2>3 DEF Introduced
  <2> QED
    BY <2>2, <2>4, <2>5, <2>6, <2>7, <2>8 DEF Introduced
<1> QED
  BY <1>5, <1>6, <1>8, <1>9, <1>10, <1>11, <1>12, <1>13

LEMMA AttachStep ==
    ASSUME Assumptions, TypeOK, TypeOK', HandleInv, AcceptAttach
    PROVE  HandleInv'
<1> USE DEF HandleInv, AcceptAttach, workerVars, historyVars
<1> DEFINE n == h_accept
<1>1. /\ n \in Links /\ n \in m_maplink /\ n <= i_link /\ ~Known(n)
      /\ on[Worker] \in Links /\ Known(on[Worker])
      /\ link \in [Links -> LinkObject]
  BY OnKnown DEF Assumptions, SocketsAssumption, TypeOK, LinksOK, Links, Introduced, Accepting,
     Outside, Threads
<1>2. /\ pc \in [Threads -> AppPcs \cup WorkerPcs]
      /\ \A u \in App : u \in Threads /\ u # Worker
      /\ Worker \in Threads
  BY DEF TypeOK, ThreadsOK, Threads, Assumptions, TcpLinkAssumption
<1>3. \A l : Known(l)' <=> Known(l)
  BY DEF Known
<1>4. /\ link'[n].mh_link = n
      /\ \A l \in Links \ {n} : link'[l].mh_link = link[l].mh_link
  BY <1>1 DEF LinkObject
<1>5. \/ pc'[Worker] = "accepted" /\ sock' = attach_to_epoll(sock, Fd(n), n)
      \/ pc'[Worker] = "accept" /\ sock' = sock
  BY <1>2 DEF Goto, Reach
<1>6. \A u \in App : pc'[u] = pc[u]
  BY <1>2 DEF Goto, Reach
<1>7. OwnHandle' /\ KnownIsSet' /\ AnnouncedFirst' /\ SourcesKnown' /\ ClosedIsGone'
  BY <1>1, <1>3, <1>4 DEF OwnHandle, KnownIsSet, AnnouncedFirst, SourcesKnown, ClosedIsGone
<1>8. ThreadsKnow'
  BY <1>1, <1>3, <1>6 DEF ThreadsKnow, Threads
<1>9. TagsKnown'
  <2>1. \A f \in Fds : \/ sock'[f].tag = sock[f].tag
                       \/ sock'[f].tag = n /\ pc'[Worker] = "accepted"
    BY <1>5 DEF attach_to_epoll, CanAttach, IsOpen, Armed, TypeOK, SocketTable, Socket
  <2>2. \A f \in Fds : sock[f].tag # NoLink => Known(sock[f].tag)
    BY DEF TagsKnown
  <2> QED
    BY <1>3, <2>1, <2>2 DEF TagsKnown
<1>10. GoneStays'
  BY <1>5, <1>6 DEF GoneStays, GonePcs, Threads
<1>11. Introduced'
  BY <1>1, <1>3, <1>4, <1>5, <1>6 DEF Introduced, Accepting
<1> QED
  BY <1>7, <1>8, <1>9, <1>10, <1>11

LEMMA CreateStep ==
    ASSUME Assumptions, TypeOK, TypeOK', HandleInv, NEW t \in App, Create(t) \/ CreateAnnounce(t)
    PROVE  HandleInv'
<1> USE DEF workerVars, historyVars, kernelVars
<1>0. t \in Threads /\ link \in [Links -> LinkObject]
  BY DEF Threads, TypeOK, LinksOK
<1>1. CASE Create(t)
  <2> USE <1>1 DEF Create
  <2>1. i_link < MaxLinks /\ i_link + 1 \in Links
    BY NextHandle DEF HandleLeft
  <2>2. \A f \in Fds : sock'[f].tag \in {sock[f].tag, NoLink}
    BY DEF TypeOK, SocketTable, Fresh
  <2>3. \A l \in Links : link'[l].mh_link = link[l].mh_link
    BY <1>0, <2>1 DEF LinkObject
  <2>4. pc' = [pc EXCEPT ![t] = "set_link"]
    BY DEF Goto
  <2> QED
    BY <1>0, <2>1, <2>2, <2>3, <2>4, RegisterStep
<1>2. CASE CreateAnnounce(t)
  <2> USE <1>2 DEF CreateAnnounce
  <2>1. on[t] \in m_maplink /\ on[t] \in Links
    BY <1>0 DEF HandleInv, Introduced, TypeOK, ThreadsOK, Outside
  <2>2. /\ link'[on[t]].mh_link = on[t]
        /\ \A l \in Links \ {on[t]} : link'[l].mh_link = link[l].mh_link
    BY <1>0, <2>1 DEF LinkObject
  <2>3. pc' = [pc EXCEPT ![t] = "check_first"]
    BY DEF Goto
  <2> QED
    BY <1>0, <2>1, <2>2, <2>3, AnnounceStep
<1> QED
  BY <1>1, <1>2

LEMMA FieldsKept ==
    ASSUME NEW tab \in [Links -> LinkObject], NEW n \in Links, NEW g, NEW type
    PROVE  \A l \in Links :
              [tab EXCEPT ![n].mi_socket = g, ![n].m_link_type = type][l].mh_link = tab[l].mh_link
<1>1. \A l \in Links : tab[l] \in LinkObject
  OBVIOUS
<1> QED
  BY <1>1 DEF LinkObject

LEMMA AcceptStep ==
    ASSUME Assumptions, TypeOK, TypeOK', HandleInv, SendAccepted \/ (Accept /\ i_link' # i_link)
    PROVE  HandleInv'
<1> USE DEF workerVars, historyVars, kernelVars, linkVars
<1>0. Worker \in Threads /\ link \in [Links -> LinkObject]
  BY DEF Threads, TypeOK, LinksOK
<1>1. CASE SendAccepted
  <2> USE <1>1 DEF SendAccepted
  <2>1. /\ h_accept \in m_maplink /\ link[h_accept].mh_link = h_accept
    BY DEF HandleInv, Introduced, Accepting
  <2>2. pc' = [pc EXCEPT ![Worker] = "accept"]
    BY DEF Reach
  <2> QED
    BY <1>0, <2>1, <2>2, AnnounceStep
<1>2. CASE Accept /\ i_link' # i_link
  <2>1. PICK f \in Loaded(Worker) :
           /\ StateOf(sock, f) = "listening"
           /\ i_link < MaxLinks
           /\ \E g \in FreeFds(sock) :
                /\ sock' = [sock EXCEPT ![f].rx = @ - 1, ![g] = Fresh(i_link + 1, "up")]
                /\ link' = [link EXCEPT ![i_link + 1].mi_socket = g,
                                        ![i_link + 1].m_link_type = "Accept"]
           /\ i_link' = i_link + 1
           /\ m_maplink' = m_maplink \cup {i_link + 1}
           /\ h_accept' = i_link + 1
           /\ Goto(Worker, "accept_attach")
    BY <1>2 DEF Accept
  <2>2. i_link + 1 \in Links
    BY <2>1, NextHandle
  <2>3. PICK g \in FreeFds(sock) :
           /\ sock' = [sock EXCEPT ![f].rx = @ - 1, ![g] = Fresh(i_link + 1, "up")]
           /\ link' = [link EXCEPT ![i_link + 1].mi_socket = g,
                                   ![i_link + 1].m_link_type = "Accept"]
    BY <2>1
  <2>4. \A k \in Fds : sock'[k].tag \in {sock[k].tag, NoLink}
    <3>1. f \in Fds /\ g \in Fds
      BY <2>1 DEF StateOf, IsOpen, FreeFds
    <3> QED
      BY <2>3, <3>1 DEF TypeOK, SocketTable, Socket, Fresh
  <2>5. \A l \in Links : link'[l].mh_link = link[l].mh_link
    BY <1>0, <2>2, <2>3, FieldsKept
  <2>6. pc' = [pc EXCEPT ![Worker] = "accept_attach"] /\ Known(on[Worker])
    BY <1>0, <1>2, <2>1, OnKnown DEF Accept, Goto, Outside
  <2>7. UNCHANGED <<first, batch, seen, on>> /\ pc[Worker] # "accepted"
    BY <1>2 DEF Accept
  <2> QED
    BY <1>0, <2>1, <2>4, <2>5, <2>6, <2>7, RegisterStep
<1> QED
  BY <1>1, <1>2

-----------------------------------------------------------------------------
LEMMA HandleInit == Assumptions /\ Init => HandleInv
<1> SUFFICES ASSUME Assumptions, Init PROVE HandleInv
  OBVIOUS
<1>1. \A l \in Links : ~Known(l)
  BY DEF Init, Known
<1>2. \A t \in Threads : pc[t] \in {"wait", "idle"} /\ (t = Worker => pc[t] = "wait")
  BY DEF Init
<1>3. Worker \in Threads /\ App \subseteq Threads
  BY DEF Threads
<1>4. OwnHandle /\ KnownIsSet /\ AnnouncedFirst /\ ClosedIsGone
  BY <1>1 DEF Init, NewLink, OwnHandle, KnownIsSet, AnnouncedFirst, ClosedIsGone
<1>5. ThreadsKnow /\ GoneStays
  BY <1>2 DEF ThreadsKnow, GoneStays, Outside, GonePcs
<1>6. SourcesKnown /\ TagsKnown
  BY DEF Init, SourcesKnown, TagsKnown, Unused
<1>7. Introduced
  BY <1>2, <1>3 DEF Introduced, Accepting
<1> QED
  BY <1>4, <1>5, <1>6, <1>7 DEF HandleInv

(* A step is tame, or it introduces a link, or it is not one of Next.      *)
LEMMA StepKinds ==
    ASSUME Assumptions, TypeOK, HandleInv, [Next]_vars
    PROVE  \/ Tame
           \/ \E t \in App : Create(t) \/ CreateAnnounce(t)
           \/ AcceptAttach \/ SendAccepted \/ (Accept /\ i_link' # i_link)
<1>0. Worker \in Threads /\ App \subseteq Threads
  BY DEF Threads
<1>1. CASE UNCHANGED vars
  BY <1>1, FrameTame DEF vars, Tame, TameThread
<1>2. CASE \E t \in App : AppStep(t)
  BY <1>0, <1>2, DestroyTame, CallTame
<1>3. CASE WorkerStep
  <2>1. CASE i_link' # i_link
    BY <1>3, <2>1 DEF WorkerStep, EpollWait, Keepalive, KeepaliveFind, Dispatch, EndBatch,
       SendDisconnected, DestroyStep, DestroyCheckFirst, DestroyClearFirst, DelLink,
       DestroyCheckSocket, DestroyClose, DestroySendClosed, DestroyForget, AcceptAttach,
       SendAccepted, ReadBegin, Read, ReadMiddle, ReadGone, ReadEnd, linkVars
  <2> QED
    BY <1>0, <1>3, <2>1, DestroyTame, WorkerTame
<1>4. CASE PeerStep
  BY <1>4, PeerTame
<1> QED
  BY <1>1, <1>2, <1>3, <1>4 DEF Next

LEMMA HandleStep == Assumptions /\ TypeOK /\ TypeOK' /\ HandleInv /\ [Next]_vars => HandleInv'
  BY StepKinds, TameStep, CreateStep, AcceptStep, AttachStep

LEMMA HandleCorrect == Spec => [](TypeOK /\ HandleInv)
<1>1. Init => TypeOK /\ HandleInv
  BY InitType, HandleInit, TcpLinkAssumption, SocketsAssumption DEF Assumptions
<1>2. TypeOK /\ HandleInv /\ [Next]_vars => (TypeOK /\ HandleInv)'
  BY StepType, HandleStep, TcpLinkAssumption, SocketsAssumption DEF Assumptions
<1> QED
  BY <1>1, <1>2, PTL DEF Spec

(* Where a handle may be: a call under way, a tag in the epoll set, an     *)
(* event in the batch or the global first link holds only handles that the *)
(* application has been told of, apart from the one a thread is about to   *)
(* tell it of, and a thread past del_link works on one that is gone.       *)
THEOREM HandleInvariant == Spec => []HandleInv
  BY HandleCorrect, PTL

(* No callback names a handle before the CREATED or ACCEPTED callback that *)
(* introduces it: whatever thread creates, accepts, sends, closes or takes *)
(* events from epoll, the application is never told of a link it does not  *)
(* know.                                                                   *)
THEOREM NoEarlyCallback == Spec => []AnnouncedFirst
<1>1. HandleInv => AnnouncedFirst
  BY DEF HandleInv
<1> QED
  BY <1>1, HandleCorrect, PTL

(* When CLOSED is said of a handle the handle is out of m_maplink and it   *)
(* never comes back, although several threads may destroy the link at once *)
(* and del_link's result is ignored.                                       *)
THEOREM NoCallAfterClosed == Spec => []ClosedIsGone
<1>1. HandleInv => ClosedIsGone
  BY DEF HandleInv
<1> QED
  BY <1>1, HandleCorrect, PTL

-----------------------------------------------------------------------------
(* Refinement: TcpLink implements LinkTable. *)

(* A step that introduces no link unregisters one link or tells of one.    *)
Small == \/ /\ m_maplink' = m_maplink
            /\ seen' = seen \/ \E h, e : seen' = Told(h, e)
         \/ /\ seen' = seen
            /\ \E h : m_maplink' = m_maplink \ {h}

LEMMA SmallStep ==
    ASSUME [Next]_vars,
           ~(\E t \in App : Create(t) \/ CreateAnnounce(t)),
           ~AcceptAttach, ~SendAccepted, ~(Accept /\ i_link' # i_link)
    PROVE  Small \/ (Accept /\ i_link' = i_link)
<1> USE DEF Small, kernelVars, linkVars, workerVars, threadVars, historyVars
<1>1. CASE UNCHANGED vars
  BY <1>1 DEF vars
<1>2. ASSUME NEW t, DestroyStep(t) PROVE Small
  <2>1. CASE DelLink(t)
    BY <2>1 DEF DelLink
  <2>2. CASE DestroyCheckFirst(t) \/ DestroyClearFirst(t) \/ DestroyCheckSocket(t)
             \/ DestroyClose(t) \/ DestroyForget(t)
    BY <2>2 DEF DestroyCheckFirst, DestroyClearFirst, DestroyCheckSocket, DestroyClose, DestroyForget
  <2>3. CASE DestroySendClosed(t)
    BY <2>3 DEF DestroySendClosed
  <2> QED
    BY <1>2, <2>1, <2>2, <2>3 DEF DestroyStep
<1>3. CASE \E t \in App : AppStep(t)
  <2>1. PICK t \in App : AppStep(t) /\ ~Create(t) /\ ~CreateAnnounce(t)
    BY <1>3
  <2>2. CASE CallConnect(t) \/ CallListen(t) \/ CallSend(t) \/ CallDestroy(t)
    <3>1. \E handles, label : Call(t, handles, label)
      BY <2>2 DEF CallConnect, CallListen, CallSend, CallDestroy
    <3> QED
      BY <3>1 DEF Call
  <2>3. CASE CreateCheckFirst(t) \/ CreateSetFirst(t) \/ LinkConnect(t) \/ Attach(t)
             \/ ConnectRefused(t) \/ LinkListen(t) \/ LinkSendData(t)
    BY <2>3 DEF CreateCheckFirst, CreateSetFirst, LinkConnect, Attach, ConnectRefused,
       LinkListen, LinkSendData
  <2>4. CASE SendConnected(t) \/ ConnectForget(t)
    BY <2>4 DEF SendConnected, ConnectForget
  <2> QED
    BY <1>2, <2>1, <2>2, <2>3, <2>4 DEF AppStep, InCall
<1>4. CASE WorkerStep
  <2>1. CASE EpollWait \/ Keepalive \/ Dispatch \/ EndBatch \/ Read \/ ReadGone
    BY <2>1 DEF EpollWait, Keepalive, Dispatch, EndBatch, Read, ReadGone
  <2>2. CASE KeepaliveFind \/ SendDisconnected \/ ReadBegin \/ ReadMiddle \/ ReadEnd
    BY <2>2 DEF KeepaliveFind, SendDisconnected, ReadBegin, ReadMiddle, ReadEnd
  <2> QED
    BY <1>2, <1>4, <2>1, <2>2 DEF WorkerStep
<1>5. CASE PeerStep
  BY <1>5 DEF PeerStep, PeerDials, PeerAnswers, PeerSends, PeerCloses, PeerResets, Peer
<1> QED
  BY <1>1, <1>3, <1>4, <1>5 DEF Next

LEMMA TableInitially == Assumptions /\ Init => Table!TableInit
<1> SUFFICES ASSUME Assumptions, Init PROVE Table!TableInit
  OBVIOUS
<1>1. \A h \in Links : h > i_link /\ seen[h] = {}
  BY DEF Init, Links, Assumptions, SocketsAssumption
<1> QED
  BY <1>1 DEF Table!TableInit, PhaseOf

LEMMA TableTame ==
    ASSUME Assumptions, TypeOK, HandleInv, Tame, Small
    PROVE  [Table!TableNext]_Table!tableVars
<1> USE DEF Table!tableVars
<1>1. /\ \A l \in Links : Known(l)' <=> Known(l)
      /\ \A l \in Links : seen'[l] # {} <=> seen[l] # {}
  BY DEF Tame, TameSeen, Known, HandleInv, AnnouncedFirst
<1>2. i_link' = i_link
  BY DEF Tame, TameTable
<1>3. {h \in Links : seen'[h] # {}} = {h \in Links : seen[h] # {}}
  BY <1>1
<1>4. CASE seen' = seen /\ \E h : m_maplink' = m_maplink \ {h}
  <2>1. PICK h : m_maplink' = m_maplink \ {h}
    BY <1>4
  <2>2. CASE h \notin m_maplink
    <3>1. m_maplink' = m_maplink
      BY <2>1, <2>2
    <3> QED
      BY <1>1, <1>2, <1>3, <1>4, <3>1 DEF PhaseOf
  <2>3. CASE h \in m_maplink
    <3>1. h \in Links /\ h <= i_link /\ i_link \in Nat /\ Known(h)
      <4>1. h \in 1 .. i_link /\ i_link \in 0 .. MaxLinks /\ MaxLinks \in Nat
        BY <2>3 DEF TypeOK, LinksOK, Assumptions, SocketsAssumption
      <4>2. h \in m_maplink \ m_maplink'
        BY <2>1, <2>3
      <4>3. Known(h)
        BY <4>2 DEF Tame, TameTable
      <4> QED
        BY <4>1, <4>3 DEF Links
    <3>2. PhaseOf(h) = "announced" /\ PhaseOf(h)' = "gone"
      BY <1>2, <2>1, <2>3, <3>1 DEF PhaseOf, Links
    <3>3. \A l \in Links \ {h} : PhaseOf(l)' = PhaseOf(l)
      BY <1>1, <1>2, <2>1 DEF PhaseOf
    <3>4. Table!Unregister(h)
      BY <1>3, <1>4, <3>1, <3>2, <3>3 DEF Table!Unregister
    <3> QED
      BY <3>1, <3>4 DEF Table!TableNext
  <2> QED
    BY <2>2, <2>3
<1>5. CASE m_maplink' = m_maplink /\ (seen' = seen \/ \E h, e : seen' = Told(h, e))
  <2>1. \A l \in Links : PhaseOf(l)' = PhaseOf(l)
    BY <1>1, <1>2, <1>5 DEF PhaseOf
  <2>2. CASE {l \in Links : "CLOSED" \in seen'[l]} = {l \in Links : "CLOSED" \in seen[l]}
    BY <1>3, <2>1, <2>2
  <2>3. CASE {l \in Links : "CLOSED" \in seen'[l]} # {l \in Links : "CLOSED" \in seen[l]}
    <3>1. PICK h, e : seen' = Told(h, e)
      BY <1>5, <2>3
    <3>2. /\ h \in Links /\ e = "CLOSED" /\ seen' = [seen EXCEPT ![h] = @ \cup {"CLOSED"}]
          /\ "CLOSED" \notin seen[h]
      BY <2>3, <3>1 DEF Told, TypeOK, HistoryOK
    <3>3. Known(h) /\ h \notin m_maplink /\ h <= i_link
      BY <3>2 DEF Tame, TameSeen, TypeOK, HistoryOK, HandleInv, KnownIsSet
    <3>4. PhaseOf(h) = "gone"
      BY <3>2, <3>3 DEF PhaseOf, Links, TypeOK, LinksOK
    <3>5. {l \in Links : "CLOSED" \in seen'[l]} = {l \in Links : "CLOSED" \in seen[l]} \cup {h}
      BY <3>2 DEF TypeOK, HistoryOK
    <3>6. Table!SayClosed(h)
      BY <1>3, <2>1, <3>2, <3>4, <3>5 DEF Table!SayClosed
    <3> QED
      BY <3>2, <3>6 DEF Table!TableNext
  <2> QED
    BY <2>2, <2>3
<1> QED
  BY <1>4, <1>5 DEF Small

LEMMA TableRegister ==
    ASSUME Assumptions, TypeOK, HandleInv, i_link < MaxLinks, NEW n, n = i_link + 1,
           i_link' = n, m_maplink' = m_maplink \cup {n}, seen' = seen
    PROVE  Table!TableNext
<1>1. /\ n \in Links /\ n \notin m_maplink /\ i_link \in Nat
      /\ \A l \in Links : Known(l) => l # n
      /\ \A l \in Links : l \in Nat
  BY NextHandle DEF Links
<1>2. \A l : Known(l)' <=> Known(l)
  BY DEF Known
<1>3. PhaseOf(n) = "unborn" /\ PhaseOf(n)' = "registered"
  BY <1>1, <1>2 DEF PhaseOf
<1>4. \A l \in Links \ {n} : PhaseOf(l)' = PhaseOf(l)
  BY <1>1, <1>2 DEF PhaseOf
<1>5. \A l \in Links : l < n => PhaseOf(l) # "unborn"
  BY <1>1 DEF PhaseOf
<1>6. Table!Register(n)
  BY <1>1, <1>3, <1>4, <1>5 DEF Table!Register
<1> QED
  BY <1>1, <1>6 DEF Table!TableNext

LEMMA TableAnnounce ==
    ASSUME Assumptions, TypeOK, HandleInv, NEW n \in m_maplink, ~Known(n),
           NEW e \in {"CREATED", "ACCEPTED"}, seen' = Told(n, e),
           UNCHANGED <<i_link, m_maplink>>
    PROVE  Table!TableNext
<1>1. n \in Links /\ ~(n > i_link)
  BY DEF Assumptions, SocketsAssumption, TypeOK, LinksOK, Links
<1>2. seen' = [seen EXCEPT ![n] = @ \cup {e}] /\ seen \in [Links -> SUBSET EventNames]
  BY <1>1 DEF Told, Assumptions, TcpLinkAssumption, TypeOK, HistoryOK
<1>3. \A l \in Links : Known(l)' <=> (Known(l) \/ l = n)
  BY <1>2 DEF Known
<1>4. PhaseOf(n) = "registered" /\ PhaseOf(n)' = "announced"
  BY <1>1, <1>3 DEF PhaseOf
<1>5. \A l \in Links \ {n} : PhaseOf(l)' = PhaseOf(l)
  BY <1>3 DEF PhaseOf
<1>6. /\ {l \in Links : seen'[l] # {}} = {l \in Links : seen[l] # {}} \cup {n}
      /\ {l \in Links : "CLOSED" \in seen'[l]} = {l \in Links : "CLOSED" \in seen[l]}
  BY <1>1, <1>2
<1>7. Table!Announce(n)
  BY <1>1, <1>4, <1>5, <1>6 DEF Table!Announce
<1> QED
  BY <1>1, <1>7 DEF Table!TableNext

LEMMA TableStep ==
    Assumptions /\ TypeOK /\ HandleInv /\ [Next]_vars => [Table!TableNext]_Table!tableVars
<1> SUFFICES ASSUME Assumptions, TypeOK, HandleInv, [Next]_vars
             PROVE  [Table!TableNext]_Table!tableVars
  OBVIOUS
<1> USE DEF workerVars, historyVars, kernelVars, linkVars
<1>1. CASE \E t \in App : Create(t)
  BY <1>1, TableRegister DEF Create, HandleLeft
<1>2. CASE \E t \in App : CreateAnnounce(t)
  <2>1. PICK t \in App : CreateAnnounce(t)
    BY <1>2
  <2>2. on[t] \in m_maplink /\ ~Known(on[t])
    BY <2>1 DEF CreateAnnounce, HandleInv, Introduced
  <2> QED
    BY <2>1, <2>2, TableAnnounce DEF CreateAnnounce
<1>3. CASE SendAccepted
  <2>1. h_accept \in m_maplink /\ ~Known(h_accept)
    BY <1>3 DEF SendAccepted, HandleInv, Introduced, Accepting
  <2> QED
    BY <1>3, <2>1, TableAnnounce DEF SendAccepted
<1>4. CASE Accept /\ i_link' # i_link
  <2>1. i_link < MaxLinks /\ i_link' = i_link + 1 /\ m_maplink' = m_maplink \cup {i_link + 1}
        /\ seen' = seen
    BY <1>4 DEF Accept
  <2> QED
    BY <2>1, TableRegister
<1>5. CASE \/ AcceptAttach
           \/ Accept /\ i_link' = i_link
  <2>1. UNCHANGED <<i_link, m_maplink, seen>>
    <3>1. CASE AcceptAttach
      BY <3>1 DEF AcceptAttach
    <3>2. CASE Accept /\ i_link' = i_link
      <4>1. i_link \in Nat
        BY DEF TypeOK, LinksOK
      <4> QED
        BY <3>2, <4>1 DEF Accept
    <3> QED
      BY <1>5, <3>1, <3>2
  <2>2. \A l \in Links : PhaseOf(l)' = PhaseOf(l)
    BY <2>1 DEF PhaseOf, Known
  <2> QED
    BY <2>1, <2>2 DEF Table!tableVars
<1> QED
  BY <1>1, <1>2, <1>3, <1>4, <1>5, SmallStep, StepKinds, TableTame

(* The registry and its callbacks implement LinkTable: whatever the        *)
(* threads do, a handle is registered, announced and unregistered once and *)
(* in that order, and CLOSED is said of none that is still registered.     *)
THEOREM Refinement == Spec => ImplementsLinkTable
<1>1. Init => Table!TableInit
  BY TableInitially, TcpLinkAssumption, SocketsAssumption DEF Assumptions
<1>2. TypeOK /\ HandleInv /\ [Next]_vars => [Table!TableNext]_Table!tableVars
  BY TableStep, TcpLinkAssumption, SocketsAssumption DEF Assumptions
<1> QED
  BY <1>1, <1>2, HandleCorrect, PTL DEF Spec, ImplementsLinkTable, Table!TableSpec
====
