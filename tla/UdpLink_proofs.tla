--------------------------- MODULE UdpLink_proofs ---------------------------
(***************************************************************************)
(* Proofs about UdpLink, for every number of threads, links and datagrams, *)
(* and for blocking and non-blocking sockets.                              *)
(***************************************************************************)
EXTENDS UdpLink, TLAPS, SequenceTheorems

-----------------------------------------------------------------------------
(* Helpers. *)

(* A thread's place changes to one of its own places. *)
LEMMA GotoApp ==
    ASSUME TypeOK, NEW t \in App, NEW label \in AppPcs, Goto(t, label)
    PROVE  /\ pc' \in [Threads -> AppPcs \cup WorkerPcs]
           /\ pc'[Worker] \in WorkerPcs
           /\ \A u \in App : pc'[u] \in AppPcs
           /\ pc'[t] = label
           /\ \A u \in Threads \ {t} : pc'[u] = pc[u]
  BY UdpLinkAssumption DEF TypeOK, Goto, Threads

LEMMA GotoWorker ==
    ASSUME TypeOK, NEW label \in WorkerPcs, Goto(Worker, label)
    PROVE  /\ pc' \in [Threads -> AppPcs \cup WorkerPcs]
           /\ pc'[Worker] = label
           /\ \A u \in App : pc'[u] = pc[u] /\ pc'[u] \in AppPcs
  BY UdpLinkAssumption DEF TypeOK, Goto, Threads

(* The socket of one link changes to another socket. *)
LEMMA SockType ==
    ASSUME TypeOK, NEW l \in Links, NEW s \in Socket,
           sock' = [sock EXCEPT ![l] = s]
    PROVE  sock' \in [Links -> Socket]
  BY DEF TypeOK

LEMMA SocketFields ==
    ASSUME NEW s \in Socket
    PROVE  /\ s = [out |-> s.out, came |-> s.came, read |-> s.read,
                   attached |-> s.attached, ready |-> s.ready]
           /\ s.out \in 0 .. Room /\ s.came \in 0 .. MaxRx /\ s.read \in 0 .. MaxRx
           /\ s.attached \in BOOLEAN /\ s.ready \in BOOLEAN
  BY DEF Socket

LEMMA SocketChanges ==
    ASSUME NEW s \in Socket
    PROVE  /\ [s EXCEPT !.attached = FALSE, !.ready = FALSE] \in Socket
           /\ [s EXCEPT !.ready = FALSE] \in Socket
           /\ Edge(s) \in Socket
           /\ [s EXCEPT !.attached = TRUE] \in Socket
           /\ s.out < Room => [s EXCEPT !.out = @ + 1] \in Socket
           /\ s.out > 0 => [s EXCEPT !.out = @ - 1] \in Socket
           /\ s.came < MaxRx => [s EXCEPT !.came = @ + 1] \in Socket
           /\ Unread(s) > 0 => [s EXCEPT !.read = @ + 1] \in Socket
           /\ Poll(s) \in SUBSET {"IN", "OUT"}
  <1>1. [s EXCEPT !.attached = FALSE, !.ready = FALSE] \in Socket
    BY DEF Socket
  <1>2. [s EXCEPT !.ready = FALSE] \in Socket /\ [s EXCEPT !.attached = TRUE] \in Socket
    BY DEF Socket
  <1>3. Edge(s) \in Socket
    BY DEF Edge, Socket
  <1>4. s.out < Room => [s EXCEPT !.out = @ + 1] \in Socket
    BY UdpLinkAssumption DEF Socket
  <1>5. s.out > 0 => [s EXCEPT !.out = @ - 1] \in Socket
    BY UdpLinkAssumption DEF Socket
  <1>6. s.came < MaxRx => [s EXCEPT !.came = @ + 1] \in Socket
    BY UdpLinkAssumption DEF Socket
  <1>7. Unread(s) > 0 => [s EXCEPT !.read = @ + 1] \in Socket
    BY UdpLinkAssumption DEF Socket, Unread
  <1>8. Poll(s) \in SUBSET {"IN", "OUT"}
    BY DEF Poll
  <1> QED
    BY <1>1, <1>2, <1>3, <1>4, <1>5, <1>6, <1>7, <1>8

(* The socket of one link changes, and stays a socket. *)
LEMMA SockStep ==
    ASSUME TypeOK, NEW l \in Links
    PROVE  /\ sock[l] \in Socket
           /\ \A s \in Socket : [sock EXCEPT ![l] = s] \in [Links -> Socket]
  BY DEF TypeOK

LEMMA SockChange ==
    ASSUME TypeOK, NEW l \in Links
    PROVE  /\ sock[l].out < Room => [sock EXCEPT ![l].out = @ + 1] \in [Links -> Socket]
           /\ Unread(sock[l]) > 0 => [sock EXCEPT ![l].read = @ + 1] \in [Links -> Socket]
           /\ [sock EXCEPT ![l] = [@ EXCEPT !.attached = FALSE, !.ready = FALSE]]
                 \in [Links -> Socket]
           /\ sock[l].out > 0 =>
                 [sock EXCEPT ![l] = Edge([sock[l] EXCEPT !.out = @ - 1])] \in [Links -> Socket]
           /\ sock[l].came < MaxRx =>
                 [sock EXCEPT ![l] = Edge([sock[l] EXCEPT !.came = @ + 1])] \in [Links -> Socket]
  <1> DEFINE s == sock[l]
  <1>1. s \in Socket /\ \A r \in Socket : [sock EXCEPT ![l] = r] \in [Links -> Socket]
    BY SockStep
  <1>2. s.out < Room => [sock EXCEPT ![l].out = @ + 1] \in [Links -> Socket]
    <2>1. s.out < Room => [s EXCEPT !.out = @ + 1] \in Socket
      BY <1>1, SocketChanges
    <2> QED
      BY <1>1, <2>1
  <1>3. Unread(s) > 0 => [sock EXCEPT ![l].read = @ + 1] \in [Links -> Socket]
    <2>1. Unread(s) > 0 => [s EXCEPT !.read = @ + 1] \in Socket
      BY <1>1, SocketChanges
    <2> QED
      BY <1>1, <2>1
  <1>4. [sock EXCEPT ![l] = [@ EXCEPT !.attached = FALSE, !.ready = FALSE]] \in [Links -> Socket]
    <2>1. [s EXCEPT !.attached = FALSE, !.ready = FALSE] \in Socket
      BY <1>1, SocketChanges
    <2> QED
      BY <1>1, <2>1
  <1>5. s.out > 0 => [sock EXCEPT ![l] = Edge([sock[l] EXCEPT !.out = @ - 1])] \in [Links -> Socket]
    <2>1. s.out > 0 => [s EXCEPT !.out = @ - 1] \in Socket
      BY <1>1, SocketChanges
    <2>2. s.out > 0 => Edge([s EXCEPT !.out = @ - 1]) \in Socket
      BY <2>1, SocketChanges
    <2> QED
      BY <1>1, <2>2
  <1>6. s.came < MaxRx =>
          [sock EXCEPT ![l] = Edge([sock[l] EXCEPT !.came = @ + 1])] \in [Links -> Socket]
    <2>1. s.came < MaxRx => [s EXCEPT !.came = @ + 1] \in Socket
      BY <1>1, SocketChanges
    <2>2. s.came < MaxRx => Edge([s EXCEPT !.came = @ + 1]) \in Socket
      BY <2>1, SocketChanges
    <2> QED
      BY <1>1, <2>2
  <1> QED
    BY <1>2, <1>3, <1>4, <1>5, <1>6

-----------------------------------------------------------------------------
(* Every step stays in the types. *)

LEMMA TypeInit == Init => TypeOK
  <1> SUFFICES ASSUME Init PROVE TypeOK
    OBVIOUS
  <1>1. sock \in [Links -> Socket]
    BY UdpLinkAssumption DEF Init, Socket
  <1>2. <<>> \in Seq(Datagrams)
    OBVIOUS
  <1>3. pc \in [Threads -> AppPcs \cup WorkerPcs]
    BY DEF Init, AppPcs, WorkerPcs
  <1>4. pc[Worker] \in WorkerPcs /\ \A t \in App : pc[t] \in AppPcs
    BY UdpLinkAssumption DEF Init, AppPcs, WorkerPcs, Threads
  <1>5. /\ m_send_buff_list \in [Links -> Seq(Datagrams)]
        /\ queued \in [Links -> Seq(Datagrams)]
        /\ wire \in [Links -> Seq(Datagrams)]
    BY <1>2 DEF Init
  <1>6. on \in [Threads -> Links \cup {NoLink}] /\ data \in [App -> Datagrams \cup {0}]
    BY DEF Init
  <1>7. i_link \in 0 .. MaxLinks /\ i_send \in 0 .. MaxSend
    BY UdpLinkAssumption DEF Init
  <1> QED
    BY <1>1, <1>3, <1>4, <1>5, <1>6, <1>7 DEF Init, TypeOK

LEMMA CreateType ==
    ASSUME TypeOK, NEW t \in App, Create(t)
    PROVE  TypeOK'
  <1>1. i_link + 1 \in Links /\ i_link' = i_link + 1 /\ i_link' \in 0 .. MaxLinks
    BY UdpLinkAssumption DEF Create, TypeOK, Links
  <1>2. /\ m_maplink' \subseteq 1 .. i_link' /\ mi_socket' \subseteq 1 .. i_link'
        /\ todo' \subseteq 1 .. i_link'
    BY <1>1, UdpLinkAssumption DEF Create, TypeOK, workVars
  <1>3. on' \in [Threads -> Links \cup {NoLink}]
    BY <1>1 DEF Create, TypeOK
  <1>4. "attach" \in AppPcs /\ Goto(t, "attach")
    BY DEF Create, AppPcs
  <1> QED
    BY <1>1, <1>2, <1>3, <1>4, GotoApp DEF Create, TypeOK, workVars, historyVars, closedVars

LEMMA AttachType ==
    ASSUME TypeOK, CallsHaveTheirLink, NEW t \in App, Attach(t)
    PROVE  TypeOK'
  <1>1. on[t] \in Links /\ "created" \in AppPcs /\ Goto(t, "created")
    BY DEF Attach, CallsHaveTheirLink, AppPcs
  <1>2. sock' \in [Links -> Socket]
    <2>1. [sock[on[t]] EXCEPT !.attached = TRUE] \in Socket
      BY <1>1, SockStep, SocketChanges
    <2>2. Edge([sock[on[t]] EXCEPT !.attached = TRUE]) \in Socket
      BY <2>1, SocketChanges
    <2> QED
      BY <1>1, <2>2, SockStep DEF Attach, TypeOK
  <1> QED
    BY <1>1, <1>2, GotoApp DEF Attach, TypeOK, linkVars, workVars, historyVars, closedVars

LEMMA FindType ==
    ASSUME TypeOK, NEW t \in App, CallSendTo(t) \/ CallDestroy(t)
    PROVE  TypeOK'
  <1>1. m_maplink \subseteq Links
    BY UdpLinkAssumption DEF TypeOK, Links
  <1>2. on' \in [Threads -> Links \cup {NoLink}]
    BY <1>1 DEF CallSendTo, CallDestroy, Find, TypeOK
  <1>3. \E label \in AppPcs : Goto(t, label)
    BY DEF CallSendTo, CallDestroy, Find, AppPcs
  <1>4. data' \in [App -> Datagrams \cup {0}] /\ i_send' \in 0 .. MaxSend
    <2>1. CASE CallSendTo(t)
      <3>1. i_send + 1 \in Datagrams /\ i_send + 1 \in 0 .. MaxSend
        BY <2>1, UdpLinkAssumption DEF CallSendTo, TypeOK, Datagrams
      <3> QED
        BY <2>1, <3>1 DEF CallSendTo, TypeOK
    <2>2. CASE CallDestroy(t)
      BY <2>2 DEF CallDestroy, TypeOK
    <2> QED
      BY <2>1, <2>2
  <1>5. UNCHANGED <<linkVars, sock, m_send_buff_list, mb_send_flag, workVars, queued, wire,
                closedVars>>
    BY DEF CallSendTo, CallDestroy, Find
  <1> QED
    BY <1>2, <1>3, <1>4, <1>5, GotoApp DEF TypeOK, linkVars, workVars, closedVars

LEMMA SendToType ==
    ASSUME TypeOK, CallsHaveTheirLink, NEW t \in App, SendTo(t)
    PROVE  TypeOK'
  <1>1. on[t] \in Links /\ data[t] \in Datagrams
    BY DEF SendTo, CallsHaveTheirLink
  <1>2. \E label \in AppPcs : Goto(t, label)
    BY DEF SendTo, AppPcs
  <1>3. sock' \in [Links -> Socket]
    <2>1. \/ sock' = sock
          \/ sock[on[t]].out < Room /\ sock' = [sock EXCEPT ![on[t]].out = @ + 1]
      BY DEF SendTo
    <2>2. sock[on[t]].out < Room => [sock EXCEPT ![on[t]].out = @ + 1] \in [Links -> Socket]
      BY <1>1, SockChange
    <2> QED
      BY <2>1, <2>2 DEF TypeOK
  <1>4. wire' \in [Links -> Seq(Datagrams)]
    <2>1. Append(wire[on[t]], data[t]) \in Seq(Datagrams)
      BY <1>1 DEF TypeOK
    <2> QED
      BY <2>1 DEF SendTo, TypeOK
  <1> QED
    BY <1>2, <1>3, <1>4, GotoApp DEF SendTo, TypeOK, linkVars, workVars, closedVars

LEMMA PushType ==
    ASSUME TypeOK, CallsHaveTheirLink, NEW t \in App, Push(t)
    PROVE  TypeOK'
  <1>1. on[t] \in Links /\ data[t] \in Datagrams /\ "flag" \in AppPcs /\ Goto(t, "flag")
    BY DEF Push, CallsHaveTheirLink, AppPcs
  <1>2. /\ Append(m_send_buff_list[on[t]], data[t]) \in Seq(Datagrams)
        /\ Append(queued[on[t]], data[t]) \in Seq(Datagrams)
    BY <1>1 DEF TypeOK
  <1>3. /\ m_send_buff_list' \in [Links -> Seq(Datagrams)]
        /\ queued' \in [Links -> Seq(Datagrams)]
    BY <1>2 DEF Push, TypeOK
  <1> QED
    BY <1>1, <1>3, GotoApp DEF Push, TypeOK, linkVars, workVars, closedVars

LEMMA DestroyType ==
    ASSUME TypeOK, CallsHaveTheirLink, NEW t \in App,
           \/ SendCreated(t) \/ SetFlag(t) \/ DelSendBuff(t) \/ DelLink(t)
           \/ CheckSocket(t) \/ Shutdown(t) \/ SendClosed(t)
    PROVE  TypeOK'
  <1>1. on[t] \in Links
    BY DEF SendCreated, SetFlag, DelSendBuff, DelLink, CheckSocket, Shutdown, SendClosed,
       CallsHaveTheirLink
  <1>2. CASE SendCreated(t) \/ SetFlag(t)
    <2>1. "idle" \in AppPcs /\ Goto(t, "idle")
      BY <1>2 DEF SendCreated, SetFlag, AppPcs
    <2> QED
      BY <1>2, <2>1, GotoApp DEF SendCreated, SetFlag, TypeOK, linkVars, workVars, historyVars, closedVars
  <1>3. CASE DelSendBuff(t)
    <2>1. "del_link" \in AppPcs /\ Goto(t, "del_link")
      BY <1>3 DEF DelSendBuff, AppPcs
    <2>2. m_send_buff_list' \in [Links -> Seq(Datagrams)]
      <3>1. <<>> \in Seq(Datagrams)
        OBVIOUS
      <3> QED
        BY <1>3, <3>1 DEF DelSendBuff, TypeOK
    <2> QED
      BY <1>3, <2>1, <2>2, GotoApp DEF DelSendBuff, TypeOK, linkVars, workVars, historyVars, closedVars
  <1>4. CASE DelLink(t)
    <2>1. "check_socket" \in AppPcs /\ Goto(t, "check_socket")
      BY <1>4 DEF DelLink, AppPcs
    <2>2. sock' \in [Links -> Socket]
      BY <1>1, <1>4, SockChange DEF DelLink, TypeOK
    <2> QED
      BY <1>4, <2>1, <2>2, GotoApp DEF DelLink, TypeOK, workVars, historyVars, closedVars
  <1>5. CASE CheckSocket(t)
    <2>1. \E label \in AppPcs : Goto(t, label)
      BY <1>5 DEF CheckSocket, AppPcs
    <2> QED
      BY <1>5, <2>1, GotoApp DEF CheckSocket, TypeOK, linkVars, workVars, historyVars, closedVars
  <1>6. CASE Shutdown(t)
    <2>1. "closed" \in AppPcs /\ Goto(t, "closed")
      BY <1>6 DEF Shutdown, AppPcs
    <2> QED
      BY <1>6, <2>1, GotoApp DEF Shutdown, TypeOK, workVars, historyVars, closedVars
  <1>7. CASE SendClosed(t)
    <2>1. "idle" \in AppPcs /\ Goto(t, "idle")
      BY <1>7 DEF SendClosed, AppPcs
    <2> QED
      BY <1>1, <1>7, <2>1, GotoApp DEF SendClosed, TypeOK, linkVars, workVars
  <1> QED
    BY <1>2, <1>3, <1>4, <1>5, <1>6, <1>7

LEMMA BatchType ==
    ASSUME TypeOK, CallsHaveTheirLink,
           \/ EpollWait \/ Interrupted \/ Dispatch \/ Recv \/ RecvFrom \/ SendRecvData
           \/ EndBatch
    PROVE  TypeOK'
  <1>1. \/ Goto(Worker, "events") \/ Goto(Worker, "flush") \/ Goto(Worker, "recv")
        \/ Goto(Worker, "recvfrom") \/ Goto(Worker, "received")
        \/ UNCHANGED pc
    BY DEF EpollWait, Interrupted, Dispatch, Recv, RecvFrom, SendRecvData, EndBatch
  <1>2. /\ pc' \in [Threads -> AppPcs \cup WorkerPcs]
        /\ pc'[Worker] \in WorkerPcs /\ \A t \in App : pc'[t] \in AppPcs
    <2>1. {"events", "flush", "recv", "recvfrom", "received"} \subseteq WorkerPcs
      BY DEF WorkerPcs
    <2> QED
      BY <1>1, <2>1, GotoWorker DEF TypeOK
  <1>3. CASE EpollWait
    <2>1. sock' \in [Links -> Socket]
      BY <1>3, SockStep, SocketChanges DEF EpollWait
    <2>2. \A k \in Links : Poll(sock[k]) \in SUBSET {"IN", "OUT"}
      BY SockStep, SocketChanges
    <2>3. batch' = {[h |-> k, ev |-> Poll(sock[k])] : k \in {j \in Links : sock[j].ready}}
      BY <1>3 DEF EpollWait
    <2>4. batch' \subseteq [h : Links, ev : SUBSET {"IN", "OUT"}]
      BY <2>2, <2>3
    <2> QED
      BY <1>2, <1>3, <2>1, <2>4 DEF EpollWait, TypeOK, linkVars, historyVars, closedVars
  <1>4. CASE Interrupted
    BY <1>2, <1>4 DEF Interrupted, TypeOK, linkVars, workVars, historyVars, closedVars
  <1>5. CASE Dispatch
    <2>1. on' \in [Threads -> Links \cup {NoLink}]
      BY <1>5 DEF Dispatch, TypeOK
    <2>2. batch' \subseteq [h : Links, ev : SUBSET {"IN", "OUT"}]
      BY <1>5 DEF Dispatch, TypeOK
    <2> QED
      BY <1>2, <1>5, <2>1, <2>2 DEF Dispatch, TypeOK, linkVars, historyVars, closedVars
  <1>6. CASE RecvFrom
    <2>1. on[Worker] \in Links
      BY <1>6 DEF RecvFrom, CallsHaveTheirLink
    <2>2. sock' \in [Links -> Socket]
      <3> DEFINE l == on[Worker]
      <3>1. \/ sock' = sock
            \/ Unread(sock[l]) > 0 /\ sock' = [sock EXCEPT ![l].read = @ + 1]
        BY <1>6 DEF RecvFrom
      <3>2. Unread(sock[l]) > 0 => [sock EXCEPT ![l].read = @ + 1] \in [Links -> Socket]
        BY <2>1, SockChange
      <3> QED
        BY <3>1, <3>2 DEF TypeOK
    <2> QED
      BY <1>2, <1>6, <2>2 DEF RecvFrom, TypeOK, linkVars, workVars, historyVars, closedVars
  <1>7. CASE Recv \/ EndBatch
    BY <1>2, <1>7 DEF Recv, EndBatch, TypeOK, linkVars, workVars, historyVars, closedVars
  <1>8. CASE SendRecvData
    <2>1. late' \in [Links -> Nat]
      BY <1>8 DEF SendRecvData, TypeOK
    <2> QED
      BY <1>2, <1>8, <2>1 DEF SendRecvData, TypeOK, linkVars, workVars
  <1> QED
    BY <1>3, <1>4, <1>5, <1>6, <1>7, <1>8

LEMMA FlushType ==
    ASSUME TypeOK, CallsHaveTheirLink,
           CheckFlag \/ ResetFlag \/ Lock \/ WalkLink \/ WalkSend \/ WalkDone
    PROVE  TypeOK'
  <1>1. \/ \E label \in WorkerPcs : Goto(Worker, label)
        \/ UNCHANGED pc
    BY DEF CheckFlag, ResetFlag, Lock, WalkLink, WalkSend, WalkDone, WorkerPcs
  <1>2. /\ pc' \in [Threads -> AppPcs \cup WorkerPcs]
        /\ pc'[Worker] \in WorkerPcs /\ \A t \in App : pc'[t] \in AppPcs
    BY <1>1, GotoWorker DEF TypeOK
  <1>3. CASE CheckFlag
    BY <1>2, <1>3 DEF CheckFlag, TypeOK, linkVars, workVars, historyVars, closedVars
  <1>4. CASE ResetFlag
    BY <1>2, <1>4 DEF ResetFlag, TypeOK, linkVars, workVars, historyVars, closedVars
  <1>5. CASE Lock
    <2>1. todo' \subseteq 1 .. i_link'
      BY <1>5 DEF Lock, TypeOK, linkVars
    <2> QED
      BY <1>2, <1>5, <2>1 DEF Lock, TypeOK, linkVars, historyVars, closedVars
  <1>6. CASE WalkLink
    <2>1. on' \in [Threads -> Links \cup {NoLink}]
      <3>1. PICK l \in todo : on' = [on EXCEPT ![Worker] = l]
        BY <1>6 DEF WalkLink
      <3>2. l \in Links
        BY UdpLinkAssumption DEF TypeOK, Links
      <3> QED
        BY <3>1, <3>2 DEF TypeOK
    <2> QED
      BY <1>2, <1>6, <2>1 DEF WalkLink, TypeOK, linkVars, workVars, historyVars, closedVars
  <1>7. CASE WalkSend
    <2> DEFINE l == on[Worker]
               list == m_send_buff_list[l]
    <2>1. l \in Links /\ list \in Seq(Datagrams)
      BY <1>7 DEF WalkSend, CallsHaveTheirLink, TypeOK
    <2>2. CASE Erased(l) \/ Taken(l)
      <3>1. Head(list) \in Datagrams /\ Tail(list) \in Seq(Datagrams)
        BY <2>1, <2>2 DEF Erased, Taken
      <3>2. Append(wire[l], Head(list)) \in Seq(Datagrams)
        BY <2>1, <3>1 DEF TypeOK
      <3>3. sock' \in [Links -> Socket]
        <4>1. \/ sock' = sock
              \/ sock[l].out < Room /\ sock' = [sock EXCEPT ![l].out = @ + 1]
          BY <1>7, <2>2 DEF WalkSend, Taken
        <4>2. sock[l].out < Room => [sock EXCEPT ![l].out = @ + 1] \in [Links -> Socket]
          BY <2>1, SockChange
        <4> QED
          BY <4>1, <4>2 DEF TypeOK
      <3>4. /\ wire' \in [Links -> Seq(Datagrams)]
            /\ m_send_buff_list' \in [Links -> Seq(Datagrams)]
        <4>1. wire' = wire \/ wire' = [wire EXCEPT ![l] = Append(@, Head(list))]
          BY <1>7, <2>2 DEF WalkSend
        <4>2. m_send_buff_list' = [m_send_buff_list EXCEPT ![l] = Tail(list)]
          BY <1>7, <2>2 DEF WalkSend
        <4> QED
          BY <3>1, <3>2, <4>1, <4>2 DEF TypeOK
      <3>5. UNCHANGED <<linkVars, on, data, batch, todo, mb_send_flag, i_send, queued, closedVars>>
        BY <1>7, <2>2 DEF WalkSend
      <3> QED
        BY <1>2, <3>3, <3>4, <3>5 DEF TypeOK, linkVars, closedVars
    <2>3. CASE ~(Erased(l) \/ Taken(l))
      <3>1. /\ UNCHANGED <<linkVars, sock, m_send_buff_list, on, data, batch, i_send, queued,
                            wire, closedVars>>
            /\ todo' \subseteq todo
        BY <1>7, <2>3 DEF WalkSend
      <3>2. mb_send_flag' \in BOOLEAN
        BY <1>7, <2>3 DEF WalkSend, TypeOK
      <3> QED
        BY <1>2, <3>1, <3>2 DEF TypeOK, linkVars, closedVars
    <2> QED
      BY <2>2, <2>3
  <1>8. CASE WalkDone
    BY <1>2, <1>8 DEF WalkDone, TypeOK, linkVars, workVars, historyVars, closedVars
  <1> QED
    BY <1>3, <1>4, <1>5, <1>6, <1>7, <1>8

LEMMA NetworkType ==
    ASSUME TypeOK, NEW l \in Links, Drains(l) \/ Arrives(l)
    PROVE  TypeOK'
  <1>1. sock' \in [Links -> Socket]
    <2>1. CASE Drains(l)
      BY <2>1, SockChange DEF Drains, TypeOK
    <2>2. CASE Arrives(l)
      BY <2>2, SockChange DEF Arrives, TypeOK
    <2> QED
      BY <2>1, <2>2
  <1> QED
    BY <1>1 DEF Drains, Arrives, TypeOK, linkVars, callVars, workVars, historyVars, closedVars

LEMMA TypeStep ==
    ASSUME TypeOK, CallsHaveTheirLink, [Next]_vars
    PROVE  TypeOK'
  <1>1. CASE UNCHANGED vars
    BY <1>1 DEF TypeOK, vars
  <1>2. ASSUME NEW t \in App, AppStep(t) PROVE TypeOK'
    BY <1>2, CreateType, AttachType, FindType, SendToType, PushType, DestroyType
    DEF AppStep, InCall
  <1>3. CASE WorkerStep
    BY <1>3, BatchType, FlushType DEF WorkerStep
  <1>4. CASE Interrupted
    BY <1>4, BatchType
  <1>5. CASE Network
    BY <1>5, NetworkType DEF Network
  <1> QED
    BY <1>1, <1>2, <1>3, <1>4, <1>5 DEF Next

-----------------------------------------------------------------------------
(* Where the worker has a link. *)
OnLink == {"recv", "recvfrom", "received", "send"}

(* BufferInv: that calls have their links, and that what waits is covered  *)
(* by the flag.                                                            *)

LEMMA InvInit == Init => BufferInv
  BY UdpLinkAssumption DEF Init, BufferInv, CallsHaveTheirLink, UnusedIsEmpty, ClosedHasNoSocket,
     FlagCoversBuffer, NoLink, Threads

LEMMA CallsStep ==
    ASSUME TypeOK, CallsHaveTheirLink, [Next]_vars
    PROVE  CallsHaveTheirLink'
  <1>0. /\ i_link \in Nat /\ m_maplink \subseteq Links /\ \A l \in m_maplink : l <= i_link
        /\ on \in [Threads -> Links \cup {NoLink}] /\ App \subseteq Threads /\ Worker \in Threads
        /\ \A t \in App : t # Worker
        /\ pc \in [Threads -> AppPcs \cup WorkerPcs] /\ data \in [App -> Datagrams \cup {0}]
        /\ \A t \in Threads : on[t] \in Nat
    BY UdpLinkAssumption DEF TypeOK, Threads, Links, NoLink
  <1>1. CASE UNCHANGED vars
    BY <1>1 DEF CallsHaveTheirLink, vars
  <1>2. ASSUME NEW t \in App, Create(t) PROVE CallsHaveTheirLink'
    <2>1. i_link + 1 \in Links
      BY <1>2, UdpLinkAssumption DEF Create, TypeOK, Links
    <2>2. /\ i_link' = i_link + 1 /\ data' = data
          /\ on' = [on EXCEPT ![t] = i_link + 1] /\ pc' = [pc EXCEPT ![t] = "attach"]
      BY <1>2 DEF Create, Goto
    <2>3. \A u \in Threads : on'[u] <= i_link'
      BY <1>0, <2>1, <2>2 DEF CallsHaveTheirLink
    <2>4. \A u \in App : /\ pc'[u] # "idle" => on'[u] \in Links
                         /\ pc'[u] \in {"sendto", "push"} => data'[u] \in Datagrams
      BY <1>0, <2>1, <2>2 DEF CallsHaveTheirLink
    <2>5. pc'[Worker] \in OnLink => on'[Worker] \in Links
      BY <1>0, <1>2, <2>2 DEF CallsHaveTheirLink, OnLink
    <2> QED
      BY <2>3, <2>4, <2>5 DEF CallsHaveTheirLink, OnLink
  <1>3. ASSUME NEW t \in App, CallSendTo(t) PROVE CallsHaveTheirLink'
    <2>1. i_send + 1 \in Datagrams
      BY <1>3, UdpLinkAssumption DEF CallSendTo, TypeOK, Datagrams
    <2>2. PICK h \in m_maplink : on' = [on EXCEPT ![t] = h]
      BY <1>3 DEF CallSendTo, Find
    <2>3. /\ pc' = [pc EXCEPT ![t] = "sendto"] /\ data' = [data EXCEPT ![t] = i_send + 1]
          /\ i_link' = i_link
      BY <1>3 DEF CallSendTo, Find, Goto, linkVars
    <2> QED
      BY <1>0, <2>1, <2>2, <2>3 DEF CallsHaveTheirLink
  <1>4. ASSUME NEW t \in App, CallDestroy(t) PROVE CallsHaveTheirLink'
    <2>1. PICK h \in m_maplink : on' = [on EXCEPT ![t] = h]
      BY <1>4 DEF CallDestroy, Find
    <2>2. /\ pc' = [pc EXCEPT ![t] = "drop"] /\ data' = data
          /\ i_link' = i_link
      BY <1>4 DEF CallDestroy, Find, Goto, linkVars
    <2> QED
      BY <1>0, <2>1, <2>2 DEF CallsHaveTheirLink
  <1>5. ASSUME NEW t \in App, InCall(t) PROVE CallsHaveTheirLink'
    <2>1. /\ i_link' = i_link /\ on' = on /\ data' = data
          /\ pc[t] # "idle"
          /\ \E label \in AppPcs : pc' = [pc EXCEPT ![t] = label]
          /\ pc'[t] \in {"sendto", "push"} => pc[t] \in {"sendto", "push"}
      BY <1>0, <1>5 DEF InCall, Attach, SendCreated, SendTo, Push, SetFlag, DelSendBuff, DelLink, CheckSocket,
         Shutdown, SendClosed, Goto, linkVars, AppPcs
    <2> QED
      BY <1>0, <2>1 DEF CallsHaveTheirLink
  <1>6. CASE WorkerStep \/ Interrupted
    <2>1. i_link' = i_link /\ data' = data /\ \A t \in App : pc'[t] = pc[t] /\ on'[t] = on[t]
      BY <1>0, <1>6 DEF WorkerStep, EpollWait, Interrupted, Dispatch, Recv, RecvFrom, SendRecvData, EndBatch, CheckFlag,
         ResetFlag, Lock, WalkLink, WalkSend, WalkDone, Goto, linkVars
    <2>2. CASE Dispatch \/ WalkLink
      <3>1. \/ on'[Worker] = on[Worker] /\ pc'[Worker] \notin OnLink
            \/ on'[Worker] \in Links /\ on'[Worker] <= i_link
        <4>1. CASE Dispatch
          BY <1>0, <4>1 DEF Dispatch, Goto, OnLink
        <4>2. CASE WalkLink
          <5>1. PICK l \in todo : on' = [on EXCEPT ![Worker] = l]
            BY <4>2 DEF WalkLink
          <5> QED
            BY <1>0, <4>2, <5>1, UdpLinkAssumption DEF TypeOK, Links
        <4> QED
          BY <2>2, <4>1, <4>2
      <3> QED
        BY <1>0, <2>1, <3>1 DEF CallsHaveTheirLink, Threads, OnLink
    <2>3. CASE ~(Dispatch \/ WalkLink)
      <3>1. on' = on /\ (pc'[Worker] \in OnLink => pc[Worker] \in OnLink)
        BY <1>0, <1>6, <2>3 DEF WorkerStep, EpollWait, Interrupted, Recv, RecvFrom, SendRecvData,
           EndBatch, CheckFlag, ResetFlag, Lock, WalkSend, WalkDone, Goto, OnLink
      <3> QED
        BY <1>0, <2>1, <3>1 DEF CallsHaveTheirLink, Threads, OnLink
    <2> QED
      BY <2>2, <2>3
  <1>7. CASE Network
    BY <1>7 DEF Network, Drains, Arrives, CallsHaveTheirLink, callVars, linkVars
  <1> QED
    BY <1>1, <1>2, <1>3, <1>4, <1>5, <1>6, <1>7 DEF Next, AppStep

LEMMA UnusedStep ==
    ASSUME TypeOK, CallsHaveTheirLink, UnusedIsEmpty, [Next]_vars
    PROVE  UnusedIsEmpty'
  <1>0. /\ i_link \in Nat /\ \A t \in Threads : on[t] <= i_link
        /\ m_send_buff_list \in [Links -> Seq(Datagrams)] /\ Links \subseteq Nat
        /\ App \subseteq Threads /\ Worker \in Threads
    BY UdpLinkAssumption DEF TypeOK, Threads, CallsHaveTheirLink, Links
  <1>1. ASSUME NEW t \in App, Create(t) PROVE UnusedIsEmpty'
    <2>1. i_link' = i_link + 1 /\ m_send_buff_list' = m_send_buff_list
      BY <1>1 DEF Create
    <2>2. \A l \in Links : l > i_link + 1 => l > i_link
      BY <1>0
    <2> QED
      BY <2>1, <2>2 DEF UnusedIsEmpty
  <1>2. ASSUME UNCHANGED <<i_link, m_send_buff_list>> PROVE UnusedIsEmpty'
    BY <1>2 DEF UnusedIsEmpty
  <1>3. ASSUME NEW t \in Threads, i_link' = i_link,
               NEW list, m_send_buff_list' = [m_send_buff_list EXCEPT ![on[t]] = list]
        PROVE  UnusedIsEmpty'
    BY <1>0, <1>3 DEF UnusedIsEmpty
  <1>4. ASSUME NEW t \in App, Push(t) \/ DelSendBuff(t) PROVE UnusedIsEmpty'
    BY <1>0, <1>3, <1>4 DEF Push, DelSendBuff, linkVars
  <1>5. ASSUME NEW t \in App,
               \/ CallSendTo(t) \/ CallDestroy(t) \/ Attach(t) \/ SendCreated(t) \/ SendTo(t) \/ SetFlag(t)
               \/ DelLink(t) \/ CheckSocket(t) \/ Shutdown(t) \/ SendClosed(t)
        PROVE  UnusedIsEmpty'
    BY <1>2, <1>5 DEF CallSendTo, CallDestroy, Find, Attach, SendCreated, SendTo, SetFlag, DelLink,
       CheckSocket, Shutdown, SendClosed, linkVars
  <1>6. CASE WalkSend
    <2>1. i_link' = i_link
      BY <1>6 DEF WalkSend, linkVars
    <2>2. \/ m_send_buff_list' = m_send_buff_list
          \/ \E list : m_send_buff_list' = [m_send_buff_list EXCEPT ![on[Worker]] = list]
      BY <1>6 DEF WalkSend
    <2> QED
      BY <1>0, <1>2, <1>3, <2>1, <2>2
  <1>7. CASE (WorkerStep /\ ~WalkSend) \/ Interrupted \/ Network
    BY <1>2, <1>7 DEF WorkerStep, EpollWait, Interrupted, Dispatch, Recv, RecvFrom, SendRecvData, EndBatch, CheckFlag,
       ResetFlag, Lock, WalkLink, WalkDone, Network, Drains, Arrives, linkVars
  <1>8. CASE UNCHANGED vars
    BY <1>2, <1>8 DEF vars
  <1> QED
    BY <1>1, <1>4, <1>5, <1>6, <1>7, <1>8 DEF Next, AppStep, InCall

LEMMA ClosedStep ==
    ASSUME TypeOK, CallsHaveTheirLink, ClosedHasNoSocket, [Next]_vars
    PROVE  ClosedHasNoSocket'
  <1>0. /\ i_link \in Nat /\ \A t \in Threads : on[t] <= i_link
        /\ \A t \in App : pc[t] # "idle" => on[t] \in 1 .. i_link
        /\ mi_socket \subseteq 1 .. i_link
        /\ on \in [Threads -> Links \cup {NoLink}]
        /\ pc \in [Threads -> AppPcs \cup WorkerPcs]
        /\ App \subseteq Threads /\ \A t \in App : t # Worker
    BY UdpLinkAssumption DEF TypeOK, Threads, CallsHaveTheirLink, Links
  <1>1. ASSUME NEW t \in App, Create(t) PROVE ClosedHasNoSocket'
    <2>1. /\ i_link' = i_link + 1 /\ closed' = closed
          /\ mi_socket' = mi_socket \cup {i_link + 1}
          /\ on' = [on EXCEPT ![t] = i_link + 1] /\ pc' = [pc EXCEPT ![t] = "attach"]
      BY <1>1 DEF Create, Goto, historyVars, closedVars
    <2>2. closed' \subseteq 1 .. i_link' /\ closed' \cap mi_socket' = {}
      BY <1>0, <2>1 DEF ClosedHasNoSocket
    <2>3. ASSUME NEW u \in App, pc'[u] = "closed" PROVE on'[u] \notin mi_socket'
      <3>1. u # t /\ pc[u] = "closed" /\ on'[u] = on[u] /\ on[u] \in 1 .. i_link
        BY <1>0, <2>1, <2>3
      <3> QED
        BY <1>0, <2>1, <3>1 DEF ClosedHasNoSocket
    <2> QED
      BY <2>2, <2>3 DEF ClosedHasNoSocket
  <1>2. ASSUME i_link' = i_link, closed' = closed, mi_socket' = mi_socket,
               \A t \in App : pc'[t] = "closed" => pc[t] = "closed" /\ on'[t] = on[t]
        PROVE  ClosedHasNoSocket'
    BY <1>2 DEF ClosedHasNoSocket
  <1>3. ASSUME NEW t \in App,
               \/ CallSendTo(t) \/ CallDestroy(t) \/ Attach(t) \/ SendCreated(t) \/ SendTo(t) \/ Push(t) \/ SetFlag(t)
               \/ DelSendBuff(t) \/ DelLink(t) \/ CheckSocket(t)
        PROVE  ClosedHasNoSocket'
    <2>1. i_link' = i_link /\ closed' = closed /\ mi_socket' = mi_socket
      BY <1>3 DEF CallSendTo, CallDestroy, Find, Attach, SendCreated, SendTo, Push, SetFlag, DelSendBuff,
         DelLink, CheckSocket, linkVars, historyVars, closedVars
    <2>2. /\ \E label \in AppPcs \ {"closed"} : pc' = [pc EXCEPT ![t] = label]
          /\ \A u \in App \ {t} : on'[u] = on[u]
      BY <1>0, <1>3 DEF CallSendTo, CallDestroy, Find, Attach, SendCreated, SendTo, Push, SetFlag, DelSendBuff,
         DelLink, CheckSocket, Goto, AppPcs
    <2> QED
      BY <1>0, <1>2, <2>1, <2>2
  <1>4. ASSUME NEW t \in App, Shutdown(t) PROVE ClosedHasNoSocket'
    BY <1>0, <1>4 DEF Shutdown, Goto, ClosedHasNoSocket, historyVars, closedVars
  <1>5. ASSUME NEW t \in App, SendClosed(t) PROVE ClosedHasNoSocket'
    BY <1>0, <1>5 DEF SendClosed, Goto, ClosedHasNoSocket, linkVars
  <1>6. CASE WorkerStep \/ Interrupted
    <2>1. /\ i_link' = i_link /\ closed' = closed /\ mi_socket' = mi_socket
          /\ \A t \in App : pc'[t] = pc[t] /\ on'[t] = on[t]
      BY <1>0, <1>6 DEF WorkerStep, EpollWait, Interrupted, Dispatch, Recv, RecvFrom, SendRecvData, EndBatch, CheckFlag,
         ResetFlag, Lock, WalkLink, WalkSend, WalkDone, Goto, linkVars, historyVars, closedVars
    <2> QED
      BY <1>2, <2>1
  <1>7. CASE Network \/ UNCHANGED vars
    BY <1>2, <1>7 DEF Network, Drains, Arrives, linkVars, callVars, historyVars, closedVars, vars
  <1> QED
    BY <1>1, <1>3, <1>4, <1>5, <1>6, <1>7 DEF Next, AppStep, InCall

LEMMA FlagStep ==
    ASSUME TypeOK, CallsHaveTheirLink, UnusedIsEmpty, FlagCoversBuffer, [Next]_vars
    PROVE  FlagCoversBuffer'
  <1>0. /\ i_link \in Nat /\ m_maplink \subseteq Links /\ \A l \in m_maplink : l <= i_link
        /\ \A t \in Threads : on[t] <= i_link
        /\ on \in [Threads -> Links \cup {NoLink}]
        /\ pc \in [Threads -> AppPcs \cup WorkerPcs]
        /\ m_send_buff_list \in [Links -> Seq(Datagrams)]
        /\ App \subseteq Threads /\ Worker \in Threads /\ \A t \in App : t # Worker
    BY UdpLinkAssumption DEF TypeOK, Threads, CallsHaveTheirLink, Links
  <1>1. ASSUME NEW t \in App, Create(t) PROVE FlagCoversBuffer'
    <2>1. i_link + 1 \in Links
      BY <1>1, UdpLinkAssumption DEF Create, TypeOK, Links
    <2>2. m_send_buff_list[i_link + 1] = <<>>
      BY <1>0, <2>1 DEF UnusedIsEmpty
    <2>3. /\ m_send_buff_list' = m_send_buff_list /\ mb_send_flag' = mb_send_flag /\ todo' = todo
          /\ m_maplink' = m_maplink \cup {i_link + 1}
          /\ pc' = [pc EXCEPT ![t] = "attach"] /\ pc[t] = "idle"
          /\ on' = [on EXCEPT ![t] = i_link + 1]
      BY <1>1 DEF Create, Goto, workVars
    <2> QED
      BY <1>0, <2>2, <2>3 DEF FlagCoversBuffer, LinkLocked
  (* Steps of a caller that add nothing to a buffer and do not end a push. *)
  <1>2. ASSUME NEW t \in App,
               \/ CallSendTo(t) \/ CallDestroy(t) \/ Attach(t) \/ SendCreated(t) \/ SendTo(t)
               \/ DelSendBuff(t) \/ DelLink(t) \/ CheckSocket(t) \/ Shutdown(t) \/ SendClosed(t)
        PROVE  FlagCoversBuffer'
    <2>1. /\ mb_send_flag' = mb_send_flag /\ todo' = todo /\ m_maplink' \subseteq m_maplink
          /\ pc[t] # "flag" /\ pc'[Worker] = pc[Worker]
          /\ \A u \in App \ {t} : pc'[u] = pc[u] /\ on'[u] = on[u]
      BY <1>0, <1>2 DEF CallSendTo, CallDestroy, Find, Attach, SendCreated, SendTo, DelSendBuff, DelLink,
         CheckSocket, Shutdown, SendClosed, Goto, linkVars, workVars
    <2>2. \A l \in Links : m_send_buff_list'[l] # <<>> => m_send_buff_list[l] # <<>>
      BY <1>0, <1>2 DEF CallSendTo, CallDestroy, Find, Attach, SendCreated, SendTo, DelSendBuff, DelLink,
         CheckSocket, Shutdown, SendClosed
    <2> QED
      BY <1>0, <2>1, <2>2 DEF FlagCoversBuffer, LinkLocked
  <1>3. ASSUME NEW t \in App, Push(t) PROVE FlagCoversBuffer'
    <2>1. /\ mb_send_flag' = mb_send_flag /\ todo' = todo /\ m_maplink' = m_maplink /\ on' = on
          /\ pc' = [pc EXCEPT ![t] = "flag"]
          /\ \A l \in Links \ {on[t]} : m_send_buff_list'[l] = m_send_buff_list[l]
      BY <1>0, <1>3 DEF Push, Goto, linkVars, workVars
    <2> QED
      BY <1>0, <2>1 DEF FlagCoversBuffer, LinkLocked
  <1>4. ASSUME NEW t \in App, SetFlag(t) PROVE FlagCoversBuffer'
    BY <1>4 DEF SetFlag, FlagCoversBuffer
  <1>5. CASE \/ EpollWait \/ Interrupted \/ Dispatch \/ Recv \/ RecvFrom \/ SendRecvData
            \/ EndBatch \/ CheckFlag
    <2>1. /\ mb_send_flag' = mb_send_flag /\ m_maplink' = m_maplink
          /\ m_send_buff_list' = m_send_buff_list
          /\ \A t \in App : pc'[t] = pc[t] /\ on'[t] = on[t]
          /\ pc[Worker] \notin {"lock", "walk", "send"}
      BY <1>0, <1>5 DEF EpollWait, Interrupted, Dispatch, Recv, RecvFrom, SendRecvData, EndBatch, CheckFlag, Goto, linkVars
    <2> QED
      BY <2>1 DEF FlagCoversBuffer, LinkLocked
  <1>6. CASE ResetFlag
    BY <1>0, <1>6 DEF ResetFlag, Goto, FlagCoversBuffer
  <1>7. CASE Lock
    BY <1>0, <1>7 DEF Lock, Goto, FlagCoversBuffer, LinkLocked, linkVars
  <1>8. CASE WalkLink
    <2>1. /\ mb_send_flag' = mb_send_flag /\ m_maplink' = m_maplink /\ todo' = todo
          /\ m_send_buff_list' = m_send_buff_list
          /\ pc' = [pc EXCEPT ![Worker] = "send"] /\ pc[Worker] = "walk"
          /\ \A t \in App : on'[t] = on[t]
      BY <1>0, <1>8 DEF WalkLink, Goto, linkVars, workVars
    <2> QED
      BY <1>0, <2>1 DEF FlagCoversBuffer, LinkLocked
  <1>9. CASE WalkSend
    <2> DEFINE l == on[Worker]
    <2>1. pc[Worker] = "send" /\ on' = on /\ m_maplink' = m_maplink
      BY <1>9 DEF WalkSend, linkVars
    <2>2. CASE UNCHANGED <<pc, todo, mb_send_flag>>
      <3>1. \/ m_send_buff_list' = m_send_buff_list
            \/ /\ m_send_buff_list[l] # <<>>
               /\ m_send_buff_list' = [m_send_buff_list EXCEPT ![l] = Tail(@)]
        BY <1>9 DEF WalkSend, Erased, Taken
      <3>2. \A k \in Links : m_send_buff_list'[k] # <<>> => m_send_buff_list[k] # <<>>
        BY <1>0, <3>1
      <3> QED
        BY <1>0, <2>1, <2>2, <3>2 DEF FlagCoversBuffer, LinkLocked
    <2>3. CASE ~UNCHANGED <<pc, todo, mb_send_flag>>
      <3>1. /\ mb_send_flag' = (mb_send_flag \/ m_send_buff_list[l] # <<>>)
            /\ todo' = todo \ {l}
            /\ pc' = [pc EXCEPT ![Worker] = "walk"]
            /\ m_send_buff_list' = m_send_buff_list
        BY <1>9, <2>3 DEF WalkSend, Goto
      <3>2. pc'[Worker] = "walk" /\ \A t \in App : pc'[t] = pc[t]
        BY <1>0, <3>1
      <3>3. ASSUME NEW k \in m_maplink, m_send_buff_list[k] # <<>>
            PROVE  \/ mb_send_flag'
                   \/ \E t \in App : pc[t] = "flag" /\ on[t] = k
                   \/ k \in todo'
        BY <2>1, <3>1, <3>3 DEF FlagCoversBuffer, LinkLocked
      <3> QED
        BY <2>1, <3>1, <3>2, <3>3 DEF FlagCoversBuffer, LinkLocked
    <2> QED
      BY <2>2, <2>3
  <1>10. CASE WalkDone
    <2>1. /\ mb_send_flag' = mb_send_flag /\ m_maplink' = m_maplink /\ on' = on
          /\ m_send_buff_list' = m_send_buff_list /\ todo = {}
          /\ pc[Worker] = "walk" /\ \A t \in App : pc'[t] = pc[t]
      BY <1>0, <1>10 DEF WalkDone, Goto, linkVars
    <2> QED
      BY <2>1 DEF FlagCoversBuffer, LinkLocked
  <1>11. CASE Network \/ UNCHANGED vars
    <2>1. UNCHANGED <<mb_send_flag, m_maplink, m_send_buff_list, pc, on, todo>>
      BY <1>11 DEF Network, Drains, Arrives, linkVars, callVars, workVars, vars
    <2> QED
      BY <2>1 DEF FlagCoversBuffer, LinkLocked
  <1> QED
    BY <1>1, <1>2, <1>3, <1>4, <1>5, <1>6, <1>7, <1>8, <1>9, <1>10, <1>11
    DEF Next, AppStep, InCall, WorkerStep

-----------------------------------------------------------------------------
(* The theorems. *)

LEMMA InvCorrect == Spec => [](TypeOK /\ BufferInv)
  <1>1. Init => TypeOK /\ BufferInv
    BY TypeInit, InvInit
  <1>2. TypeOK /\ BufferInv /\ [Next]_vars => (TypeOK /\ BufferInv)'
    BY TypeStep, CallsStep, UnusedStep, ClosedStep, FlagStep DEF BufferInv
  <1> QED
    BY <1>1, <1>2, PTL DEF Spec

(* The state of the UDP library stays within its types. *)
THEOREM TypeCorrect == Spec => []TypeOK
  BY InvCorrect, PTL

(* Every call works on a link that was created, a link just added has an   *)
(* empty buffer, one of which CLOSED has been said has no socket, and what *)
(* waits is covered by the flag.                                           *)
THEOREM BufferInvariant == Spec => []BufferInv
  BY InvCorrect, PTL

(* mb_send_flag, a push on its way to set it or a walk of do_send_buff     *)
(* that has still to come covers every datagram that waits in a registered *)
(* link, however the callers and the worker interleave.                    *)
THEOREM NothingForgotten == Spec => []FlagCoversBuffer
  <1>1. TypeOK /\ BufferInv => FlagCoversBuffer
    BY DEF BufferInv
  <1> QED
    BY <1>1, InvCorrect, PTL

-----------------------------------------------------------------------------
(* QueuedInOrder.  A datagram on its way to sendto or to the buffer is not *)
(* anywhere yet, and what is anywhere was pushed at most once; so the      *)
(* order of the pushes is kept by what was sent, by what waits, and        *)
(* between the two.                                                        *)

Sends(t) == pc[t] \in {"sendto", "push"}

NumbersGiven ==
    /\ \A l \in Links : /\ \A i \in DOMAIN wire[l] : wire[l][i] <= i_send
                        /\ \A p \in DOMAIN queued[l] : queued[l][p] <= i_send
    /\ \A t \in App : data[t] <= i_send
SendIsNew ==
    /\ \A t \in App : Sends(t) =>
          \A l \in Links : /\ \A i \in DOMAIN wire[l] : wire[l][i] # data[t]
                           /\ \A p \in DOMAIN queued[l] : queued[l][p] # data[t]
    /\ \A t, u \in App : Sends(t) /\ Sends(u) /\ t # u => data[t] # data[u]
WaitsQueued ==
    \A l \in Links : \A i \in DOMAIN m_send_buff_list[l] :
        \E p \in DOMAIN queued[l] : queued[l][p] = m_send_buff_list[l][i]

Follows(l, d, e) ==
    \A p, q \in DOMAIN queued[l] : queued[l][p] = d /\ queued[l][q] = e => p < q
SentInOrder ==
    \A l \in Links : \A i, j \in DOMAIN wire[l] : i < j => Follows(l, wire[l][i], wire[l][j])
WaitInOrder ==
    \A l \in Links : \A i, j \in DOMAIN m_send_buff_list[l] :
        i < j => Follows(l, m_send_buff_list[l][i], m_send_buff_list[l][j])
SentFirst ==
    \A l \in Links : \A i \in DOMAIN wire[l], j \in DOMAIN m_send_buff_list[l] :
        Follows(l, wire[l][i], m_send_buff_list[l][j])

OrderInv == NumbersGiven /\ SendIsNew /\ WaitsQueued /\ SentInOrder /\ WaitInOrder /\ SentFirst

LEMMA OrderInit == Init => OrderInv
  BY DEF Init, OrderInv, NumbersGiven, SendIsNew, WaitsQueued, SentInOrder, WaitInOrder, SentFirst,
     Sends, Threads

LEMMA QueueFacts ==
    ASSUME TypeOK, NEW l \in Links
    PROVE  /\ wire[l] \in Seq(Nat) /\ DOMAIN wire[l] = 1 .. Len(wire[l]) /\ Len(wire[l]) \in Nat
           /\ queued[l] \in Seq(Nat) /\ DOMAIN queued[l] = 1 .. Len(queued[l]) /\ Len(queued[l]) \in Nat
           /\ m_send_buff_list[l] \in Seq(Nat)
           /\ DOMAIN m_send_buff_list[l] = 1 .. Len(m_send_buff_list[l])
           /\ Len(m_send_buff_list[l]) \in Nat
  <1>1. Datagrams \subseteq Nat
    BY UdpLinkAssumption DEF Datagrams
  <1>2. wire[l] \in Seq(Datagrams) /\ queued[l] \in Seq(Datagrams) /\ m_send_buff_list[l] \in Seq(Datagrams)
    BY DEF TypeOK
  <1>3. wire[l] \in Seq(Nat) /\ queued[l] \in Seq(Nat) /\ m_send_buff_list[l] \in Seq(Nat)
    BY <1>1, <1>2, SeqMonotonic
  <1> QED
    BY <1>3, LenProperties

LEMMA AppendFacts ==
    ASSUME NEW s \in Seq(Nat), NEW d \in Nat
    PROVE  /\ DOMAIN Append(s, d) = 1 .. Len(s) + 1
           /\ \A i \in 1 .. Len(s) : Append(s, d)[i] = s[i]
           /\ Append(s, d)[Len(s) + 1] = d
           /\ Len(s) \in Nat /\ DOMAIN s = 1 .. Len(s)
  OBVIOUS

(* A step that gives, sends and pushes nothing.                            *)
LEMMA QuietOrder ==
    ASSUME OrderInv, UNCHANGED <<wire, queued, m_send_buff_list, i_send, data>>,
           \A t \in App : pc'[t] \in {"sendto", "push"} => Sends(t)
    PROVE  OrderInv'
  <1> USE DEF OrderInv
  <1>1. NumbersGiven' /\ WaitsQueued'
    BY DEF NumbersGiven, WaitsQueued
  <1>2. SendIsNew'
    BY DEF SendIsNew, Sends
  <1>3. SentInOrder' /\ WaitInOrder' /\ SentFirst'
    BY DEF SentInOrder, WaitInOrder, SentFirst, Follows
  <1> QED
    BY <1>1, <1>2, <1>3

LEMMA CallOrder ==
    ASSUME TypeOK, OrderInv, NEW t \in App, CallSendTo(t)
    PROVE  OrderInv'
  <1> USE DEF OrderInv
  <1>1. /\ UNCHANGED <<wire, queued, m_send_buff_list>>
        /\ i_send' = i_send + 1 /\ i_send \in Nat
        /\ data'[t] = i_send + 1 /\ \A u \in App \ {t} : data'[u] = data[u] /\ data[u] \in Nat
        /\ \A u \in App \ {t} : pc'[u] = pc[u]
    BY DEF CallSendTo, Find, Goto, TypeOK, Threads, Datagrams
  <1>2. /\ \A l \in Links : \A i \in DOMAIN wire[l] : wire[l][i] \in Nat
        /\ \A l \in Links : \A p \in DOMAIN queued[l] : queued[l][p] \in Nat
    BY QueueFacts, ElementOfSeq
  <1>3. NumbersGiven'
    BY <1>1, <1>2 DEF NumbersGiven
  <1>4. SendIsNew'
    BY <1>1, <1>2 DEF NumbersGiven, SendIsNew, Sends
  <1>5. WaitsQueued' /\ SentInOrder' /\ WaitInOrder' /\ SentFirst'
    BY <1>1 DEF WaitsQueued, SentInOrder, WaitInOrder, SentFirst, Follows
  <1> QED
    BY <1>3, <1>4, <1>5

(* The kernel takes the datagram of the call: it was never pushed.         *)
LEMMA SendToOrder ==
    ASSUME TypeOK, OrderInv, CallsHaveTheirLink, NEW t \in App, SendTo(t)
    PROVE  OrderInv'
  <1> USE DEF OrderInv
  <1>0. PICK l \in Links, d \in Datagrams : l = on[t] /\ d = data[t]
    BY DEF SendTo, CallsHaveTheirLink
  <1>1. /\ l \in Links /\ d \in Nat /\ Sends(t) /\ d <= i_send /\ i_send \in Nat
        /\ UNCHANGED <<queued, m_send_buff_list, i_send, data>>
        /\ \A u \in App \ {t} : pc'[u] = pc[u]
        /\ pc'[t] \in {"idle", "push"}
    BY <1>0 DEF SendTo, CallsHaveTheirLink, Goto, TypeOK, Threads, Datagrams, Sends, NumbersGiven
  <1>2. CASE wire' = wire
    BY <1>1, <1>2, QuietOrder DEF Sends
  <1>3. CASE wire' # wire
    <2>1. pc'[t] = "idle" /\ wire' = [wire EXCEPT ![l] = Append(wire[l], d)]
      BY <1>0, <1>3 DEF SendTo, Goto, TypeOK, Threads
    <2>2. \A k \in Links \ {l} : wire'[k] = wire[k]
      BY <2>1 DEF TypeOK
    <2>3. wire'[l] = Append(wire[l], d) /\ wire[l] \in Seq(Nat)
      BY <1>1, <2>1, QueueFacts DEF TypeOK
    <2>4. \A i \in DOMAIN wire'[l] : \/ i \in DOMAIN wire[l] /\ wire'[l][i] = wire[l][i]
                                    \/ wire'[l][i] = d
      <3>1. /\ DOMAIN wire'[l] = 1 .. Len(wire[l]) + 1 /\ DOMAIN wire[l] = 1 .. Len(wire[l])
            /\ Len(wire[l]) \in Nat /\ \A i \in DOMAIN wire[l] : wire'[l][i] = wire[l][i]
            /\ wire'[l][Len(wire[l]) + 1] = d
        BY <1>1, <2>3, AppendFacts
      <3> QED
        BY <3>1
    <2>5. \A e : Follows(l, d, e) /\ Follows(l, e, d)
      BY <1>0, <1>1 DEF SendIsNew, Follows
    <2>6. NumbersGiven'
      BY <1>1, <2>2, <2>4 DEF NumbersGiven
    <2>7. SendIsNew'
      <3>1. ASSUME NEW u \in App, pc'[u] \in {"sendto", "push"}
            PROVE  Sends(u) /\ u # t /\ data[u] # d
        BY <1>0, <1>1, <2>1, <3>1 DEF Sends, SendIsNew
      <3> QED
        BY <1>1, <2>2, <2>4, <3>1 DEF SendIsNew, Sends
    <2>8. SentInOrder'
      <3> SUFFICES ASSUME NEW k \in Links, NEW i \in DOMAIN wire'[k], NEW j \in DOMAIN wire'[k], i < j
                   PROVE  Follows(k, wire'[k][i], wire'[k][j])
        BY <1>1 DEF SentInOrder, Follows
      <3> QED
        BY <2>2, <2>4, <2>5 DEF SentInOrder
    <2>9. SentFirst'
      <3> SUFFICES ASSUME NEW k \in Links, NEW i \in DOMAIN wire'[k], NEW j \in DOMAIN m_send_buff_list[k]
                   PROVE  Follows(k, wire'[k][i], m_send_buff_list[k][j])
        BY <1>1 DEF SentFirst, Follows
      <3> QED
        BY <2>2, <2>4, <2>5 DEF SentFirst
    <2>10. WaitsQueued' /\ WaitInOrder'
      BY <1>1 DEF WaitsQueued, WaitInOrder, Follows
    <2> QED
      BY <2>6, <2>7, <2>8, <2>9, <2>10
  <1> QED
    BY <1>2, <1>3

(* The push puts the datagram last in the buffer, and no one else has it.  *)
LEMMA PushOrder ==
    ASSUME TypeOK, OrderInv, CallsHaveTheirLink, NEW t \in App, Push(t)
    PROVE  OrderInv'
  <1> USE DEF OrderInv
  <1>0. PICK l \in Links, d \in Datagrams : l = on[t] /\ d = data[t]
    BY DEF Push, CallsHaveTheirLink
  <1> DEFINE Q == DOMAIN queued[l]
             B == DOMAIN m_send_buff_list[l]
  <1>1. /\ l \in Links /\ d \in Nat /\ Sends(t) /\ d <= i_send /\ i_send \in Nat
        /\ UNCHANGED <<wire, i_send, data>>
        /\ \A u \in App \ {t} : pc'[u] = pc[u]
        /\ pc'[t] = "flag"
        /\ queued' = [queued EXCEPT ![l] = Append(queued[l], d)]
        /\ m_send_buff_list' = [m_send_buff_list EXCEPT ![l] = Append(m_send_buff_list[l], d)]
    BY <1>0 DEF Push, CallsHaveTheirLink, Goto, TypeOK, Threads, Datagrams, Sends, NumbersGiven
  <1>2. \A k \in Links \ {l} : queued'[k] = queued[k] /\ m_send_buff_list'[k] = m_send_buff_list[k]
    BY <1>1 DEF TypeOK
  <1>3. /\ queued'[l] = Append(queued[l], d) /\ queued[l] \in Seq(Nat)
        /\ m_send_buff_list'[l] = Append(m_send_buff_list[l], d) /\ m_send_buff_list[l] \in Seq(Nat)
    BY <1>1, QueueFacts DEF TypeOK
  <1>4. PICK n \in Nat : /\ Q = 1 .. n /\ DOMAIN queued'[l] = Q \cup {n + 1}
                         /\ \A p \in Q : queued'[l][p] = queued[l][p]
                         /\ queued'[l][n + 1] = d
    <2>1. /\ Q = 1 .. Len(queued[l]) /\ DOMAIN queued'[l] = 1 .. Len(queued[l]) + 1
          /\ \A p \in Q : queued'[l][p] = queued[l][p]
          /\ queued'[l][Len(queued[l]) + 1] = d /\ Len(queued[l]) \in Nat
      BY <1>1, <1>3, AppendFacts
    <2>2. 1 .. Len(queued[l]) + 1 = Q \cup {Len(queued[l]) + 1}
      BY <2>1
    <2> QED
      BY <2>1, <2>2
  <1>5. \A i \in DOMAIN m_send_buff_list'[l] :
           \/ i \in B /\ m_send_buff_list'[l][i] = m_send_buff_list[l][i]
           \/ m_send_buff_list'[l][i] = d /\ \A j \in DOMAIN m_send_buff_list'[l] : ~(i < j)
    <2>1. /\ DOMAIN m_send_buff_list'[l] = 1 .. Len(m_send_buff_list[l]) + 1
          /\ B = 1 .. Len(m_send_buff_list[l]) /\ Len(m_send_buff_list[l]) \in Nat
          /\ \A i \in B : m_send_buff_list'[l][i] = m_send_buff_list[l][i]
          /\ m_send_buff_list'[l][Len(m_send_buff_list[l]) + 1] = d
      BY <1>1, <1>3, AppendFacts
    <2> QED
      BY <2>1
  <1>6. /\ \A k \in Links : \A i \in DOMAIN wire[k] : wire[k][i] # d
        /\ \A p \in Q : queued[l][p] # d
        /\ \A i \in B : m_send_buff_list[l][i] # d
    BY <1>0, <1>1 DEF SendIsNew, WaitsQueued
  (* What Follows becomes. *)
  <1>7. /\ \A k \in Links \ {l} : \A x, y : Follows(k, x, y) => Follows(k, x, y)'
        /\ \A x, y : Follows(l, x, y) /\ x # d /\ y # d => Follows(l, x, y)'
        /\ \A x : x # d => Follows(l, x, d)'
    <2>1. \A k \in Links \ {l} : \A x, y : Follows(k, x, y) => Follows(k, x, y)'
      BY <1>2 DEF Follows
    <2>2. ASSUME NEW x, NEW y, Follows(l, x, y), x # d, y # d
          PROVE  Follows(l, x, y)'
      BY <1>4, <2>2 DEF Follows
    <2>3. ASSUME NEW x, x # d
          PROVE  Follows(l, x, d)'
      BY <1>4, <1>6, <2>3 DEF Follows
    <2> QED
      BY <2>1, <2>2, <2>3
  <1>8. NumbersGiven'
    BY <1>1, <1>2, <1>4 DEF NumbersGiven
  <1>9. SendIsNew'
    <2>1. ASSUME NEW u \in App, pc'[u] \in {"sendto", "push"}
          PROVE  Sends(u) /\ u # t /\ data[u] # d
      BY <1>0, <1>1, <2>1 DEF Sends, SendIsNew
    <2> QED
      BY <1>1, <1>2, <1>4, <2>1 DEF SendIsNew, Sends
  <1>10. WaitsQueued'
    <2> SUFFICES ASSUME NEW k \in Links, NEW i \in DOMAIN m_send_buff_list'[k]
                 PROVE  \E p \in DOMAIN queued'[k] : queued'[k][p] = m_send_buff_list'[k][i]
      BY DEF WaitsQueued
    <2>1. CASE k # l
      BY <1>2, <2>1 DEF WaitsQueued
    <2>2. CASE k = l
      BY <1>4, <1>5, <2>2 DEF WaitsQueued
    <2> QED
      BY <2>1, <2>2
  <1>11. SentInOrder'
    <2> SUFFICES ASSUME NEW k \in Links, NEW i \in DOMAIN wire[k], NEW j \in DOMAIN wire[k], i < j
                 PROVE  Follows(k, wire[k][i], wire[k][j])'
      BY <1>1 DEF SentInOrder
    <2>1. Follows(k, wire[k][i], wire[k][j])
      BY DEF SentInOrder
    <2>2. wire' = wire
      BY <1>1
    <2> QED
      BY <1>2, <1>4, <1>6, <2>1, <2>2 DEF Follows
  <1>12. WaitInOrder'
    <2> SUFFICES ASSUME NEW k \in Links, NEW i \in DOMAIN m_send_buff_list'[k],
                        NEW j \in DOMAIN m_send_buff_list'[k], i < j,
                        NEW p \in DOMAIN queued'[k], NEW q \in DOMAIN queued'[k],
                        queued'[k][p] = m_send_buff_list'[k][i], queued'[k][q] = m_send_buff_list'[k][j]
                 PROVE  p < q
      BY DEF WaitInOrder, Follows
    <2>1. CASE k # l
      BY <1>2, <2>1 DEF WaitInOrder, Follows
    <2>2. CASE k = l
      <3>1. i \in B /\ m_send_buff_list'[l][i] = m_send_buff_list[l][i]
        BY <1>5, <2>2
      <3>2. CASE j \in B /\ m_send_buff_list'[l][j] = m_send_buff_list[l][j]
        BY <1>4, <1>6, <2>2, <3>1, <3>2 DEF WaitInOrder, Follows
      <3>3. CASE m_send_buff_list'[l][j] = d
        BY <1>4, <1>6, <2>2, <3>1, <3>3
      <3> QED
        BY <1>5, <2>2, <3>2, <3>3
    <2> QED
      BY <2>1, <2>2
  <1>13. SentFirst'
    <2> SUFFICES ASSUME NEW k \in Links, NEW i \in DOMAIN wire[k], NEW j \in DOMAIN m_send_buff_list'[k],
                        NEW p \in DOMAIN queued'[k], NEW q \in DOMAIN queued'[k],
                        queued'[k][p] = wire[k][i], queued'[k][q] = m_send_buff_list'[k][j]
                 PROVE  p < q
      <3>1. wire' = wire
        BY <1>1
      <3> QED
        BY <3>1 DEF SentFirst, Follows
    <2>1. CASE k # l
      BY <1>2, <2>1 DEF SentFirst, Follows
    <2>2. CASE k = l
      <3>1. p \in Q /\ queued[l][p] = wire[l][i]
        BY <1>4, <1>6, <2>2
      <3>2. CASE j \in B /\ m_send_buff_list'[l][j] = m_send_buff_list[l][j]
        BY <1>4, <1>6, <2>2, <3>1, <3>2 DEF SentFirst, Follows
      <3>3. CASE m_send_buff_list'[l][j] = d
        BY <1>4, <1>6, <2>2, <3>1, <3>3
      <3> QED
        BY <1>5, <2>2, <3>2, <3>3
    <2> QED
      BY <2>1, <2>2
  <1> QED
    BY <1>8, <1>9, <1>10, <1>11, <1>12, <1>13

(* The worker moves the head of a buffer to the kernel: the line of the    *)
(* two stays as it is.                                                     *)
LEMMA WalkOrder ==
    ASSUME TypeOK, OrderInv, CallsHaveTheirLink, WalkSend
    PROVE  OrderInv'
  <1> USE DEF OrderInv
  <1> DEFINE l == on[Worker]
             b == m_send_buff_list[l]
             B == DOMAIN m_send_buff_list[l]
             d == m_send_buff_list[l][1]
  <1>1. /\ l \in Links /\ UNCHANGED <<queued, i_send, data>>
        /\ \A u \in App : pc'[u] = pc[u]
    BY UdpLinkAssumption DEF WalkSend, CallsHaveTheirLink, Goto, TypeOK, Threads
  <1>2. CASE wire' = wire /\ m_send_buff_list' = m_send_buff_list
    BY <1>1, <1>2, QuietOrder DEF Sends
  <1>3. CASE /\ b # <<>>
             /\ wire' = [wire EXCEPT ![l] = Append(wire[l], Head(b))]
             /\ m_send_buff_list' = [m_send_buff_list EXCEPT ![l] = Tail(b)]
    <2>1. \A k \in Links \ {l} : wire'[k] = wire[k] /\ m_send_buff_list'[k] = m_send_buff_list[k]
      BY <1>3 DEF TypeOK
    <2>2. /\ wire'[l] = Append(wire[l], Head(b)) /\ m_send_buff_list'[l] = Tail(b)
          /\ wire[l] \in Seq(Nat) /\ b \in Seq(Nat)
      BY <1>1, <1>3, QueueFacts DEF TypeOK
    <2>3. /\ 1 \in B /\ Head(b) = d /\ d \in Nat
          /\ \A i \in DOMAIN m_send_buff_list'[l] :
                i + 1 \in B /\ i \in Nat /\ 1 < i + 1 /\ m_send_buff_list'[l][i] = b[i + 1]
      <3>1. /\ B = 1 .. Len(b) /\ Len(b) \in Nat /\ Len(b) # 0
            /\ DOMAIN Tail(b) = 1 .. Len(b) - 1 /\ \A i \in 1 .. Len(b) - 1 : Tail(b)[i] = b[i + 1]
            /\ Head(b) = d /\ Head(b) \in Nat
        BY <1>3, <2>2
      <3> QED
        BY <2>2, <3>1
    <2>4. \A i \in DOMAIN wire'[l] :
             \/ i \in DOMAIN wire[l] /\ wire'[l][i] = wire[l][i]
             \/ wire'[l][i] = d /\ \A j \in DOMAIN wire'[l] : i < j => FALSE
      <3>1. /\ DOMAIN wire'[l] = 1 .. Len(wire[l]) + 1 /\ DOMAIN wire[l] = 1 .. Len(wire[l])
            /\ Len(wire[l]) \in Nat /\ \A i \in DOMAIN wire[l] : wire'[l][i] = wire[l][i]
            /\ wire'[l][Len(wire[l]) + 1] = d
        BY <2>2, <2>3, AppendFacts
      <3> QED
        BY <3>1
    <2>5. PICK n \in DOMAIN queued[l] : queued[l][n] = d
      BY <1>1, <2>3 DEF WaitsQueued
    <2>6. NumbersGiven'
      BY <1>1, <2>1, <2>4, <2>5 DEF NumbersGiven
    <2>7. SendIsNew'
      BY <1>1, <2>1, <2>4, <2>5 DEF SendIsNew, Sends
    <2>8. WaitsQueued'
      BY <1>1, <2>1, <2>3 DEF WaitsQueued
    <2>9. SentInOrder'
      <3> SUFFICES ASSUME NEW k \in Links, NEW i \in DOMAIN wire'[k], NEW j \in DOMAIN wire'[k], i < j
                   PROVE  Follows(k, wire'[k][i], wire'[k][j])
        BY <1>1 DEF SentInOrder, Follows
      <3>1. \A i1 \in DOMAIN wire[l] : Follows(l, wire[l][i1], d)
        BY <1>1, <2>3 DEF SentFirst
      <3> QED
        BY <2>1, <2>4, <3>1 DEF SentInOrder
    <2>10. WaitInOrder'
      <3> SUFFICES ASSUME NEW k \in Links, NEW i \in DOMAIN m_send_buff_list'[k],
                          NEW j \in DOMAIN m_send_buff_list'[k], i < j
                   PROVE  Follows(k, m_send_buff_list'[k][i], m_send_buff_list'[k][j])
        BY <1>1 DEF WaitInOrder, Follows
      <3>1. CASE k # l
        BY <2>1, <3>1 DEF WaitInOrder
      <3>2. CASE k = l
        <4>1. i + 1 \in B /\ j + 1 \in B /\ i + 1 < j + 1
          BY <2>3, <3>2
        <4> QED
          BY <1>1, <2>3, <3>2, <4>1 DEF WaitInOrder
      <3> QED
        BY <3>1, <3>2
    <2>11. SentFirst'
      <3> SUFFICES ASSUME NEW k \in Links, NEW i \in DOMAIN wire'[k], NEW j \in DOMAIN m_send_buff_list'[k]
                   PROVE  Follows(k, wire'[k][i], m_send_buff_list'[k][j])
        BY <1>1 DEF SentFirst, Follows
      <3>1. CASE k # l
        BY <2>1, <3>1 DEF SentFirst
      <3>2. CASE k = l
        <4>1. j + 1 \in B /\ 1 < j + 1 /\ m_send_buff_list'[l][j] = b[j + 1] /\ 1 \in B
          BY <2>3, <3>2
        <4>2. Follows(l, d, b[j + 1])
          BY <1>1, <4>1 DEF WaitInOrder
        <4> QED
          BY <1>1, <2>4, <3>2, <4>1, <4>2 DEF SentFirst
      <3> QED
        BY <3>1, <3>2
    <2> QED
      BY <2>6, <2>7, <2>8, <2>9, <2>10, <2>11
  (* An entry erased unsent only shortens what waits. *)
  <1>4. CASE /\ b # <<>> /\ wire' = wire
             /\ m_send_buff_list' = [m_send_buff_list EXCEPT ![l] = Tail(b)]
    <2>1. \A k \in Links \ {l} : m_send_buff_list'[k] = m_send_buff_list[k]
      BY <1>4 DEF TypeOK
    <2>2. \A i \in DOMAIN m_send_buff_list'[l] :
             i \in Nat /\ i + 1 \in B /\ m_send_buff_list'[l][i] = b[i + 1]
      <3>1. m_send_buff_list'[l] = Tail(b) /\ b \in Seq(Nat)
        BY <1>1, <1>4, QueueFacts DEF TypeOK
      <3>2. /\ B = 1 .. Len(b) /\ Len(b) \in Nat
            /\ DOMAIN Tail(b) = 1 .. Len(b) - 1 /\ \A i \in 1 .. Len(b) - 1 : Tail(b)[i] = b[i + 1]
        BY <1>4, <3>1
      <3> QED
        BY <3>1, <3>2
    <2>3. NumbersGiven' /\ SendIsNew' /\ SentInOrder'
      BY <1>1, <1>4 DEF NumbersGiven, SendIsNew, SentInOrder, Follows, Sends
    <2>4. WaitsQueued'
      BY <1>1, <2>1, <2>2 DEF WaitsQueued
    <2>5. WaitInOrder'
      <3> SUFFICES ASSUME NEW k \in Links, NEW i \in DOMAIN m_send_buff_list'[k],
                          NEW j \in DOMAIN m_send_buff_list'[k], i < j
                   PROVE  Follows(k, m_send_buff_list'[k][i], m_send_buff_list'[k][j])
        BY <1>1 DEF WaitInOrder, Follows
      <3>1. CASE k # l
        BY <2>1, <3>1 DEF WaitInOrder
      <3>2. CASE k = l
        <4>1. i + 1 \in B /\ j + 1 \in B /\ i + 1 < j + 1
          BY <2>2, <3>2
        <4> QED
          BY <1>1, <2>2, <3>2, <4>1 DEF WaitInOrder
      <3> QED
        BY <3>1, <3>2
    <2>6. SentFirst'
      BY <1>1, <1>4, <2>1, <2>2 DEF SentFirst, Follows
    <2> QED
      BY <2>3, <2>4, <2>5, <2>6
  <1> QED
    BY <1>2, <1>3, <1>4 DEF WalkSend, Erased, Taken

LEMMA DropOrder ==
    ASSUME TypeOK, OrderInv, NEW t \in App, DelSendBuff(t)
    PROVE  OrderInv'
  <1> USE DEF OrderInv
  <1>1. /\ UNCHANGED <<wire, queued, i_send, data>>
        /\ \A u \in App : pc'[u] \in {"sendto", "push"} => pc[u] \in {"sendto", "push"}
    BY DEF DelSendBuff, Goto, TypeOK, Threads, workVars, historyVars
  <1>2. \A k \in Links : m_send_buff_list'[k] \in {m_send_buff_list[k], <<>>}
    BY DEF DelSendBuff, TypeOK
  <1>3. NumbersGiven' /\ SendIsNew' /\ SentInOrder'
    BY <1>1 DEF NumbersGiven, SendIsNew, SentInOrder, Follows, Sends
  <1>4. WaitsQueued' /\ WaitInOrder' /\ SentFirst'
    BY <1>1, <1>2 DEF WaitsQueued, WaitInOrder, SentFirst, Follows
  <1> QED
    BY <1>3, <1>4

LEMMA OrderStep ==
    ASSUME TypeOK, OrderInv, CallsHaveTheirLink, [Next]_vars
    PROVE  OrderInv'
  <1>0. Worker \notin App /\ App \subseteq Threads /\ pc \in [Threads -> AppPcs \cup WorkerPcs]
    BY UdpLinkAssumption DEF Threads, TypeOK
  <1>1. ASSUME NEW t \in App, AppStep(t)
        PROVE  OrderInv'
    <2>1. CASE CallSendTo(t) \/ SendTo(t) \/ Push(t) \/ DelSendBuff(t)
      BY <2>1, CallOrder, SendToOrder, PushOrder, DropOrder
    <2>2. CASE ~(CallSendTo(t) \/ SendTo(t) \/ Push(t) \/ DelSendBuff(t))
      <3>1. UNCHANGED <<wire, queued, m_send_buff_list, i_send, data>>
        BY <1>1, <2>2 DEF AppStep, InCall, Create, CallDestroy, Find, Attach, SendCreated, SetFlag, DelLink,
           CheckSocket, Shutdown, SendClosed, historyVars
      <3>2. PICK label : Goto(t, label) /\ label \notin {"sendto", "push"}
        BY <1>1, <2>2 DEF AppStep, InCall, Create, CallDestroy, Find, Attach, SendCreated, SetFlag, DelLink,
           CheckSocket, Shutdown, SendClosed
      <3>3. \A u \in App : pc'[u] \in {"sendto", "push"} => Sends(u)
        BY <1>0, <3>2 DEF Goto, Sends
      <3> QED
        BY <3>1, <3>3, QuietOrder
    <2> QED
      BY <2>1, <2>2
  <1>2. CASE WalkSend
    BY <1>2, WalkOrder
  <1>3. CASE (WorkerStep \/ Interrupted) /\ ~WalkSend
    <2>1. /\ UNCHANGED <<wire, queued, m_send_buff_list, i_send, data>>
          /\ \A u \in App : pc'[u] = pc[u]
      BY <1>0, <1>3 DEF WorkerStep, Interrupted, EpollWait, Dispatch, Recv, RecvFrom, SendRecvData, EndBatch, CheckFlag,
         ResetFlag, Lock, WalkLink, WalkDone, Goto, historyVars
    <2> QED
      BY <2>1, QuietOrder DEF Sends
  <1>4. CASE Network \/ UNCHANGED vars
    <2>1. UNCHANGED <<wire, queued, m_send_buff_list, i_send, data, pc>>
      BY <1>4 DEF Network, Drains, Arrives, historyVars, callVars, vars
    <2> QED
      BY <2>1, QuietOrder DEF Sends
  <1> QED
    BY <1>1, <1>2, <1>3, <1>4 DEF Next

(* Whatever threads send, push and destroy at the same time beside the     *)
(* worker that flushes, what was put in the buffer of a link is taken by   *)
(* the kernel in the order of the pushes and at most once.                 *)
THEOREM PushedInOrder == Spec => []QueuedInOrder
  <1>1. Init => TypeOK /\ BufferInv /\ OrderInv
    BY TypeInit, InvInit, OrderInit
  <1>2. TypeOK /\ BufferInv /\ OrderInv /\ [Next]_vars => (TypeOK /\ BufferInv /\ OrderInv)'
    BY TypeStep, CallsStep, UnusedStep, ClosedStep, FlagStep, OrderStep DEF BufferInv
  <1>3. TypeOK /\ OrderInv => QueuedInOrder
    <2> SUFFICES ASSUME TypeOK, OrderInv, NEW l \in Links
                 PROVE  LET line == wire[l] \o m_send_buff_list[l]
                        IN \A i, j \in DOMAIN line : \A p, q \in DOMAIN queued[l] :
                              i < j /\ queued[l][p] = line[i] /\ queued[l][q] = line[j] => p < q
      BY DEF OrderInv, WaitsQueued, QueuedInOrder
    <2> DEFINE line == wire[l] \o m_send_buff_list[l]
               n == Len(wire[l])
    <2> SUFFICES ASSUME NEW i \in DOMAIN line, NEW j \in DOMAIN line, i < j
                 PROVE  Follows(l, line[i], line[j])
      BY DEF Follows
    <2>1. /\ n \in Nat /\ DOMAIN wire[l] = 1 .. n /\ i \in Nat /\ j \in Nat
          /\ \A k \in {i, j} : \/ k \in DOMAIN wire[l] /\ line[k] = wire[l][k]
                               \/ /\ k - n \in DOMAIN m_send_buff_list[l] /\ n < k
                                  /\ line[k] = m_send_buff_list[l][k - n]
      <3>1. /\ DOMAIN line = 1 .. n + Len(m_send_buff_list[l])
            /\ \A k \in 1 .. n + Len(m_send_buff_list[l]) :
                  line[k] = IF k <= n THEN wire[l][k] ELSE m_send_buff_list[l][k - n]
        <4>1. wire[l] \in Seq(Nat) /\ m_send_buff_list[l] \in Seq(Nat)
          BY QueueFacts
        <4>2. line \in Seq(Nat) /\ Len(line) = n + Len(m_send_buff_list[l])
          BY <4>1, ConcatProperties
        <4> QED
          BY <4>1, <4>2, ConcatProperties, LenProperties
      <3>2. /\ n \in Nat /\ DOMAIN wire[l] = 1 .. n /\ Len(m_send_buff_list[l]) \in Nat
            /\ DOMAIN m_send_buff_list[l] = 1 .. Len(m_send_buff_list[l])
        BY QueueFacts
      <3> HIDE DEF line, n
      <3> QED
        BY <3>1, <3>2
    <2>2. CASE i \in DOMAIN wire[l] /\ j \in DOMAIN wire[l]
      BY <2>1, <2>2 DEF OrderInv, SentInOrder
    <2>3. CASE i \in DOMAIN wire[l] /\ j \notin DOMAIN wire[l]
      BY <2>1, <2>3 DEF OrderInv, SentFirst
    <2>4. CASE i \notin DOMAIN wire[l]
      <3>1. j \notin DOMAIN wire[l] /\ i - n < j - n
        BY <2>1, <2>4
      <3> QED
        BY <2>1, <2>4, <3>1 DEF OrderInv, WaitInOrder
    <2> QED
      BY <2>2, <2>3, <2>4
  <1> QED
    BY <1>1, <1>2, <1>3, PTL DEF Spec

-----------------------------------------------------------------------------
(* OneReadAfterClosed.  Once CLOSED is said mi_socket is -1, so no number  *)
(* is loaded any more; a read whose number was loaded before is at most    *)
(* one, for there is one worker.                                           *)

LEMMA LateInit == Init => LateInv
  BY UdpLinkAssumption DEF Init, LateInv, OneReadAfterClosed, Reading, Threads

(* A step that says neither CLOSED nor RECEIVEDATA and begins no read.     *)
LEMMA QuietLate ==
    ASSUME LateInv, UNCHANGED closedVars, \A l \in closed : Reading(l)' => Reading(l)
    PROVE  LateInv'
  BY DEF LateInv, OneReadAfterClosed, closedVars

LEMMA LateStep ==
    ASSUME TypeOK, CallsHaveTheirLink, ClosedHasNoSocket, LateInv, [Next]_vars
    PROVE  LateInv'
  <1>0. /\ Worker \notin App /\ App \subseteq Threads /\ Worker \in Threads
        /\ pc \in [Threads -> AppPcs \cup WorkerPcs] /\ on \in [Threads -> Links \cup {NoLink}]
        /\ late \in [Links -> Nat] /\ closed \subseteq Links /\ begun \subseteq Links
    BY UdpLinkAssumption DEF Threads, TypeOK
  <1>1. ASSUME NEW t \in App, AppStep(t), ~SendClosed(t) PROVE LateInv'
    <2>1. UNCHANGED closedVars
      BY <1>1 DEF AppStep, InCall, Create, CallSendTo, CallDestroy, Find, Attach, SendCreated,
         SendTo, Push, SetFlag, DelSendBuff, DelLink, CheckSocket, Shutdown, historyVars
    <2>2. pc'[Worker] = pc[Worker] /\ on'[Worker] = on[Worker]
      BY <1>0, <1>1 DEF AppStep, InCall, Create, CallSendTo, CallDestroy, Find, Attach, SendCreated,
         SendTo, Push, SetFlag, DelSendBuff, DelLink, CheckSocket, Shutdown, Goto
    <2> QED
      BY <2>1, <2>2, QuietLate DEF Reading
  <1>2. ASSUME NEW t \in App, SendClosed(t) PROVE LateInv'
    <2>1. /\ pc'[Worker] = pc[Worker] /\ on' = on /\ late' = late
          /\ closed' = closed \cup {on[t]}
          /\ begun' = IF Reading(on[t]) THEN begun \cup {on[t]} ELSE begun
      BY <1>0, <1>2 DEF SendClosed, Goto
    <2>2. \A l \in Links : Reading(l)' <=> Reading(l)
      BY <2>1 DEF Reading
    <2>3. on[t] \in Links /\ pc[t] # "idle"
      BY <1>2 DEF SendClosed, CallsHaveTheirLink
    <2>4. closed' \subseteq Links /\ closed \subseteq closed' /\ begun \subseteq begun'
      BY <1>0, <2>1, <2>3
    <2>5. OneReadAfterClosed'
      BY <2>1, <2>4 DEF LateInv, OneReadAfterClosed
    <2>6. \A l \in Links \ closed' : late'[l] = 0 /\ l \notin begun'
      BY <2>1 DEF LateInv
    <2>7. ASSUME NEW l \in closed', Reading(l)
          PROVE  late'[l] = 0 /\ l \in begun'
      BY <2>1, <2>3, <2>7 DEF LateInv
    <2> QED
      BY <2>2, <2>4, <2>5, <2>6, <2>7 DEF LateInv
  <1>3. CASE Recv
    <2>1. /\ UNCHANGED closedVars /\ on' = on
          /\ pc'[Worker] = IF on[Worker] \in mi_socket THEN "recvfrom" ELSE "events"
      BY <1>0, <1>3 DEF Recv, Goto, historyVars
    <2>2. \A l \in closed : ~Reading(l)'
      BY <2>1 DEF Reading, ClosedHasNoSocket
    <2> QED
      BY <2>1, <2>2, QuietLate
  <1>4. CASE RecvFrom
    <2>1. UNCHANGED closedVars /\ on' = on /\ pc[Worker] = "recvfrom"
      BY <1>4 DEF RecvFrom, historyVars
    <2>2. \A l \in closed : Reading(l)' => Reading(l)
      BY <2>1 DEF Reading
    <2> QED
      BY <2>1, <2>2, QuietLate
  <1>5. CASE SendRecvData
    <2> DEFINE l == on[Worker]
    <2>1. /\ pc[Worker] = "received" /\ pc'[Worker] = "events"
          /\ closed' = closed /\ begun' = begun
          /\ late' = IF l \in closed THEN [late EXCEPT ![l] = @ + 1] ELSE late
      BY <1>0, <1>5 DEF SendRecvData, Goto
    <2>2. \A k \in Links : ~Reading(k)'
      BY <2>1 DEF Reading
    <2>3. CASE l \in closed
      <3>1. late[l] = 0 /\ l \in begun /\ l \in Links
        BY <1>0, <2>1, <2>3 DEF LateInv, Reading
      <3>2. late'[l] = 1 /\ \A k \in Links \ {l} : late'[k] = late[k]
        BY <1>0, <2>1, <2>3, <3>1
      <3> QED
        BY <1>0, <2>1, <2>2, <2>3, <3>1, <3>2 DEF LateInv, OneReadAfterClosed
    <2>4. CASE l \notin closed
      BY <1>0, <2>1, <2>2, <2>4 DEF LateInv, OneReadAfterClosed
    <2> QED
      BY <2>3, <2>4
  <1>6. CASE (WorkerStep \/ Interrupted) /\ ~Recv /\ ~RecvFrom /\ ~SendRecvData
    <2>1. UNCHANGED closedVars /\ pc'[Worker] \notin {"recvfrom", "received"}
      BY <1>0, <1>6 DEF WorkerStep, Interrupted, EpollWait, Dispatch, EndBatch, CheckFlag, ResetFlag,
         Lock, WalkLink, WalkSend, WalkDone, Goto, historyVars
    <2> QED
      BY <2>1, QuietLate DEF Reading
  <1>7. CASE Network \/ UNCHANGED vars
    <2>1. UNCHANGED <<closedVars, pc, on>>
      BY <1>7 DEF Network, Drains, Arrives, historyVars, callVars, closedVars, vars
    <2> QED
      BY <2>1, QuietLate DEF Reading
  <1> QED
    BY <1>1, <1>2, <1>3, <1>4, <1>5, <1>6, <1>7 DEF Next

(* However destroys and reads interleave, of what arrives at a link at     *)
(* most one datagram is reported after CLOSED, the one on_event_read was   *)
(* reading from the number it had loaded before.                           *)
THEOREM ReadAfterClosedWasBegun == Spec => []OneReadAfterClosed
  <1>1. Init => TypeOK /\ BufferInv /\ LateInv
    BY TypeInit, InvInit, LateInit
  <1>2. TypeOK /\ BufferInv /\ LateInv /\ [Next]_vars => LateInv'
    BY LateStep DEF BufferInv
  <1>3. LateInv => OneReadAfterClosed
    BY DEF LateInv
  <1> QED
    BY <1>1, <1>2, <1>3, InvCorrect, PTL DEF Spec
=============================================================================
