----------------------------- MODULE TestClient -----------------------------
(***************************************************************************)
(* The client sample against a server that answers as the server sample's  *)
(* handler does.  The application (main, Test_Client::Init) makes a link   *)
(* and sends requests on it; the library's worker brings what the server   *)
(* sent, in pieces of any size, and the end of the link; a thread of       *)
(* Test_Client (handle_recv_data) cuts the bytes into packets and hands    *)
(* them on.  mh_tcpLink is written by two of them and read by all.         *)
(***************************************************************************)
EXTENDS Framing

CONSTANTS
    Requests,   \* what the client sends: do_ver_nego_req, do_link_auth_req
    DataStatus  \* the ui_status with which the library hands on what it has read;
                \* END comes last, and with nothing if the data came with MIDDLE

ASSUME TestClientAssumption ==
    /\ Requests \in Seq(Message)
    /\ \A i \in DOMAIN Requests :
           Requests[i].msg_type \in {IR_MONITOR_VER_NEGO_REQ, IR_MONITOR_LINK_AUTH_REQ}
    /\ DataStatus \in {"STATUS_RECV_MIDDLE", "STATUS_RECV_END"}

INVALID_HTCPLINK == 0
Link == 1           \* the one handle tcp_create returns
Threads == {"app", "worker", "recv"}

VARIABLES
    link,               \* the library's link: "none", "open" or "gone"
    mh_tcpLink,
    sent,               \* how many of the requests have been sent
    answered,           \* how many of those the server has answered
    wire,               \* what the server has sent and the worker has not handed on
    got,                \* how many bytes of it the worker has read
    mv_recv_buf_old, mo_buff_sem, mv_recv_buf,
    named,              \* the handle with which on_tcp_recv_data is called
    pc,
    handled,            \* history: the answers the client has acted on
    how,                \* history: how the link ended, "early" if before set_link
    cut                 \* history: a scan has stepped over a magic number cut in two

bufVars == <<mv_recv_buf_old, mo_buff_sem, mv_recv_buf, named>>
vars == <<link, mh_tcpLink, sent, answered, wire, got, bufVars, pc, handled, how, cut>>

TypeOK ==
    /\ link \in {"none", "open", "gone"} /\ mh_tcpLink \in {INVALID_HTCPLINK, Link}
    /\ sent \in 0..Len(Requests) /\ answered \in 0..sent
    /\ wire \in Seq(Cell) /\ mv_recv_buf_old \in Seq(Cell) /\ mv_recv_buf \in Seq(Cell)
    /\ got \in Nat /\ mo_buff_sem \in Nat /\ named \in {INVALID_HTCPLINK, Link}
    /\ pc \in [Threads -> {"none", "idle", "create", "connect", "set", "send", "done",
                           "store", "post", "closed", "swap", "parse", "handle"}]
    /\ handled \in Seq(Message)
    /\ how \in {"no", "early", "closed", "disconnected"} /\ cut \in BOOLEAN

Init ==
    /\ link = "none" /\ mh_tcpLink = INVALID_HTCPLINK
    /\ sent = 0 /\ answered = 0 /\ wire = <<>> /\ got = 0
    /\ mv_recv_buf_old = <<>> /\ mo_buff_sem = 0 /\ mv_recv_buf = <<>>
    /\ named = INVALID_HTCPLINK
    /\ pc = [t \in Threads |-> IF t = "worker" THEN "idle" ELSE "none"]
    /\ handled = <<>> /\ how = "no" /\ cut = FALSE

Goto(t, from, to) == pc[t] = from /\ pc' = [pc EXCEPT ![t] = to]

-----------------------------------------------------------------------------
(* The application.                                                        *)

(* Init makes the thread; then process_connect_server.                     *)
InitClient ==
    /\ pc["app"] = "none" /\ pc["recv"] = "none"
    /\ \/ pc' = [pc EXCEPT !["app"] = "create", !["recv"] = "idle"]
       \/ pc' = [pc EXCEPT !["app"] = "done"]
    /\ UNCHANGED <<link, mh_tcpLink, sent, answered, wire, got, bufVars, handled, how, cut>>

Create ==
    /\ \/ Goto("app", "create", "connect") /\ link' = "open"
       \/ Goto("app", "create", "done") /\ UNCHANGED link
    /\ UNCHANGED <<mh_tcpLink, sent, answered, wire, got, bufVars, handled, how, cut>>

(* A connect that fails is followed by tcp_destroy.                        *)
Connect ==
    /\ \/ Goto("app", "connect", "set") /\ UNCHANGED link
       \/ Goto("app", "connect", "done") /\ link' = "gone"
    /\ UNCHANGED <<mh_tcpLink, sent, answered, wire, got, bufVars, handled, how, cut>>

SetLink ==
    /\ Goto("app", "set", "send") /\ mh_tcpLink' = Link
    /\ UNCHANGED <<link, sent, answered, wire, got, bufVars, handled, how, cut>>

(* send_packet( get_link() ): the library swallows what is sent on no      *)
(* handle or on a link that is gone, and so it does from then on.          *)
SendRequestPast ==
    /\ pc["app"] = "send"
    /\ IF sent <= Len(Requests) /\ mh_tcpLink = Link /\ link = "open"
       THEN sent' = sent + 1 /\ UNCHANGED pc
       ELSE Goto("app", "send", "done") /\ UNCHANGED sent
    /\ UNCHANGED <<link, mh_tcpLink, answered, wire, got, bufVars, handled, how, cut>>
SendRequest ==
    /\ pc["app"] = "send"
    /\ IF sent < Len(Requests) /\ mh_tcpLink = Link /\ link = "open"
       THEN sent' = sent + 1 /\ UNCHANGED pc
       ELSE Goto("app", "send", "done") /\ UNCHANGED sent
    /\ UNCHANGED <<link, mh_tcpLink, answered, wire, got, bufVars, handled, how, cut>>

App == InitClient \/ Create \/ Connect \/ SetLink \/ SendRequest

-----------------------------------------------------------------------------
(* The server: TestClientHandle::on_ver_nego_req and on_link_auth_req.     *)
Answer(m) ==
    [msg_type |-> m.msg_type + MSG_TYPE_RESP_OFFSET, seq_id |-> m.seq_id, i_ret |-> 0,
     body |-> IF m.msg_type = IR_MONITOR_VER_NEGO_REQ THEN <<>>
              ELSE <<<<1>>, <<1>>, <<1>>, <<0, 0, 1, 1>>, <<5, 6>>>>]
Answers == [i \in 1..answered |-> Answer(Requests[i])]

Serve ==
    /\ answered < sent /\ link = "open"
    /\ answered' = answered + 1
    /\ wire' = wire \o WritePacket(Answer(Requests[answered + 1]))
    /\ UNCHANGED <<link, mh_tcpLink, sent, got, bufVars, pc, handled, how, cut>>

-----------------------------------------------------------------------------
(* The worker, through TcpIOCallbackFunc.                                  *)

(* RECEIVEDATA, first half: the bytes are read, and do_post_recv_buff      *)
(* drops what is not for its own link.                                     *)
Receive(n) ==
    /\ link = "open" /\ n \in 1..Len(wire)
    /\ IF mh_tcpLink = Link
       THEN Goto("worker", "idle", "store") /\ got' = n /\ UNCHANGED wire
       ELSE Goto("worker", "idle", "idle") /\ wire' = Drop(wire, n) /\ UNCHANGED got
    /\ UNCHANGED <<link, mh_tcpLink, sent, answered, bufVars, handled, how, cut>>

(* Second half, under the lock.  TcpIOCallbackFunc passes on what comes    *)
(* with END, which is nothing where the data came before it.               *)
Passed(data) == IF DataStatus = "STATUS_RECV_END" THEN data ELSE <<>>
Store ==
    /\ Goto("worker", "store", "post")
    /\ mv_recv_buf_old' = mv_recv_buf_old \o Passed(SubSeq(wire, 1, got))
    /\ wire' = Drop(wire, got) /\ got' = 0
    /\ UNCHANGED <<link, mh_tcpLink, sent, answered, mo_buff_sem, mv_recv_buf, named,
                   handled, how, cut>>
Post ==
    /\ Goto("worker", "post", "idle") /\ mo_buff_sem' = mo_buff_sem + 1
    /\ UNCHANGED <<link, mh_tcpLink, sent, answered, wire, got, mv_recv_buf_old, mv_recv_buf, named,
                   handled, how, cut>>

(* The link ends once it is in the epoll set, which connect does last: the *)
(* worker says DISCONNECTED, to which the client does nothing, and no      *)
(* CLOSED, or it finds the end in a read and says CLOSED.                  *)
Attached == link = "open" /\ pc["app"] \in {"set", "send", "done"}
Disconnect ==
    /\ Attached /\ Goto("worker", "idle", "idle")
    /\ link' = "gone" /\ how' = "disconnected"
    /\ UNCHANGED <<mh_tcpLink, sent, answered, wire, got, bufVars, handled, cut>>
ReadEnd ==
    /\ Attached /\ wire = <<>> /\ Goto("worker", "idle", "closed")
    /\ link' = "gone" /\ how' = "closed"
    /\ UNCHANGED <<mh_tcpLink, sent, answered, wire, got, bufVars, handled, cut>>
ClosedIgnored ==
    /\ Goto("worker", "closed", "idle")
    /\ how' = IF mh_tcpLink = Link THEN how ELSE "early"
    /\ UNCHANGED <<link, mh_tcpLink, sent, answered, wire, got, bufVars, handled, cut>>
Closed ==
    /\ Goto("worker", "closed", "idle")
    /\ mh_tcpLink' = IF mh_tcpLink = Link THEN INVALID_HTCPLINK ELSE mh_tcpLink
    /\ how' = IF mh_tcpLink = Link THEN how ELSE "early"
    /\ UNCHANGED <<link, sent, answered, wire, got, bufVars, handled, cut>>

Worker == (\E n \in 1..Len(wire) : Receive(n)) \/ Store \/ Post \/ Disconnect \/ ReadEnd \/ Closed

-----------------------------------------------------------------------------
(* handle_recv_data.                                                       *)

Poll ==
    /\ mo_buff_sem > 0 /\ mo_buff_sem' = mo_buff_sem - 1 /\ Goto("recv", "idle", "swap")
    /\ UNCHANGED <<link, mh_tcpLink, sent, answered, wire, got, mv_recv_buf_old, mv_recv_buf, named,
                   handled, how, cut>>

(* Nothing is scanned until there are bytes for a header.                  *)
SwapOver ==
    /\ mv_recv_buf' = mv_recv_buf_old /\ mv_recv_buf_old' = <<>>
    /\ Goto("recv", "swap",
            IF mv_recv_buf_old = <<>> \/ Len(mv_recv_buf') < HeadLen THEN "idle" ELSE "parse")
    /\ UNCHANGED <<link, mh_tcpLink, sent, answered, wire, got, mo_buff_sem, named, handled, how, cut>>
Swap ==
    /\ mv_recv_buf' = mv_recv_buf \o mv_recv_buf_old /\ mv_recv_buf_old' = <<>>
    /\ Goto("recv", "swap",
            IF mv_recv_buf_old = <<>> \/ Len(mv_recv_buf') < HeadLen THEN "idle" ELSE "parse")
    /\ UNCHANGED <<link, mh_tcpLink, sent, answered, wire, got, mo_buff_sem, named, handled, how, cut>>

(* The scan, up to the next packet or the bytes to be kept.  The handler   *)
(* is called with the handle the client has at that moment.                *)
Parse ==
    /\ pc["recv"] = "parse"
    /\ UNCHANGED <<link, mh_tcpLink, sent, answered, wire, got, mv_recv_buf_old, mo_buff_sem, handled, how>>
    /\ \E lucky \in BOOLEAN :
           LET rest == Drop(mv_recv_buf, Offset(mv_recv_buf, lucky))
               packet == rest # <<>> /\ Parses(rest, 0)
           IN  /\ mv_recv_buf' = rest
               /\ Goto("recv", "parse", IF packet THEN "handle" ELSE "idle")
               /\ named' = IF packet THEN mh_tcpLink ELSE named
               /\ cut' = (cut \/ (rest = <<>> /\ mv_recv_buf # <<>>
                                    /\ IsCut(mv_recv_buf, Len(mv_recv_buf) - 1)))

(* and compared there with the one it has by then.                         *)
Handle ==
    /\ Goto("recv", "handle", "parse")
    /\ handled' = IF named = mh_tcpLink THEN Append(handled, Handed(mv_recv_buf)) ELSE handled
    /\ mv_recv_buf' = Drop(mv_recv_buf, TotalLen(mv_recv_buf, 0))
    /\ UNCHANGED <<link, mh_tcpLink, sent, answered, wire, got, mv_recv_buf_old, mo_buff_sem, named, how, cut>>

HandleRecvData == Poll \/ Swap \/ Parse \/ Handle

Next == App \/ Serve \/ Worker \/ HandleRecvData

Spec == Init /\ [][Next]_vars

(* The server, its peer and the kernel may end the link or stay silent; a  *)
(* call, a callback and the thread go on, and the worker reads what came.  *)
FairSpec ==
    /\ Spec
    /\ WF_vars(App) /\ WF_vars(HandleRecvData)
    /\ WF_vars((\E n \in 1..Len(wire) : Receive(n)) \/ Store \/ Post \/ Closed)

-----------------------------------------------------------------------------
(* The client acts on the answers in order, each once and as it was meant, *)
(* the map included; once the link has ended, or a magic number was cut in *)
(* two, it may miss some.                                                  *)
AnswersInOrder ==
    IF link = "gone" \/ cut THEN IsPartOf(handled, Answers) ELSE IsPrefixOf(handled, Answers)

(* mh_tcpLink is stale only after DISCONNECTED, which on_tcp_disconnected  *)
(* leaves without effect, or where CLOSED overtook set_link.               *)
HandleForgotten ==
    link = "gone" /\ mh_tcpLink = Link =>
        how \in {"disconnected", "early"} \/ pc["worker"] = "closed"

(* An answer that the server has sent is acted on, because set_link comes  *)
(* before the first request; unless the link ends or a magic number is cut.*)
Answered ==
    \A n \in 1..Len(Requests) : answered >= n ~> Len(handled) >= n \/ link = "gone" \/ cut
=============================================================================
