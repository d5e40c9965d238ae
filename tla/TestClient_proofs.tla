------------------------- MODULE TestClient_proofs -------------------------
(***************************************************************************)
(* Proofs about TestClient: when the client may be left with the handle of *)
(* a link that is gone, its types, and that it acts on the server's        *)
(* answers in their order, each once and as it was meant.                  *)
(***************************************************************************)
EXTENDS TestClient, Framing_proofs

(* The part of the types that the argument needs.                          *)
ControlTypes ==
    /\ link \in {"none", "open", "gone"} /\ mh_tcpLink \in {INVALID_HTCPLINK, Link}
    /\ pc \in [Threads -> {"none", "idle", "create", "connect", "set", "send", "done",
                           "store", "post", "closed", "swap", "parse", "handle"}]
    /\ how \in {"no", "early", "closed", "disconnected"}

(* Where the threads are; before set_link the client has no handle; a link *)
(* is only ended by the worker once connect has put it into the epoll set; *)
(* a read that found the end is followed by CLOSED, and CLOSED that did    *)
(* not come early found set_link done.                                     *)
InPlace ==
    /\ pc["worker"] \in {"idle", "store", "post", "closed"}
    /\ pc["app"] \in {"none", "create", "connect", "set", "send", "done"}
SetOnce == pc["app"] \in {"none", "create", "connect", "set"} => mh_tcpLink = INVALID_HTCPLINK
ConnectFirst ==
    /\ pc["app"] \in {"none", "create", "connect"} => link # "gone"
    /\ pc["app"] \in {"none", "create"} => link = "none"
EndIsKnown ==
    /\ pc["worker"] = "closed" => link = "gone" /\ how = "closed"
    /\ link = "gone" /\ how = "no" => pc["app"] = "done" /\ mh_tcpLink = INVALID_HTCPLINK
    /\ link # "gone" => how = "no"
    /\ how = "closed" => pc["worker"] = "closed" \/ pc["app"] \in {"send", "done"}
HandleIsKnown == ControlTypes /\ InPlace /\ SetOnce /\ ConnectFirst /\ EndIsKnown /\ HandleForgotten

LEMMA KnownInit == Init => HandleIsKnown
  BY DEF Init, HandleIsKnown, ControlTypes, InPlace, SetOnce, ConnectFirst, EndIsKnown,
         HandleForgotten, Threads, INVALID_HTCPLINK, Link

LEMMA KnownStep == HandleIsKnown /\ [Next]_vars => HandleIsKnown'
<1> SUFFICES ASSUME HandleIsKnown, [Next]_vars PROVE HandleIsKnown'
  OBVIOUS
<1> USE DEF HandleIsKnown, ControlTypes, InPlace, SetOnce, ConnectFirst, EndIsKnown,
            HandleForgotten, Threads, INVALID_HTCPLINK, Link
<1>1. CASE UNCHANGED vars
  BY <1>1 DEF vars
<1>2. CASE App
  <2>1. CASE InitClient
    BY <2>1 DEF InitClient
  <2>2. CASE Create
    BY <2>2 DEF Create, Goto
  <2>3. CASE Connect
    BY <2>3 DEF Connect, Goto
  <2>4. CASE SetLink
    BY <2>4 DEF SetLink, Goto
  <2>5. CASE SendRequest
    BY <2>5 DEF SendRequest, Goto
  <2> QED
    BY <1>2, <2>1, <2>2, <2>3, <2>4, <2>5 DEF App
<1>3. CASE Serve
  BY <1>3 DEF Serve
<1>4. CASE Worker
  <2>1. CASE \E n \in 1..Len(wire) : Receive(n)
    BY <2>1 DEF Receive, Goto
  <2>2. CASE Store \/ Post
    BY <2>2 DEF Store, Post, Goto
  <2>3. CASE Disconnect
    BY <2>3 DEF Disconnect, Attached, Goto
  <2>4. CASE ReadEnd
    BY <2>4 DEF ReadEnd, Attached, Goto
  <2>5. CASE Closed
    <3>1. /\ pc["worker"] = "closed" /\ pc' = [pc EXCEPT !["worker"] = "idle"] /\ link' = link
          /\ mh_tcpLink' = INVALID_HTCPLINK
          /\ how' = IF mh_tcpLink = Link THEN how ELSE "early"
      BY <2>5 DEF Closed, Goto
    <3>2. pc'["worker"] = "idle" /\ pc'["app"] = pc["app"]
      BY <3>1
    <3> QED
      BY <3>1, <3>2
  <2> QED
    BY <1>4, <2>1, <2>2, <2>3, <2>4, <2>5 DEF Worker
<1>5. CASE HandleRecvData
  BY <1>5 DEF HandleRecvData, Poll, Swap, Parse, Handle, Goto
<1> QED
  BY <1>1, <1>2, <1>3, <1>4, <1>5 DEF Next

(* The client is left with a handle of a link that is gone in two cases    *)
(* only: on_tcp_disconnected, which does not forget it, or CLOSED said     *)
(* before set_link.  However many requests it sends and whatever arrives.  *)
THEOREM HandleIsForgotten == Spec => []HandleForgotten
<1>1. HandleIsKnown => HandleForgotten
  BY DEF HandleIsKnown
<1> QED
  BY <1>1, KnownInit, KnownStep, PTL DEF Spec

-----------------------------------------------------------------------------
(* What the server answers.                                                *)

(* An answer is one of the messages the codec carries, and its only magic  *)
(* number is at its head: of what follows, only seq_id may be like the     *)
(* first half, and i_ret, which is 0, comes after it.                      *)
LEMMA AnswerIsClean ==
    ASSUME NEW r \in Message,
           r.msg_type \in {IR_MONITOR_VER_NEGO_REQ, IR_MONITOR_LINK_AUTH_REQ}
    PROVE  Clean(Answer(r)) /\ Answer(r) \in Message
<1> DEFINE m == Answer(r)
<1>1. m.msg_type = r.msg_type + 128 /\ m.seq_id = r.seq_id /\ m.i_ret = 0 /\ r.seq_id \in Nat
  BY DEF Answer, Message, MSG_TYPE_RESP_OFFSET
<1>2. CASE r.msg_type = IR_MONITOR_VER_NEGO_REQ
  <2>1. m.body = <<>> /\ m.msg_type = IR_MONITOR_VER_NEGO_RESP
    BY <1>1, <1>2 DEF Answer, IR_MONITOR_VER_NEGO_RESP, MSG_TYPE_RESP_OFFSET
  <2>2. m \in Message
    <3>0. <<>> \in Seq(Seq(Nat))
      OBVIOUS
    <3>1. m.body \in Seq(Seq(Nat)) /\ m.msg_type \in Nat
      BY <1>1, <1>2, <2>1, <3>0 DEF IR_MONITOR_VER_NEGO_REQ
    <3>2. m = [msg_type |-> m.msg_type, seq_id |-> m.seq_id, i_ret |-> m.i_ret, body |-> m.body]
      BY DEF Answer
    <3> HIDE DEF m
    <3> QED
      BY <1>1, <3>1, <3>2 DEF Message
  <2> HIDE DEF m
  <2>3. PackBody(IR_MONITOR_VER_NEGO_RESP, m.body) = <<>>
    BY PackBodyOf
  <2>4. <<>> \in Seq(Nat) /\ PackBody(m.msg_type, m.body) = <<>>
    BY <2>1, <2>3
  <2> DEFINE c == WritePacket(m)
  <2>5. /\ c \in Seq(Nat) /\ Len(c) = HeadLen + Len(<<>>)
        /\ c[LenAt + 1] = m.seq_id /\ c[LenAt + 2] = m.i_ret /\ c[TypeAt] = m.msg_type
        /\ c[2] = MSG_HEAD_MAGIC[2] /\ c[LenAt] = Len(c)
    BY <2>2, <2>4, PacketCells
  <2> HIDE DEF c
  <2>6. /\ Len(c) = 6 /\ c[2] = 42 /\ c[3] = 129 /\ c[4] = 6 /\ c[6] = 0
    BY <1>1, <1>2, <2>5, EmptySeq
       DEF HeadLen, LenAt, TypeAt, MSG_HEAD_MAGIC, IR_MONITOR_VER_NEGO_REQ
  <2>7. ASSUME NEW j \in 2..(Len(c) - 1), c[j] = 162, c[j + 1] = 42 PROVE FALSE
    <3>1. j = 2 \/ j = 3 \/ j = 4 \/ j = 5
      BY <2>6
    <3>2. CASE j = 5
      BY <2>6, <2>7, <3>2
    <3> QED
      BY <2>6, <2>7, <3>1, <3>2
  <2>8. Writable(m)
    BY <2>1, <2>2 DEF Writable, VerRespForm
  <2>9. Clean(m)
    BY <2>7, <2>8 DEF Clean, c, MSG_HEAD_MAGIC
  <2> QED
    BY <2>2, <2>9 DEF m
<1>3. CASE r.msg_type = IR_MONITOR_LINK_AUTH_REQ
  <2> DEFINE map == <<0, 0, 1, 1>>
             s == <<5, 6>>
             body == <<<<1>>, <<1>>, <<1>>, map, s>>
  <2>1. m.body = body /\ m.msg_type = IR_MONITOR_LINK_AUTH_RESP
    BY <1>1, <1>3, TypesDiffer DEF Answer, IR_MONITOR_LINK_AUTH_RESP, MSG_TYPE_RESP_OFFSET
  <2>2. map \in Seq(Nat) /\ Len(map) = 2 * 2 /\ s \in Seq(Nat) /\ Len(s) = 2
        /\ map[1] = 0 /\ map[2] = 0 /\ map[3] = 1 /\ map[4] = 1 /\ s[1] = 5 /\ s[2] = 6
    OBVIOUS
  <2>3. <<1>> \in Seq(Nat)
    OBVIOUS
  <2>4. m \in Message
    <3>1. body \in Seq(Seq(Nat)) /\ m.msg_type \in Nat
      <4>1. m.msg_type \in Nat
        BY <1>1, <1>3 DEF IR_MONITOR_LINK_AUTH_REQ
      <4> HIDE DEF map, s, m
      <4>2. <<<<1>>, <<1>>, <<1>>, map, s>> \in Seq(Seq(Nat))
        BY <2>2, <2>3
      <4> QED
        BY <4>1, <4>2
    <3>2. m = [msg_type |-> m.msg_type, seq_id |-> m.seq_id, i_ret |-> m.i_ret, body |-> m.body]
      BY DEF Answer
    <3> HIDE DEF m, body
    <3> QED
      BY <1>1, <2>1, <3>1, <3>2 DEF Message
  <2>5. InOrder(map, 2)
    <3> HIDE DEF map
    <3>1. ASSUME NEW d \in 1..2, NEW e \in 1..2, d < e PROVE map[2 * d - 1] < map[2 * e - 1]
      <4>1. d = 1 /\ e = 2
        BY <3>1
      <4>2. 2 * d - 1 = 1 /\ 2 * e - 1 = 3
        BY <4>1
      <4> QED
        BY <2>2, <4>2
    <3> QED
      BY <2>2, <3>1 DEF InOrder
  <2> HIDE DEF m, map, s
  <2>6. Writable(m)
    <3>1. AuthRespForm(m)
      <4>1. 1 \in Nat /\ 2 \in Nat /\ InOrder(map, 2)
            /\ m.body = <<<<1>>, <<1>>, <<1>>, map, s>>
        BY <2>1, <2>5
      <4> QED
        BY <2>1, <2>2, <4>1 DEF AuthRespForm
    <3> QED
      BY <2>4, <3>1 DEF Writable
  <2> DEFINE b == PackBody(m.msg_type, m.body)
             c == WritePacket(m)
  <2>7. b = <<1>> \o <<1>> \o PackLong(1) \o PackMap(map) \o PackString(s)
    <3>1. PackBody(IR_MONITOR_LINK_AUTH_RESP, body)
             = body[1] \o body[2] \o PackLong(body[3][1]) \o PackMap(body[4]) \o PackString(body[5])
      BY PackBodyOf
    <3>2. body[1] = <<1>> /\ body[2] = <<1>> /\ body[3] = <<1>> /\ <<1>>[1] = 1
          /\ body[4] = map /\ body[5] = s
      OBVIOUS
    <3> HIDE DEF body
    <3> QED
      BY <2>1, <3>1, <3>2
  <2> HIDE DEF b
  <2>8. RespCells(b, 1, 1, 1, 2, map, s)
    <3>1. 1 \in Nat /\ 2 \in Nat
      OBVIOUS
    <3> QED
      BY <2>2, <2>7, <3>1, AuthRespCells, Zenon
  <2>9. /\ b \in Seq(Nat) /\ Len(b) = 14
        /\ b[1] = 1 /\ b[2] = 1 /\ b[3] = 0 /\ b[4] = 1 /\ b[5] = 2
        /\ b[6] = 0 /\ b[7] = 0 /\ b[8] = 0 /\ b[9] = 1 /\ b[10] = 0 /\ b[11] = 1
        /\ b[12] = 2 /\ b[13] = 5 /\ b[14] = 6
    <3>1. /\ b \in Seq(Nat) /\ Len(b) = 6 + 3 * 2 + Len(s)
          /\ b[1] = 1 /\ b[2] = 1 /\ b[3] = 1 \div 4 /\ b[4] = 1 % 4 /\ b[5] = 2
          /\ \A e \in 1..2 : /\ b[3 * e + 3] = Key(map, e)
                             /\ b[3 * e + 4] = map[2 * e] \div 4
                             /\ b[3 * e + 5] = map[2 * e] % 4
          /\ b[6 + 3 * 2] = Len(s)
          /\ \A j \in 1..Len(s) : b[6 + 3 * 2 + j] = s[j]
      BY <2>8 DEF RespCells
    <3>2. /\ b[3 * 1 + 3] = Key(map, 1) /\ b[3 * 1 + 4] = map[2 * 1] \div 4
          /\ b[3 * 1 + 5] = map[2 * 1] % 4
          /\ b[3 * 2 + 3] = Key(map, 2) /\ b[3 * 2 + 4] = map[2 * 2] \div 4
          /\ b[3 * 2 + 5] = map[2 * 2] % 4
      BY <3>1
    <3>3. Key(map, 1) = 0 /\ Key(map, 2) = 1
      BY <2>2 DEF Key
    <3>4. b[6 + 3 * 2 + 1] = s[1] /\ b[6 + 3 * 2 + 2] = s[2]
      BY <2>2, <3>1
    <3>5. b[6] = 0 /\ b[7] = 0 /\ b[8] = 0
      BY <2>2, <3>2, <3>3
    <3>6. b[9] = 1 /\ b[10] = 0 /\ b[11] = 1
      BY <2>2, <3>2, <3>3
    <3>7. b[12] = 2 /\ b[13] = 5 /\ b[14] = 6
      BY <2>2, <3>1, <3>4
    <3>8. b \in Seq(Nat) /\ Len(b) = 14 /\ b[1] = 1 /\ b[2] = 1 /\ b[3] = 0 /\ b[4] = 1 /\ b[5] = 2
      BY <2>2, <3>1
    <3> QED
      BY <3>5, <3>6, <3>7, <3>8
  <2>10. /\ c \in Seq(Nat) /\ Len(c) = HeadLen + Len(b)
         /\ c[LenAt + 1] = m.seq_id /\ c[LenAt + 2] = m.i_ret /\ c[TypeAt] = m.msg_type
         /\ c[2] = MSG_HEAD_MAGIC[2] /\ c[LenAt] = Len(c)
         /\ \A j \in 1..Len(b) : c[HeadLen + j] = b[j]
    BY <2>4, <2>9, PacketCells DEF b
  <2> HIDE DEF c
  <2>11. /\ Len(c) = 20 /\ c[2] = 42 /\ c[3] = 130 /\ c[4] = 20 /\ c[6] = 0
    BY <1>1, <1>3, <2>9, <2>10
       DEF HeadLen, LenAt, TypeAt, MSG_HEAD_MAGIC, IR_MONITOR_LINK_AUTH_REQ, m
  <2>12. ASSUME NEW j \in 1..14 PROVE c[6 + j] # 162
    <3>1. c[6 + j] = b[j]
      BY <2>9, <2>10 DEF HeadLen
    <3>2. \/ j = 1 \/ j = 2 \/ j = 3 \/ j = 4 \/ j = 5 \/ j = 6 \/ j = 7 \/ j = 8 \/ j = 9
          \/ j = 10 \/ j = 11 \/ j = 12 \/ j = 13 \/ j = 14
      OBVIOUS
    <3> QED
      BY <2>9, <3>1, <3>2
  <2>13. ASSUME NEW j \in 2..(Len(c) - 1), c[j] = 162, c[j + 1] = 42 PROVE FALSE
    <3>1. j = 2 \/ j = 3 \/ j = 4 \/ j = 5 \/ j = 6 \/ j \in 7..19
      BY <2>11
    <3>2. CASE j = 5
      BY <2>11, <2>13, <3>2
    <3>3. CASE j \in 7..19
      <4>1. j - 6 \in 1..14 /\ 6 + (j - 6) = j
        BY <3>3
      <4> QED
        BY <2>12, <2>13, <4>1
    <3> QED
      BY <2>11, <2>13, <3>1, <3>2, <3>3
  <2>14. Clean(m)
    BY <2>6, <2>13 DEF Clean, c, MSG_HEAD_MAGIC
  <2> QED
    BY <2>4, <2>14 DEF m
<1> QED
  BY <1>2, <1>3

-----------------------------------------------------------------------------
(* The answers that the client acts on.                                    *)

(* What the client holds, with what the server has sent and the worker has *)
(* not handed on, is the end of the stream S of all answers, from pos on.       *)
Held(S, pos) ==
    /\ Shows(S, pos, mv_recv_buf)
    /\ Shows(S, pos + Len(mv_recv_buf), mv_recv_buf_old)
    /\ Shows(S, pos + Len(mv_recv_buf) + Len(mv_recv_buf_old), wire)
    /\ pos + Len(mv_recv_buf) + Len(mv_recv_buf_old) + Len(wire) = Len(S)

(* In handle_recv_data's call of the handler pos is the head of a packet.  *)
AtPacket(st, pos) ==
    \E i \in 1..answered : pos = st[i] /\ Len(WritePacket(Answers[i])) <= Len(mv_recv_buf)

(* What it has acted on are answers before pos, in their order; and all of *)
(* them if the link is there and no magic number was cut.                  *)
Chosen(st, pos) ==
    \E f \in [1..Len(handled) -> 1..answered] :
        \A i \in 1..Len(handled) :
            /\ handled[i] = Answers[f[i]] /\ st[f[i]] < pos
            /\ \A j \in 1..Len(handled) : i < j => f[i] < f[j]
AllSoFar(st, pos) ==
    /\ Len(handled) <= answered /\ pos = st[Len(handled) + 1]
    /\ \A i \in 1..Len(handled) : handled[i] = Answers[i]

Kept(S, st, pos) ==
    /\ Laid(S, st, Answers, answered) /\ Held(S, pos)
    /\ pc["recv"] = "handle" => AtPacket(st, pos)
    /\ Chosen(st, pos)
    /\ link # "gone" /\ ~cut => AllSoFar(st, pos)

(* With data that comes before END the client takes nothing.               *)
Silent ==
    /\ mv_recv_buf = <<>> /\ mv_recv_buf_old = <<>> /\ handled = <<>> /\ ~cut
    /\ pc["recv"] \in {"none", "idle", "swap"}

(* Requests are sent after set_link, so the client has its handle while    *)
(* the link is there, and the handler is called with that handle.          *)
LinkKnown ==
    /\ pc["app"] \in {"none", "create", "connect", "set"} => sent = 0
    /\ link = "open" /\ (pc["app"] = "send" \/ sent > 0) => mh_tcpLink = Link
    /\ pc["recv"] = "handle" => answered > 0
    /\ pc["recv"] = "handle" /\ link # "gone" => named = mh_tcpLink
GotFromWire == pc["worker"] = "store" => got \in 1..Len(wire)
RecvAt == pc["recv"] \in {"none", "idle", "swap", "parse", "handle"}

AnswersKept ==
    IF DataStatus = "STATUS_RECV_END" THEN \E S, st, pos : Kept(S, st, pos) ELSE Silent
ClientInv == TypeOK /\ HandleIsKnown /\ RecvAt /\ GotFromWire /\ LinkKnown /\ AnswersKept

LEMMA RequestsKnown ==
    /\ Requests \in Seq(Message) /\ Len(Requests) \in Nat /\ DOMAIN Requests = 1..Len(Requests)
    /\ \A i \in 1..Len(Requests) :
           Requests[i] \in Message /\ Clean(Answer(Requests[i])) /\ Answer(Requests[i]) \in Message
    /\ DataStatus \in {"STATUS_RECV_MIDDLE", "STATUS_RECV_END"}
<1>1. Requests \in Seq(Message)
  BY TestClientAssumption
<1>2. Len(Requests) \in Nat /\ DOMAIN Requests = 1..Len(Requests)
  BY <1>1, LenProperties
<1>3. ASSUME NEW i \in 1..Len(Requests)
      PROVE  Requests[i] \in Message /\ Clean(Answer(Requests[i])) /\ Answer(Requests[i]) \in Message
  <2>1. Requests[i] \in Message
    BY <1>1, ElementOfSeq
  <2>2. Requests[i].msg_type \in {IR_MONITOR_VER_NEGO_REQ, IR_MONITOR_LINK_AUTH_REQ}
    BY <1>2, TestClientAssumption
  <2> QED
    BY <2>1, <2>2, AnswerIsClean
<1> QED
  BY <1>1, <1>2, <1>3, TestClientAssumption

(* What the client hands on at a packet is that packet's answer.           *)
LEMMA HandedIs ==
    ASSUME NEW S, NEW st, NEW pos, Kept(S, st, pos), TypeOK, pc["recv"] = "handle"
    PROVE  \E i \in 1..answered :
               /\ pos = st[i] /\ Handed(mv_recv_buf) = Answers[i] /\ Answers[i] \in Message
               /\ TotalLen(mv_recv_buf, 0) \in 1..Len(mv_recv_buf)
               /\ st[i + 1] = st[i] + TotalLen(mv_recv_buf, 0)
<1>1. Laid(S, st, Answers, answered) /\ Held(S, pos) /\ AtPacket(st, pos)
  BY DEF Kept
<1>2. PICK i \in 1..answered : pos = st[i] /\ Len(WritePacket(Answers[i])) <= Len(mv_recv_buf)
  BY <1>1 DEF AtPacket
<1>3. answered \in Nat /\ Shows(S, st[i], mv_recv_buf) /\ mv_recv_buf \in Seq(Nat)
  BY <1>1, <1>2 DEF Laid, Held, Shows
<1> DEFINE n == Len(WritePacket(Answers[i]))
<1>4. n \in Nat /\ 6 <= n /\ Answers[i] \in Message /\ st[i + 1] = st[i] + n
  <2>1. Writable(Answers[i]) /\ st[i + 1] = st[i] + n
    BY <1>1 DEF Laid, Clean
  <2> QED
    BY <2>1, PacketHead
<1>5. n <= Len(mv_recv_buf) /\ Len(mv_recv_buf) \in Nat
  BY <1>2, <1>3, LenProperties
<1>6. 6 <= Len(mv_recv_buf)
  <2> HIDE DEF n
  <2> QED
    BY <1>4, <1>5
<1>7. TotalLen(mv_recv_buf, 0) = n /\ Handed(mv_recv_buf) = Answers[i]
  BY <1>1, <1>3, <1>5, <1>6, PacketAhead
<1> HIDE DEF n
<1>8. n \in 1..Len(mv_recv_buf)
  BY <1>4, <1>5
<1> QED
  BY <1>2, <1>4, <1>7, <1>8

(* A step that leaves the buffers alone, and does not open the link.       *)
LEMMA KeptOver ==
    ASSUME NEW S, NEW st, NEW pos, Kept(S, st, pos),
           answered' = answered, wire' = wire, mv_recv_buf' = mv_recv_buf,
           mv_recv_buf_old' = mv_recv_buf_old, handled' = handled, cut' = cut,
           link' # "gone" => link # "gone",
           pc'["recv"] = "handle" => pc["recv"] = "handle"
    PROVE  Kept(S, st, pos)'
<1>1. Answers' = Answers
  BY DEF Answers
<1>2. Laid(S, st, Answers, answered) /\ Held(S, pos) /\ Chosen(st, pos)
  BY DEF Kept
<1>3. Laid(S, st, Answers', answered')
  BY <1>1, <1>2
<1>4. Held(S, pos)'
  BY <1>2 DEF Held
<1>5. Chosen(st, pos)'
  BY <1>1, <1>2 DEF Chosen
<1>6. AtPacket(st, pos) => AtPacket(st, pos)'
  BY <1>1 DEF AtPacket
<1>7. AllSoFar(st, pos) => AllSoFar(st, pos)'
  BY <1>1 DEF AllSoFar
<1> QED
  BY <1>3, <1>4, <1>5, <1>6, <1>7 DEF Kept

LEMMA InvInit == Init => ClientInv
<1> SUFFICES ASSUME Init PROVE ClientInv
  OBVIOUS
<1>1. TypeOK
  <2>1. <<>> \in Seq(Cell) /\ <<>> \in Seq(Message)
    OBVIOUS
  <2>2. pc \in [Threads -> {"none", "idle", "create", "connect", "set", "send", "done",
                            "store", "post", "closed", "swap", "parse", "handle"}]
    BY DEF Init, Threads
  <2>3. sent \in 0..Len(Requests) /\ answered \in 0..sent /\ mo_buff_sem \in Nat
    BY RequestsKnown DEF Init
  <2>4. wire \in Seq(Cell) /\ mv_recv_buf_old \in Seq(Cell) /\ mv_recv_buf \in Seq(Cell)
        /\ handled \in Seq(Message)
    BY <2>1 DEF Init
  <2> QED
    BY <2>2, <2>3, <2>4 DEF Init, TypeOK, INVALID_HTCPLINK, Link
<1>2. RecvAt /\ GotFromWire /\ LinkKnown
  BY DEF Init, RecvAt, GotFromWire, LinkKnown, Threads
<1>3. AnswersKept
  <2>1. CASE DataStatus = "STATUS_RECV_END"
    <3>1. PICK st : Laid(<<>>, st, Answers, 0) /\ st[1] = 0
      BY LaidEmpty
    <3>2. Shows(<<>>, 0, <<>>) /\ Len(<<>>) = 0
      BY DEF Shows
    <3>3. Held(<<>>, 0)
      <4>1. Shows(<<>>, 0 + Len(<<>>), <<>>) /\ Shows(<<>>, 0 + Len(<<>>) + Len(<<>>), <<>>)
            /\ 0 + Len(<<>>) + Len(<<>>) + Len(<<>>) = Len(<<>>)
        BY <3>2
      <4> QED
        BY <3>2, <4>1 DEF Held, Init
    <3>4. Chosen(st, 0)
      <4>1. 1..Len(<<>>) = {}
        BY <3>2
      <4>2. [i \in {} |-> 0] \in [{} -> 1..0]
        OBVIOUS
      <4> QED
        BY <4>1, <4>2 DEF Chosen, Init
    <3>5. AllSoFar(st, 0)
      <4>1. Len(<<>>) + 1 = 1 /\ Len(<<>>) <= 0 /\ \A i \in 1..Len(<<>>) : FALSE
        BY <3>2
      <4> QED
        BY <3>1, <4>1 DEF AllSoFar, Init
    <3>6. pc["recv"] # "handle" /\ answered = 0
      BY DEF Init, Threads
    <3>7. Kept(<<>>, st, 0)
      BY <3>1, <3>3, <3>4, <3>5, <3>6 DEF Kept
    <3> QED
      BY <2>1, <3>7 DEF AnswersKept
  <2>2. CASE DataStatus # "STATUS_RECV_END"
    BY <2>2 DEF AnswersKept, Silent, Init, Threads
  <2> QED
    BY <2>1, <2>2
<1> QED
  BY <1>1, <1>2, <1>3, KnownInit DEF ClientInv

LEMMA TypeStep ==
    ASSUME ClientInv, [Next]_vars
    PROVE  TypeOK' /\ RecvAt' /\ GotFromWire'
<1>1. /\ TypeOK /\ RecvAt /\ GotFromWire /\ HandleIsKnown
      /\ pc \in [Threads -> {"none", "idle", "create", "connect", "set", "send", "done",
                             "store", "post", "closed", "swap", "parse", "handle"}]
      /\ Len(Requests) \in Nat
      /\ wire \in Seq(Nat) /\ mv_recv_buf_old \in Seq(Nat) /\ mv_recv_buf \in Seq(Nat)
  BY RequestsKnown DEF ClientInv, TypeOK, Cell
<1>2. HandleIsKnown'
  BY <1>1, KnownStep
<1>3. RecvAt'
  <2> USE DEF RecvAt, Goto, Threads
  <2>1. CASE App
    BY <1>1, <2>1 DEF App, InitClient, Create, Connect, SetLink, SendRequest
  <2>2. CASE Serve \/ UNCHANGED vars
    BY <1>1, <2>2 DEF Serve, vars
  <2>3. CASE Worker
    BY <1>1, <2>3 DEF Worker, Receive, Store, Post, Disconnect, ReadEnd, Closed
  <2>4. CASE HandleRecvData
    BY <1>1, <2>4 DEF HandleRecvData, Poll, Swap, Parse, Handle
  <2> QED
    BY <2>1, <2>2, <2>3, <2>4 DEF Next
<1>4. ControlTypes' /\ named' \in {INVALID_HTCPLINK, Link} /\ cut' \in BOOLEAN
  <2>1. ControlTypes'
    BY <1>2 DEF HandleIsKnown
  <2>2. named' = named \/ named' = mh_tcpLink
    BY DEF Next, App, InitClient, Create, Connect, SetLink, SendRequest, Serve, Worker, Receive,
           Store, Post, Disconnect, ReadEnd, Closed, HandleRecvData, Poll, Swap, Parse, Handle, vars, bufVars
  <2>3. cut' \in BOOLEAN
    <3>1. CASE Parse
      BY <3>1 DEF Parse
    <3>2. CASE ~Parse
      <4>1. cut' = cut
        BY <3>2
           DEF Next, App, InitClient, Create, Connect, SetLink, SendRequest, Serve, Worker, Receive,
               Store, Post, Disconnect, ReadEnd, Closed, HandleRecvData, Poll, Swap, Handle, vars, bufVars
      <4> QED
        BY <1>1, <4>1 DEF TypeOK
    <3> QED
      BY <3>1, <3>2
  <2> QED
    BY <1>1, <2>1, <2>2, <2>3 DEF TypeOK
<1>5. sent' \in 0..Len(Requests) /\ answered' \in 0..sent'
  <2>1. sent \in 0..Len(Requests) /\ answered \in 0..sent
    BY <1>1 DEF TypeOK
  <2>2. CASE SendRequest
    BY <1>1, <2>1, <2>2 DEF SendRequest
  <2>3. CASE Serve
    BY <1>1, <2>1, <2>3 DEF Serve
  <2>4. CASE ~SendRequest /\ ~Serve
    <3>1. sent' = sent /\ answered' = answered
      BY <2>4 DEF Next, App, InitClient, Create, Connect, SetLink, Worker, Receive, Store, Post, Disconnect,
                  ReadEnd, Closed, HandleRecvData, Poll, Swap, Parse, Handle, vars, bufVars
    <3> QED
      BY <2>1, <3>1
  <2> QED
    BY <2>2, <2>3, <2>4
<1>6. mo_buff_sem' \in Nat
  <2>1. mo_buff_sem \in Nat
    BY <1>1 DEF TypeOK
  <2>2. mo_buff_sem' = mo_buff_sem \/ mo_buff_sem' = mo_buff_sem + 1
        \/ (mo_buff_sem > 0 /\ mo_buff_sem' = mo_buff_sem - 1)
    BY DEF Next, App, InitClient, Create, Connect, SetLink, SendRequest, Serve, Worker, Receive,
           Store, Post, Disconnect, ReadEnd, Closed, HandleRecvData, Poll, Swap, Parse, Handle, vars, bufVars
  <2> QED
    BY <2>1, <2>2
<1>7. wire' \in Seq(Nat)
  <2>1. CASE Serve
    <3>1. answered + 1 \in 1..Len(Requests)
      BY <1>1, <2>1 DEF Serve, TypeOK
    <3>2. WritePacket(Answer(Requests[answered + 1])) \in Seq(Nat)
      BY <3>1, RequestsKnown, PacketHead DEF Clean
    <3>3. wire' = wire \o WritePacket(Answer(Requests[answered + 1]))
      BY <2>1 DEF Serve
    <3> QED
      BY <1>1, <3>2, <3>3, ConcatCells
  <2>2. CASE \E n \in 1..Len(wire) : Receive(n)
    <3>1. PICK n \in 1..Len(wire) : wire' \in {wire, Drop(wire, n)}
      BY <2>2 DEF Receive
    <3>2. n \in 0..Len(wire)
      OBVIOUS
    <3> QED
      BY <1>1, <3>1, <3>2, DropIs
  <2>3. CASE Store
    <3>1. got \in 0..Len(wire) /\ wire' = Drop(wire, got)
      BY <1>1, <2>3 DEF Store, Goto, GotFromWire
    <3> QED
      BY <1>1, <3>1, DropIs
  <2>4. CASE ~Serve /\ ~Store /\ ~(\E n \in 1..Len(wire) : Receive(n))
    <3>1. wire' = wire
      BY <2>4 DEF Next, App, InitClient, Create, Connect, SetLink, SendRequest, Worker, Post,
                  Disconnect, ReadEnd, Closed, HandleRecvData, Poll, Swap, Parse, Handle, vars, bufVars
    <3> QED
      BY <1>1, <3>1
  <2> QED
    BY <2>1, <2>2, <2>3, <2>4
<1>8. mv_recv_buf_old' \in Seq(Nat)
  <2>1. CASE Store
    <3>1. got \in 1..Len(wire)
      BY <1>1, <2>1 DEF Store, Goto, GotFromWire
    <3>2. Passed(SubSeq(wire, 1, got)) \in Seq(Nat)
      <4>1. SubSeq(wire, 1, got) \in Seq(Nat)
        BY <1>1, <3>1
      <4> QED
        BY <4>1 DEF Passed
    <3>3. mv_recv_buf_old \o Passed(SubSeq(wire, 1, got)) \in Seq(Nat)
      BY <1>1, <3>2, ConcatCells
    <3> QED
      BY <2>1, <3>3 DEF Store
  <2>2. CASE ~Store
    <3>1. mv_recv_buf_old' = mv_recv_buf_old \/ mv_recv_buf_old' = <<>>
      BY <2>2 DEF Next, App, InitClient, Create, Connect, SetLink, SendRequest, Serve, Worker, Receive,
                  Store, Post, Disconnect, ReadEnd, Closed, HandleRecvData, Poll, Swap, Parse, Handle, vars,
                  bufVars
    <3>2. <<>> \in Seq(Nat)
      OBVIOUS
    <3> QED
      BY <1>1, <3>1, <3>2, Zenon
  <2> QED
    BY <2>1, <2>2
<1>9. mv_recv_buf' \in Seq(Nat) /\ handled' \in Seq(Message)
  <2>1. CASE Swap
    BY <1>1, <2>1, ConcatCells DEF Swap, TypeOK
  <2>2. CASE Parse
    <3>1. PICK lucky \in BOOLEAN : mv_recv_buf' = Drop(mv_recv_buf, Offset(mv_recv_buf, lucky))
      BY <2>2 DEF Parse
    <3>2. Offset(mv_recv_buf, lucky) \in 0..Len(mv_recv_buf)
      BY <1>1, OffsetIs
    <3>3. mv_recv_buf' \in Seq(Nat)
      BY <1>1, <3>1, <3>2, DropIs
    <3> QED
      BY <1>1, <2>2, <3>3 DEF Parse, TypeOK
  <2>3. CASE Handle
    <3>1. /\ pc["recv"] = "handle" /\ mv_recv_buf' = Drop(mv_recv_buf, TotalLen(mv_recv_buf, 0))
          /\ handled' = Append(handled, Handed(mv_recv_buf)) \/ handled' = handled
      BY <2>3 DEF Handle, Goto
    <3>2. PICK S, st, pos : Kept(S, st, pos)
      BY <3>1 DEF ClientInv, AnswersKept, Silent
    <3>3. /\ Handed(mv_recv_buf) \in Message
          /\ TotalLen(mv_recv_buf, 0) \in 0..Len(mv_recv_buf)
      <4>1. PICK i \in 1..answered :
                /\ Handed(mv_recv_buf) = Answers[i] /\ Answers[i] \in Message
                /\ TotalLen(mv_recv_buf, 0) \in 1..Len(mv_recv_buf)
        BY <1>1, <3>1, <3>2, HandedIs
      <4> QED
        BY <4>1
    <3>4. mv_recv_buf' \in Seq(Nat)
      BY <1>1, <3>1, <3>3, DropIs
    <3>5. handled \in Seq(Message)
      BY <1>1 DEF TypeOK
    <3> QED
      BY <3>1, <3>3, <3>4, <3>5
  <2>4. CASE ~Swap /\ ~Parse /\ ~Handle
    <3>1. mv_recv_buf' = mv_recv_buf /\ handled' = handled
      BY <2>4 DEF Next, App, InitClient, Create, Connect, SetLink, SendRequest, Serve, Worker, Receive,
                  Store, Post, Disconnect, ReadEnd, Closed, HandleRecvData, Poll, vars, bufVars
    <3> QED
      BY <1>1, <3>1 DEF TypeOK
  <2> QED
    BY <2>1, <2>2, <2>3, <2>4
<1>10. got' \in Nat
  <2>1. got' = got \/ got' = 0 \/ \E n \in 1..Len(wire) : got' = n
    BY DEF Next, App, InitClient, Create, Connect, SetLink, SendRequest, Serve, Worker, Receive,
           Store, Post, Disconnect, ReadEnd, Closed, HandleRecvData, Poll, Swap, Parse, Handle, vars,
           bufVars
  <2>2. Len(wire) \in Nat /\ got \in Nat
    BY <1>1, LenProperties DEF TypeOK
  <2> QED
    BY <2>1, <2>2
<1>11. GotFromWire'
  <2>1. CASE Serve
    <3>1. answered + 1 \in 1..Len(Requests)
      BY <1>1, <2>1 DEF Serve, TypeOK
    <3>2. WritePacket(Answer(Requests[answered + 1])) \in Seq(Nat)
      BY <3>1, RequestsKnown, PacketHead DEF Clean
    <3>3. /\ wire' = wire \o WritePacket(Answer(Requests[answered + 1]))
          /\ got' = got /\ pc' = pc
      BY <2>1 DEF Serve
    <3>4. Len(wire) <= Len(wire')
      BY <1>1, <3>2, <3>3, ConcatCells
    <3> QED
      BY <1>1, <3>3, <3>4, LenProperties DEF GotFromWire
  <2>2. CASE \E n \in 1..Len(wire) : Receive(n)
    BY <1>1, <2>2 DEF Receive, Goto, GotFromWire, Threads
  <2>3. CASE Worker /\ ~(\E n \in 1..Len(wire) : Receive(n))
    BY <1>1, <2>3 DEF Worker, Store, Post, Disconnect, ReadEnd, Closed, Goto, GotFromWire, Threads
  <2>4. CASE App \/ HandleRecvData \/ UNCHANGED vars
    <3>1. wire' = wire /\ got' = got
      BY <2>4 DEF App, InitClient, Create, Connect, SetLink, SendRequest, HandleRecvData, Poll, Swap,
                  Parse, Handle, vars
    <3>2. pc'["worker"] = pc["worker"]
      BY <1>1, <2>4 DEF App, InitClient, Create, Connect, SetLink, SendRequest, HandleRecvData, Poll,
                        Swap, Parse, Handle, Goto, Threads, vars
    <3> QED
      BY <1>1, <3>1, <3>2 DEF GotFromWire
  <2> QED
    BY <2>1, <2>2, <2>3, <2>4 DEF Next
<1> QED
  BY <1>3, <1>4, <1>5, <1>6, <1>7, <1>8, <1>9, <1>10, <1>11 DEF TypeOK, ControlTypes, Cell

(* The server's answer goes to the end of the stream.                      *)
LEMMA KeptServe ==
    ASSUME ClientInv, Serve, NEW S, NEW st, NEW pos, Kept(S, st, pos)
    PROVE  \E S2, st2 : Kept(S2, st2, pos)'
<1> DEFINE m == Answer(Requests[answered + 1])
           c == WritePacket(m)
<1>0. PICK T : T = S \o c
  OBVIOUS
<1>1. /\ answered' = answered + 1 /\ wire' = wire \o c /\ link' = link
      /\ mv_recv_buf' = mv_recv_buf /\ mv_recv_buf_old' = mv_recv_buf_old
      /\ pc' = pc /\ handled' = handled /\ cut' = cut
  BY DEF Serve, bufVars
<1>2. answered \in Nat /\ answered + 1 \in 1..Len(Requests)
  BY RequestsKnown DEF Serve, ClientInv, TypeOK
<1>3. Clean(m)
  BY <1>2, RequestsKnown
<1>4. c \in Seq(Nat) /\ Len(c) \in Nat
  BY <1>3, PacketHead DEF Clean
<1>5. Answers'[answered + 1] = m /\ \A i \in 1..answered : Answers'[i] = Answers[i]
  <2>1. Answers' = [i \in 1..(answered + 1) |-> Answer(Requests[i])]
    BY <1>1 DEF Answers
  <2>2. answered + 1 \in 1..(answered + 1) /\ \A i \in 1..answered : i \in 1..(answered + 1)
    BY <1>2
  <2> QED
    BY <2>1, <2>2 DEF Answers
<1> HIDE DEF m
<1>6. Laid(S, st, Answers, answered) /\ Held(S, pos) /\ Chosen(st, pos)
  BY DEF Kept
<1>7. PICK st2 : /\ Laid(T, st2, Answers', answered + 1)
                 /\ \A i \in 1..(answered + 1) : st2[i] = st[i]
  <2>1. PICK N : N = Answers'
    OBVIOUS
  <2>2. \E st2 : /\ Laid(T, st2, N, answered + 1)
                 /\ \A i \in 1..(answered + 1) : st2[i] = st[i]
    BY <1>0, <1>3, <1>5, <1>6, <2>1, LaidMore
  <2> QED
    BY <2>1, <2>2
<1> HIDE DEF c
<1>8. S \in Seq(Nat) /\ Len(T) = Len(S) + Len(c) /\ Len(S) \in Nat
  BY <1>0, <1>4, <1>6, ConcatCells DEF Laid
<1>9. /\ \A p, buf : Shows(S, p, buf) => Shows(T, p, buf)
      /\ Shows(T, Len(S), c)
  <2>1. ASSUME NEW p, NEW buf, Shows(S, p, buf) PROVE Shows(T, p, buf)
    BY <1>0, <1>4, <1>8, <2>1, ShowsLonger
  <2>2. \A j \in 1..Len(c) : c[j] = T[Len(S) + j]
    BY <1>0, <1>4, <1>8, ConcatCells
  <2>3. Len(S) + Len(c) <= Len(T)
    BY <1>4, <1>8
  <2>4. Shows(T, Len(S), c)
    BY <1>4, <1>8, <2>2, <2>3 DEF Shows
  <2> QED
    BY <2>1, <2>4
<1>10. Held(T, pos)'
  <2> DEFINE p == pos + Len(mv_recv_buf) + Len(mv_recv_buf_old)
  <2>1. /\ Shows(S, pos, mv_recv_buf) /\ Shows(S, pos + Len(mv_recv_buf), mv_recv_buf_old)
        /\ Shows(S, p, wire) /\ p + Len(wire) = Len(S)
    BY <1>6 DEF Held
  <2> HIDE DEF p
  <2>2. Shows(T, p, wire) /\ Shows(T, p + Len(wire), c)
    BY <1>9, <2>1
  <2>3. Shows(T, p, wire \o c) /\ Len(wire \o c) = Len(wire) + Len(c) /\ Len(wire) \in Nat
    BY <2>2, ShowsJoined
  <2>4. p \in Nat
    BY <2>1 DEF Shows
  <2>5. p + Len(wire \o c) = Len(T)
    BY <1>4, <1>8, <2>1, <2>3, <2>4
  <2>6. Shows(T, pos, mv_recv_buf) /\ Shows(T, pos + Len(mv_recv_buf), mv_recv_buf_old)
    BY <1>9, <2>1
  <2> QED
    BY <1>1, <2>3, <2>5, <2>6 DEF Held, p
<1>11. AtPacket(st, pos) => AtPacket(st2, pos)'
  <2> SUFFICES ASSUME AtPacket(st, pos) PROVE AtPacket(st2, pos)'
    OBVIOUS
  <2>1. PICK i \in 1..answered : pos = st[i] /\ Len(WritePacket(Answers[i])) <= Len(mv_recv_buf)
    BY DEF AtPacket
  <2>2. i \in 1..(answered + 1) /\ st2[i] = st[i] /\ Answers'[i] = Answers[i]
    BY <1>2, <1>5, <1>7
  <2> QED
    BY <1>1, <2>1, <2>2 DEF AtPacket
<1>12. Chosen(st2, pos)'
  <2>1. PICK f \in [1..Len(handled) -> 1..answered] :
            \A i \in 1..Len(handled) :
                /\ handled[i] = Answers[f[i]] /\ st[f[i]] < pos
                /\ \A j \in 1..Len(handled) : i < j => f[i] < f[j]
    BY <1>6 DEF Chosen
  <2>2. f \in [1..Len(handled) -> 1..(answered + 1)]
    BY <1>2, <2>1
  <2>3. ASSUME NEW i \in 1..Len(handled)
        PROVE  /\ handled[i] = Answers'[f[i]] /\ st2[f[i]] < pos
               /\ \A j \in 1..Len(handled) : i < j => f[i] < f[j]
    <3>1. f[i] \in 1..answered /\ f[i] \in 1..(answered + 1)
      BY <2>1, <2>2
    <3> QED
      BY <1>5, <1>7, <2>1, <3>1
  <2> QED
    BY <1>1, <2>2, <2>3 DEF Chosen
<1>13. AllSoFar(st, pos) => AllSoFar(st2, pos)'
  <2> SUFFICES ASSUME AllSoFar(st, pos) PROVE AllSoFar(st2, pos)'
    OBVIOUS
  <2>1. /\ Len(handled) <= answered /\ pos = st[Len(handled) + 1]
        /\ \A i \in 1..Len(handled) : handled[i] = Answers[i]
    BY DEF AllSoFar
  <2>2. handled \in Seq(Message) /\ Len(handled) \in Nat
    BY LenProperties DEF ClientInv, TypeOK
  <2>3. Len(handled) + 1 \in 1..(answered + 1) /\ Len(handled) <= answered + 1
        /\ \A i \in 1..Len(handled) : i \in 1..answered
    BY <1>2, <2>1, <2>2
  <2>4. pos = st2[Len(handled) + 1] /\ \A i \in 1..Len(handled) : handled[i] = Answers'[i]
    BY <1>5, <1>7, <2>1, <2>3
  <2> QED
    BY <1>1, <2>3, <2>4 DEF AllSoFar
<1>14. pc["recv"] = "handle" => AtPacket(st, pos)
  BY DEF Kept
<1>15. link # "gone" /\ ~cut => AllSoFar(st, pos)
  BY DEF Kept
<1>16. Laid(T, st2, Answers', answered')
  BY <1>1, <1>7
<1>17. Kept(T, st2, pos)'
  BY <1>1, <1>10, <1>11, <1>12, <1>13, <1>14, <1>15, <1>16 DEF Kept
<1> QED
  BY <1>17

(* The worker only reads for a link the client has the handle of.          *)
LEMMA KeptReceive ==
    ASSUME ClientInv, NEW n \in 1..Len(wire), Receive(n),
           NEW S, NEW st, NEW pos, Kept(S, st, pos)
    PROVE  Kept(S, st, pos)'
<1>1. Laid(S, st, Answers, answered) /\ Held(S, pos)
  BY DEF Kept
<1>2. Shows(S, pos + Len(mv_recv_buf) + Len(mv_recv_buf_old), wire) /\ Len(wire) \in Nat
      /\ pos + Len(mv_recv_buf) + Len(mv_recv_buf_old) + Len(wire) = Len(S)
  BY <1>1, LenProperties DEF Held, Shows
<1>3. sent > 0
  <2>1. answered \in Nat /\ sent \in Nat /\ answered <= sent
    BY RequestsKnown DEF ClientInv, TypeOK
  <2>2. answered # 0
    <3> SUFFICES ASSUME answered = 0 PROVE FALSE
      OBVIOUS
    <3>1. Len(S) = 0
      BY <1>1 DEF Laid
    <3>2. pos + Len(mv_recv_buf) + Len(mv_recv_buf_old) \in Nat
      BY <1>2 DEF Shows
    <3> QED
      BY <1>2, <3>1, <3>2
  <2> QED
    BY <2>1, <2>2
<1>4. mh_tcpLink = Link
  BY <1>3 DEF ClientInv, LinkKnown, Receive
<1>5. /\ answered' = answered /\ wire' = wire /\ mv_recv_buf' = mv_recv_buf
      /\ mv_recv_buf_old' = mv_recv_buf_old /\ handled' = handled /\ cut' = cut /\ link' = link
      /\ pc' = [pc EXCEPT !["worker"] = "store"]
  BY <1>4 DEF Receive, Goto, bufVars
<1>6. pc'["recv"] = pc["recv"]
  BY <1>5 DEF ClientInv, TypeOK, Threads
<1> QED
  BY <1>5, <1>6, KeptOver

(* The worker's bytes go to the end of what the client holds.              *)
LEMMA KeptStore ==
    ASSUME ClientInv, Store, DataStatus = "STATUS_RECV_END",
           NEW S, NEW st, NEW pos, Kept(S, st, pos)
    PROVE  Kept(S, st, pos)'
<1> DEFINE n == got
           new == SubSeq(wire, 1, n)
           rest == Drop(wire, n)
<1>1. Laid(S, st, Answers, answered) /\ Held(S, pos) /\ Chosen(st, pos)
  BY DEF Kept
<1>2. Shows(S, pos + Len(mv_recv_buf) + Len(mv_recv_buf_old), wire) /\ Len(wire) \in Nat
      /\ pos + Len(mv_recv_buf) + Len(mv_recv_buf_old) + Len(wire) = Len(S)
  BY <1>1, LenProperties DEF Held, Shows
<1>3. n \in 1..Len(wire)
  BY DEF ClientInv, GotFromWire, Store, Goto
<1>5. /\ wire' = rest /\ mv_recv_buf_old' = mv_recv_buf_old \o new
      /\ link' = link /\ answered' = answered /\ mv_recv_buf' = mv_recv_buf
      /\ handled' = handled /\ cut' = cut /\ pc' = [pc EXCEPT !["worker"] = "post"]
  BY DEF Store, Goto, Passed
<1>6. pc'["recv"] = pc["recv"]
  BY <1>5 DEF ClientInv, TypeOK, Threads
<1> DEFINE p == pos + Len(mv_recv_buf)
           q == p + Len(mv_recv_buf_old)
<1>7. /\ Shows(S, p, mv_recv_buf_old) /\ Shows(S, q, wire) /\ q + Len(wire) = Len(S)
      /\ Shows(S, pos, mv_recv_buf)
  BY <1>1 DEF Held
<1>8. q = p + Len(mv_recv_buf_old)
  OBVIOUS
<1> HIDE DEF p, q, rest, new, n
<1>9. Shows(S, q, new) /\ Len(new) = n
  BY <1>3, <1>7, ShowsTaken DEF new
<1>10. Shows(S, q + n, rest) /\ Len(rest) = Len(wire) - n
  <2>1. n \in 0..Len(wire)
    BY <1>3
  <2> QED
    BY <1>7, <2>1, ShowsDropped DEF rest
<1>11. /\ Shows(S, p, mv_recv_buf_old \o new)
       /\ Len(mv_recv_buf_old \o new) = Len(mv_recv_buf_old) + n /\ Len(mv_recv_buf_old) \in Nat
  BY <1>7, <1>8, <1>9, ShowsJoined
<1>12. p \in Nat /\ q \in Nat
  BY <1>7 DEF Shows
<1>13. /\ p + Len(mv_recv_buf_old \o new) = q + n
       /\ p + Len(mv_recv_buf_old \o new) + Len(rest) = Len(S)
  BY <1>2, <1>3, <1>7, <1>8, <1>10, <1>11, <1>12
<1>14. Held(S, pos)'
  <2>1. /\ Shows(S, pos, mv_recv_buf) /\ Shows(S, p, mv_recv_buf_old \o new)
        /\ Shows(S, p + Len(mv_recv_buf_old \o new), rest)
        /\ p + Len(mv_recv_buf_old \o new) + Len(rest) = Len(S)
    BY <1>7, <1>10, <1>11, <1>13
  <2> QED
    BY <1>5, <2>1 DEF Held, p
<1>15. Answers' = Answers
  BY <1>5 DEF Answers
<1>16. Laid(S, st, Answers', answered')
  BY <1>1, <1>5, <1>15
<1>17. Chosen(st, pos)'
  BY <1>1, <1>5, <1>15 DEF Chosen
<1>18. AtPacket(st, pos) => AtPacket(st, pos)'
  BY <1>5, <1>15 DEF AtPacket
<1>19. AllSoFar(st, pos) => AllSoFar(st, pos)'
  BY <1>5, <1>15 DEF AllSoFar
<1> QED
  BY <1>5, <1>6, <1>14, <1>16, <1>17, <1>18, <1>19 DEF Kept

LEMMA KeptSwap ==
    ASSUME ClientInv, Swap, NEW S, NEW st, NEW pos, Kept(S, st, pos)
    PROVE  Kept(S, st, pos)'
<1> DEFINE T == mv_recv_buf \o mv_recv_buf_old
<1>1. Laid(S, st, Answers, answered) /\ Held(S, pos) /\ Chosen(st, pos)
  BY DEF Kept
<1>2. /\ mv_recv_buf' = T /\ mv_recv_buf_old' = <<>> /\ wire' = wire /\ link' = link
      /\ answered' = answered /\ handled' = handled /\ cut' = cut
  BY DEF Swap
<1>3. pc'["recv"] # "handle"
  BY DEF Swap, Goto, ClientInv, TypeOK, Threads
<1>4. Shows(S, pos, T) /\ Len(T) = Len(mv_recv_buf) + Len(mv_recv_buf_old)
      /\ Len(mv_recv_buf) \in Nat /\ Len(mv_recv_buf_old) \in Nat
  BY <1>1, ShowsJoined DEF Held
<1> HIDE DEF T
<1>5. Held(S, pos)'
  <2>1. /\ Shows(S, pos + Len(mv_recv_buf) + Len(mv_recv_buf_old), wire) /\ pos \in Nat
        /\ pos + Len(mv_recv_buf) + Len(mv_recv_buf_old) + Len(wire) = Len(S)
    BY <1>1 DEF Held, Shows
  <2>2. /\ pos + Len(T) = pos + Len(mv_recv_buf) + Len(mv_recv_buf_old) /\ Len(<<>>) = 0
        /\ pos + Len(T) + 0 = pos + Len(T)
    BY <1>4, <2>1
  <2>3. Shows(S, pos + Len(T) + Len(<<>>), wire) /\ pos + Len(T) + Len(<<>>) + Len(wire) = Len(S)
    BY <2>1, <2>2
  <2>4. Shows(S, pos + Len(T), <<>>)
    <3>1. S \in Seq(Nat) /\ Len(S) \in Nat
      BY <1>1, LenProperties DEF Laid
    <3>2. pos + Len(T) \in Nat /\ pos + Len(T) + 0 <= Len(S)
      BY <1>4, <2>1, <2>2, <3>1 DEF Shows
    <3>3. <<>> \in Seq(Nat) /\ \A j \in 1..Len(<<>>) : FALSE
      BY <2>2
    <3> QED
      BY <2>2, <3>2, <3>3 DEF Shows
  <2> QED
    BY <1>2, <1>4, <2>3, <2>4 DEF Held
<1>6. Answers' = Answers
  BY <1>2 DEF Answers
<1>7. Laid(S, st, Answers', answered') /\ Chosen(st, pos)'
  BY <1>1, <1>2, <1>6 DEF Chosen
<1>8. AllSoFar(st, pos) => AllSoFar(st, pos)'
  BY <1>2, <1>6 DEF AllSoFar
<1> QED
  BY <1>2, <1>3, <1>5, <1>7, <1>8 DEF Kept

(* The scan goes on to a packet of the stream, if to any; to the next one, *)
(* unless it cuts a magic number.                                          *)
LEMMA KeptParse ==
    ASSUME ClientInv, Parse, NEW S, NEW st, NEW pos, Kept(S, st, pos)
    PROVE  /\ \E p2 : Kept(S, st, p2)'
           /\ pc'["recv"] = "handle" => answered > 0
<1> DEFINE buf == mv_recv_buf
<1>1. Laid(S, st, Answers, answered) /\ Held(S, pos) /\ Chosen(st, pos)
  BY DEF Kept
<1>2. PICK lucky \in BOOLEAN :
          LET rest == Drop(buf, Offset(buf, lucky))
              packet == rest # <<>> /\ Parses(rest, 0)
          IN  /\ mv_recv_buf' = rest
              /\ Goto("recv", "parse", IF packet THEN "handle" ELSE "idle")
              /\ named' = IF packet THEN mh_tcpLink ELSE named
              /\ cut' = (cut \/ (rest = <<>> /\ buf # <<>> /\ IsCut(buf, Len(buf) - 1)))
  BY DEF Parse
<1> DEFINE o == Offset(buf, lucky)
           rest == Drop(buf, o)
           packet == rest # <<>> /\ Parses(rest, 0)
<1>3. /\ mv_recv_buf' = rest
      /\ pc' = [pc EXCEPT !["recv"] = IF packet THEN "handle" ELSE "idle"]
      /\ cut' = (cut \/ (rest = <<>> /\ buf # <<>> /\ IsCut(buf, Len(buf) - 1)))
  BY <1>2 DEF Goto
<1>4. /\ link' = link /\ answered' = answered /\ wire' = wire
      /\ mv_recv_buf_old' = mv_recv_buf_old /\ handled' = handled
  BY DEF Parse
<1>5. pc'["recv"] = IF packet THEN "handle" ELSE "idle"
  BY <1>3 DEF ClientInv, TypeOK, Threads
<1>6. Shows(S, pos, buf) /\ buf \in Seq(Nat) /\ pos \in Nat /\ Len(buf) \in Nat
  BY <1>1, LenProperties DEF Held, Shows
<1>7. o \in 0..Len(buf)
  BY <1>6, OffsetIs
<1>8. packet => \E i \in 1..answered : /\ pos + o = st[i]
                                       /\ Len(WritePacket(Answers[i])) <= Len(rest)
  <2>1. ASSUME packet
        PROVE  \E i \in 1..answered : /\ pos + o = st[i]
                                      /\ Len(WritePacket(Answers[i])) <= Len(rest)
    <3>1. Drop(buf, Offset(buf, lucky)) # <<>> /\ Parses(Drop(buf, Offset(buf, lucky)), 0)
      BY <2>1
    <3> HIDE DEF buf
    <3>2. \E i \in 1..answered :
              /\ pos + Offset(buf, lucky) = st[i]
              /\ Handed(Drop(buf, Offset(buf, lucky))) = Answers[i]
              /\ TotalLen(Drop(buf, Offset(buf, lucky)), 0) = Len(WritePacket(Answers[i]))
              /\ Len(WritePacket(Answers[i])) <= Len(Drop(buf, Offset(buf, lucky)))
      BY <1>1, <1>6, <3>1, ScanFinds
    <3> QED
      BY <3>2
  <2> QED
    BY <2>1
<1>9. Shows(S, pos + o, rest) /\ Len(rest) = Len(buf) - o
  <2> HIDE DEF buf, o
  <2> QED
    BY <1>6, <1>7, ShowsDropped
<1>10. ASSUME NEW a \in 1..(answered + 1), pos = st[a]
       PROVE  o = 0 \/ (rest = <<>> /\ buf # <<>> /\ IsCut(buf, Len(buf) - 1))
  <2>1. Shows(S, st[a], buf)
    BY <1>6, <1>10
  <2> HIDE DEF buf
  <2> QED
    BY <1>1, <2>1, ScanStays
<1>11. PICK p2 : p2 = pos + o
  OBVIOUS
<1> HIDE DEF o, rest, packet
<1>12. p2 \in Nat /\ pos <= p2
  BY <1>6, <1>7, <1>11
<1>13. Answers' = Answers
  BY <1>4 DEF Answers
<1>14. Held(S, p2)'
  <2>1. /\ Shows(S, pos + Len(buf), mv_recv_buf_old)
        /\ Shows(S, pos + Len(buf) + Len(mv_recv_buf_old), wire)
        /\ pos + Len(buf) + Len(mv_recv_buf_old) + Len(wire) = Len(S)
    BY <1>1 DEF Held
  <2>2. p2 + Len(rest) = pos + Len(buf)
    BY <1>6, <1>7, <1>9, <1>11
  <2>3. /\ Shows(S, p2, rest) /\ Shows(S, p2 + Len(rest), mv_recv_buf_old)
        /\ Shows(S, p2 + Len(rest) + Len(mv_recv_buf_old), wire)
        /\ p2 + Len(rest) + Len(mv_recv_buf_old) + Len(wire) = Len(S)
    BY <1>9, <1>11, <2>1, <2>2
  <2> QED
    BY <1>3, <1>4, <2>3 DEF Held
<1>15. pc'["recv"] = "handle" => AtPacket(st, p2)'
  BY <1>3, <1>4, <1>5, <1>8, <1>11, <1>13 DEF AtPacket
<1>16. Chosen(st, p2)'
  <2>1. PICK f \in [1..Len(handled) -> 1..answered] :
            \A i \in 1..Len(handled) :
                /\ handled[i] = Answers[f[i]] /\ st[f[i]] < pos
                /\ \A j \in 1..Len(handled) : i < j => f[i] < f[j]
    BY <1>1 DEF Chosen
  <2>2. ASSUME NEW i \in 1..Len(handled) PROVE st[f[i]] < p2
    <3>1. f[i] \in 1..answered /\ st[f[i]] < pos
      BY <2>1
    <3>2. f[i] \in 1..(answered + 1) /\ answered \in Nat
      BY <1>1, <3>1 DEF Laid
    <3>3. st[f[i]] \in Nat
      BY <1>1, <3>2 DEF Laid
    <3> QED
      BY <1>6, <1>12, <3>1, <3>3
  <2> QED
    BY <1>4, <1>13, <2>1, <2>2 DEF Chosen
<1>17. link' # "gone" /\ ~cut' => AllSoFar(st, p2)'
  <2> SUFFICES ASSUME link' # "gone", ~cut' PROVE AllSoFar(st, p2)'
    OBVIOUS
  <2>1. AllSoFar(st, pos)
    BY <1>3, <1>4 DEF Kept
  <2>2. handled \in Seq(Message) /\ Len(handled) \in Nat /\ answered \in Nat
    BY <1>1, LenProperties DEF ClientInv, TypeOK, Laid
  <2>3. Len(handled) + 1 \in 1..(answered + 1) /\ pos = st[Len(handled) + 1]
    BY <2>1, <2>2 DEF AllSoFar
  <2>4. o = 0
    BY <1>3, <1>10, <2>3
  <2>5. p2 = pos
    BY <1>6, <1>11, <2>4
  <2> QED
    BY <1>4, <1>13, <2>1, <2>5 DEF AllSoFar
<1>18. Laid(S, st, Answers', answered')
  BY <1>1, <1>4, <1>13
<1>19. Kept(S, st, p2)'
  BY <1>14, <1>15, <1>16, <1>17, <1>18 DEF Kept
<1>20. pc'["recv"] = "handle" => answered > 0
  <2>1. answered \in Nat
    BY <1>1 DEF Laid
  <2> QED
    BY <1>5, <1>8, <2>1
<1> QED
  BY <1>19, <1>20

(* The handler is given the packet's answer, and the scan goes on behind it. *)
LEMMA KeptHandle ==
    ASSUME ClientInv, Handle, NEW S, NEW st, NEW pos, Kept(S, st, pos)
    PROVE  \E p2 : Kept(S, st, p2)'
<1>1. /\ Laid(S, st, Answers, answered) /\ Held(S, pos) /\ Chosen(st, pos)
      /\ S \in Seq(Nat) /\ answered \in Nat /\ st \in [1..(answered + 1) -> Nat]
  BY DEF Kept, Laid
<1> DEFINE n == TotalLen(mv_recv_buf, 0)
           rest == Drop(mv_recv_buf, n)
<1>2. PICK i \in 1..answered :
               /\ pos = st[i] /\ Handed(mv_recv_buf) = Answers[i] /\ Answers[i] \in Message
               /\ n \in 1..Len(mv_recv_buf) /\ st[i + 1] = st[i] + n
  BY HandedIs DEF ClientInv, Handle, Goto
<1>3. /\ handled' = IF named = mh_tcpLink THEN Append(handled, Answers[i]) ELSE handled
      /\ mv_recv_buf' = rest
      /\ link' = link /\ answered' = answered /\ wire' = wire
      /\ mv_recv_buf_old' = mv_recv_buf_old /\ cut' = cut
  BY <1>2 DEF Handle
<1>4. pc["recv"] = "handle" /\ pc'["recv"] = "parse"
  BY DEF Handle, Goto, ClientInv, TypeOK, Threads
<1>5. Answers' = Answers
  BY <1>3 DEF Answers
<1> HIDE DEF n
<1>6. PICK p2 : p2 = pos + n
  OBVIOUS
<1>7. /\ Shows(S, pos, mv_recv_buf) /\ pos \in Nat /\ Len(mv_recv_buf) \in Nat
      /\ mv_recv_buf \in Seq(Nat) /\ n \in 0..Len(mv_recv_buf)
      /\ handled \in Seq(Message) /\ Len(handled) \in Nat
  BY <1>1, <1>2, LenProperties DEF Held, Shows, ClientInv, TypeOK
<1>8. Shows(S, pos + n, rest) /\ Len(rest) = Len(mv_recv_buf) - n
  BY <1>7, ShowsDropped
<1>9. p2 \in Nat /\ pos < p2 /\ p2 = st[i + 1] /\ i + 1 \in 1..(answered + 1)
  BY <1>1, <1>2, <1>6, <1>7
<1> HIDE DEF rest
<1>10. Held(S, p2)'
  <2>1. /\ Shows(S, pos + Len(mv_recv_buf), mv_recv_buf_old)
        /\ Shows(S, pos + Len(mv_recv_buf) + Len(mv_recv_buf_old), wire)
        /\ pos + Len(mv_recv_buf) + Len(mv_recv_buf_old) + Len(wire) = Len(S)
    BY <1>1 DEF Held
  <2>2. p2 + Len(rest) = pos + Len(mv_recv_buf)
    BY <1>6, <1>7, <1>8
  <2>3. /\ Shows(S, p2, rest) /\ Shows(S, p2 + Len(rest), mv_recv_buf_old)
        /\ Shows(S, p2 + Len(rest) + Len(mv_recv_buf_old), wire)
        /\ p2 + Len(rest) + Len(mv_recv_buf_old) + Len(wire) = Len(S)
    BY <1>6, <1>8, <2>1, <2>2
  <2> QED
    BY <1>3, <2>3 DEF Held
<1>11. PICK f \in [1..Len(handled) -> 1..answered] :
            \A e \in 1..Len(handled) :
                /\ handled[e] = Answers[f[e]] /\ st[f[e]] < pos
                /\ \A j \in 1..Len(handled) : e < j => f[e] < f[j]
  BY <1>1 DEF Chosen
<1>12. ASSUME NEW e \in 1..Len(handled)
       PROVE  f[e] \in 1..answered /\ st[f[e]] < p2 /\ f[e] < i
  <2>1. f[e] \in 1..answered /\ st[f[e]] < pos
    BY <1>11
  <2>2. f[e] \in 1..(answered + 1) /\ i \in 1..(answered + 1)
    BY <1>1, <2>1
  <2>3. st[f[e]] \in Nat /\ st[i] \in Nat
    BY <1>1, <2>2
  <2>4. ~(i < f[e]) /\ i # f[e]
    <3>1. i < f[e] => st[i] < st[f[e]]
      BY <1>1, <2>2, Rising
    <3>2. i = f[e] => st[i] = st[f[e]]
      OBVIOUS
    <3> QED
      BY <1>2, <2>1, <2>3, <3>1, <3>2
  <2>5. f[e] < i
    BY <2>2, <2>4
  <2>6. st[f[e]] < p2
    BY <1>7, <1>9, <2>1, <2>3
  <2> QED
    BY <2>1, <2>5, <2>6
<1>13. Chosen(st, p2)'
  <2>1. CASE named = mh_tcpLink
    <3> DEFINE h == Append(handled, Answers[i])
               g == [e \in 1..(Len(handled) + 1) |-> IF e <= Len(handled) THEN f[e] ELSE i]
    <3>1. /\ h \in Seq(Message) /\ Len(h) = Len(handled) + 1 /\ h[Len(handled) + 1] = Answers[i]
          /\ \A e \in 1..Len(handled) : h[e] = handled[e]
      BY <1>2, <1>7, AppendProperties
    <3>2. handled' = h
      BY <1>3, <2>1
    <3> HIDE DEF h
    <3>3. ASSUME NEW e \in 1..Len(handled) PROVE e \in 1..(Len(handled) + 1) /\ g[e] = f[e]
      BY <1>7
    <3>4. g[Len(handled) + 1] = i
      BY <1>7
    <3>5. g \in [1..(Len(handled) + 1) -> 1..answered]
      <4>1. ASSUME NEW e \in 1..(Len(handled) + 1), e <= Len(handled) PROVE f[e] \in 1..answered
        <5>1. e \in 1..Len(handled)
          BY <1>7, <4>1
        <5> QED
          BY <1>12, <5>1
      <4> QED
        BY <4>1
    <3> HIDE DEF g
    <3>6. ASSUME NEW e \in 1..(Len(handled) + 1)
          PROVE  /\ h[e] = Answers[g[e]] /\ st[g[e]] < p2
                 /\ \A j \in 1..(Len(handled) + 1) : e < j => g[e] < g[j]
      <4>1. CASE e = Len(handled) + 1
        <5>1. h[e] = Answers[g[e]] /\ st[g[e]] < p2
          BY <1>2, <1>9, <3>1, <3>4, <4>1
        <5>2. ASSUME NEW j \in 1..(Len(handled) + 1), e < j PROVE FALSE
          BY <1>7, <4>1, <5>2
        <5> QED
          BY <5>1, <5>2
      <4>2. CASE e # Len(handled) + 1
        <5>1. e \in 1..Len(handled)
          BY <1>7, <4>2
        <5>2. g[e] = f[e] /\ h[e] = handled[e]
          BY <3>1, <3>3, <5>1
        <5>3. h[e] = Answers[g[e]] /\ st[g[e]] < p2
          BY <1>11, <1>12, <5>1, <5>2
        <5>4. ASSUME NEW j \in 1..(Len(handled) + 1), e < j PROVE g[e] < g[j]
          <6>1. CASE j = Len(handled) + 1
            BY <1>12, <3>4, <5>1, <5>2, <6>1
          <6>2. CASE j # Len(handled) + 1
            <7>1. j \in 1..Len(handled)
              BY <1>7, <6>2
            <7> QED
              BY <1>11, <3>3, <5>1, <5>2, <5>4, <7>1
          <6> QED
            BY <6>1, <6>2
        <5> QED
          BY <5>3, <5>4
      <4> QED
        BY <4>1, <4>2
    <3>7. \E ff \in [1..Len(h) -> 1..answered] :
              \A e \in 1..Len(h) : /\ h[e] = Answers[ff[e]] /\ st[ff[e]] < p2
                                   /\ \A j \in 1..Len(h) : e < j => ff[e] < ff[j]
      BY <3>1, <3>5, <3>6
    <3> QED
      BY <1>3, <1>5, <3>2, <3>7 DEF Chosen
  <2>2. CASE named # mh_tcpLink
    <3>1. handled' = handled
      BY <1>3, <2>2
    <3> QED
      BY <1>3, <1>5, <1>11, <1>12, <3>1 DEF Chosen
  <2> QED
    BY <2>1, <2>2
<1>14. link' # "gone" /\ ~cut' => AllSoFar(st, p2)'
  <2> SUFFICES ASSUME link' # "gone", ~cut' PROVE AllSoFar(st, p2)'
    OBVIOUS
  <2>1. AllSoFar(st, pos) /\ named = mh_tcpLink
    BY <1>3, <1>4 DEF Kept, ClientInv, LinkKnown
  <2>2. Len(handled) + 1 = i
    <3>1. Len(handled) + 1 \in 1..(answered + 1) /\ i \in 1..(answered + 1)
      BY <1>1, <1>7, <2>1 DEF AllSoFar
    <3>2. st[Len(handled) + 1] = st[i] /\ st[i] \in Nat
      BY <1>1, <1>2, <2>1, <3>1 DEF AllSoFar
    <3>3. PICK a \in 1..(answered + 1) : a = Len(handled) + 1
      BY <3>1
    <3>4. ~(a < i)
      <4>1. a < i => st[a] < st[i]
        BY <1>1, <3>1, Rising
      <4> QED
        BY <3>2, <3>3, <4>1
    <3>5. ~(i < a)
      <4>1. i < a => st[i] < st[a]
        BY <1>1, <3>1, Rising
      <4> QED
        BY <3>2, <3>3, <4>1
    <3> QED
      BY <1>1, <3>3, <3>4, <3>5
  <2> DEFINE h == Append(handled, Answers[i])
  <2>3. /\ Len(h) = i /\ h[i] = Answers[i]
        /\ \A e \in 1..Len(handled) : h[e] = handled[e]
    BY <1>2, <1>7, <2>2, AppendProperties
  <2>4. handled' = h
    BY <1>3, <2>1
  <2> HIDE DEF h
  <2>5. ASSUME NEW e \in 1..i PROVE h[e] = Answers[e]
    <3>1. CASE e = i
      BY <2>3, <3>1
    <3>2. CASE e # i
      <4>1. e \in 1..Len(handled)
        BY <1>7, <2>2, <3>2
      <4> QED
        BY <2>1, <2>3, <4>1 DEF AllSoFar
    <3> QED
      BY <3>1, <3>2
  <2>6. i <= answered
    BY <1>1
  <2> QED
    BY <1>3, <1>5, <1>9, <2>3, <2>4, <2>5, <2>6 DEF AllSoFar
<1>15. Laid(S, st, Answers', answered')
  BY <1>1, <1>3, <1>5
<1>16. Kept(S, st, p2)'
  BY <1>4, <1>10, <1>13, <1>14, <1>15 DEF Kept
<1> QED
  BY <1>16

(* Every step keeps the answers in place.                                  *)
LEMMA KeptStep ==
    ASSUME ClientInv, [Next]_vars
    PROVE  AnswersKept' /\ (pc'["recv"] = "handle" => answered' > 0)
<1>1. /\ TypeOK /\ RecvAt /\ HandleIsKnown /\ LinkKnown /\ AnswersKept
      /\ pc \in [Threads -> {"none", "idle", "create", "connect", "set", "send", "done",
                             "store", "post", "closed", "swap", "parse", "handle"}]
      /\ answered \in Nat
  BY RequestsKnown DEF ClientInv, TypeOK
<1>2. ASSUME answered' = answered, wire' = wire, mv_recv_buf' = mv_recv_buf,
             mv_recv_buf_old' = mv_recv_buf_old, handled' = handled, cut' = cut,
             link' # "gone" => link # "gone",
             pc'["recv"] = "handle" => pc["recv"] = "handle",
             pc["recv"] \in {"none", "idle", "swap"} => pc'["recv"] \in {"none", "idle", "swap"}
      PROVE  AnswersKept' /\ (pc'["recv"] = "handle" => answered' > 0)
  <2>1. pc'["recv"] = "handle" => answered' > 0
    BY <1>1, <1>2 DEF LinkKnown
  <2>2. CASE DataStatus = "STATUS_RECV_END"
    <3>1. PICK S, st, pos : Kept(S, st, pos)
      BY <1>1, <2>2 DEF AnswersKept
    <3>2. Kept(S, st, pos)'
      BY <1>2, <3>1, KeptOver
    <3> QED
      BY <2>1, <2>2, <3>2 DEF AnswersKept
  <2>3. CASE DataStatus # "STATUS_RECV_END"
    BY <1>1, <1>2, <2>1, <2>3 DEF AnswersKept, Silent
  <2> QED
    BY <2>2, <2>3
<1>3. CASE App
  <2>1. /\ answered' = answered /\ wire' = wire /\ mv_recv_buf' = mv_recv_buf
        /\ mv_recv_buf_old' = mv_recv_buf_old /\ handled' = handled /\ cut' = cut
    BY <1>3 DEF App, InitClient, Create, Connect, SetLink, SendRequest, bufVars
  <2>2. link' # "gone" => link # "gone"
    BY <1>1, <1>3 DEF App, InitClient, Create, Connect, SetLink, SendRequest, Goto,
                      HandleIsKnown, ConnectFirst
  <2>3. pc'["recv"] = pc["recv"] \/ (pc["recv"] = "none" /\ pc'["recv"] = "idle")
    BY <1>1, <1>3 DEF App, InitClient, Create, Connect, SetLink, SendRequest, Goto, Threads
  <2> QED
    BY <1>2, <2>1, <2>2, <2>3
<1>4. CASE Serve
  <2>1. pc'["recv"] = "handle" => answered' > 0
    BY <1>1, <1>4 DEF Serve
  <2>2. CASE DataStatus = "STATUS_RECV_END"
    <3>1. PICK S, st, pos : Kept(S, st, pos)
      BY <1>1, <2>2 DEF AnswersKept
    <3>2. \E S2, st2 : Kept(S2, st2, pos)'
      BY <1>4, <3>1, KeptServe
    <3> QED
      BY <2>1, <2>2, <3>2 DEF AnswersKept
  <2>3. CASE DataStatus # "STATUS_RECV_END"
    BY <1>1, <1>4, <2>1, <2>3 DEF AnswersKept, Silent, Serve, bufVars
  <2> QED
    BY <2>2, <2>3
<1>5. ASSUME NEW n \in 1..Len(wire), Receive(n)
      PROVE  AnswersKept' /\ (pc'["recv"] = "handle" => answered' > 0)
  <2>1. pc'["recv"] = pc["recv"] /\ answered' = answered
    BY <1>1, <1>5 DEF Receive, Goto, Threads
  <2>2. pc'["recv"] = "handle" => answered' > 0
    BY <1>1, <2>1 DEF LinkKnown
  <2>3. CASE DataStatus = "STATUS_RECV_END"
    <3>1. PICK S, st, pos : Kept(S, st, pos)
      BY <1>1, <2>3 DEF AnswersKept
    <3>2. Kept(S, st, pos)'
      BY <1>5, <3>1, KeptReceive
    <3> QED
      BY <2>2, <2>3, <3>2 DEF AnswersKept
  <2>4. CASE DataStatus # "STATUS_RECV_END"
    BY <1>1, <1>5, <2>1, <2>2, <2>4 DEF AnswersKept, Silent, Receive, bufVars
  <2> QED
    BY <2>3, <2>4
<1>12. CASE Store
  <2>1. pc'["recv"] = pc["recv"] /\ answered' = answered
    BY <1>1, <1>12 DEF Store, Goto, Threads
  <2>2. pc'["recv"] = "handle" => answered' > 0
    BY <1>1, <2>1 DEF LinkKnown
  <2>3. CASE DataStatus = "STATUS_RECV_END"
    <3>1. PICK S, st, pos : Kept(S, st, pos)
      BY <1>1, <2>3 DEF AnswersKept
    <3>2. Kept(S, st, pos)'
      BY <1>12, <2>3, <3>1, KeptStore
    <3> QED
      BY <2>2, <2>3, <3>2 DEF AnswersKept
  <2>4. CASE DataStatus # "STATUS_RECV_END"
    <3>1. mv_recv_buf_old' = <<>>
      <4>1. Passed(SubSeq(wire, 1, got)) = <<>> /\ mv_recv_buf_old = <<>>
        BY <1>1, <2>4 DEF Passed, AnswersKept, Silent
      <4>2. mv_recv_buf_old' = mv_recv_buf_old \o <<>>
        BY <1>12, <4>1 DEF Store
      <4>3. <<>> \o <<>> = <<>>
        OBVIOUS
      <4> QED
        BY <4>1, <4>2, <4>3
    <3> QED
      BY <1>1, <1>12, <2>1, <2>2, <2>4, <3>1 DEF AnswersKept, Silent, Store
  <2> QED
    BY <2>3, <2>4
<1>6. CASE Post \/ Disconnect \/ ReadEnd \/ Closed
  <2>1. /\ answered' = answered /\ wire' = wire /\ mv_recv_buf' = mv_recv_buf
        /\ mv_recv_buf_old' = mv_recv_buf_old /\ handled' = handled /\ cut' = cut
        /\ link' # "gone" => link # "gone"
    BY <1>6 DEF Post, Disconnect, ReadEnd, Closed, bufVars
  <2>2. pc'["recv"] = pc["recv"]
    BY <1>1, <1>6 DEF Post, Disconnect, ReadEnd, Closed, Goto, Threads
  <2> QED
    BY <1>2, <2>1, <2>2
<1>7. CASE Poll
  <2>1. /\ answered' = answered /\ wire' = wire /\ mv_recv_buf' = mv_recv_buf
        /\ mv_recv_buf_old' = mv_recv_buf_old /\ handled' = handled /\ cut' = cut /\ link' = link
    BY <1>7 DEF Poll
  <2>2. pc'["recv"] = "swap"
    BY <1>1, <1>7 DEF Poll, Goto, Threads
  <2> QED
    BY <1>2, <2>1, <2>2
<1>8. CASE Swap
  <2>1. pc'["recv"] \in {"idle", "parse"}
    BY <1>1, <1>8 DEF Swap, Goto, Threads
  <2>2. CASE DataStatus = "STATUS_RECV_END"
    <3>1. PICK S, st, pos : Kept(S, st, pos)
      BY <1>1, <2>2 DEF AnswersKept
    <3>2. Kept(S, st, pos)'
      BY <1>8, <3>1, KeptSwap
    <3> QED
      BY <2>1, <2>2, <3>2 DEF AnswersKept
  <2>3. CASE DataStatus # "STATUS_RECV_END"
    <3>1. mv_recv_buf = <<>> /\ mv_recv_buf_old = <<>> /\ handled = <<>> /\ ~cut
      BY <1>1, <2>3 DEF AnswersKept, Silent
    <3>2. <<>> \o <<>> = <<>>
      OBVIOUS
    <3>3. mv_recv_buf' = <<>> /\ mv_recv_buf_old' = <<>> /\ handled' = <<>> /\ ~cut'
      BY <1>8, <3>1, <3>2 DEF Swap
    <3>4. pc'["recv"] = "idle"
      BY <1>1, <1>8, <3>1 DEF Swap, Goto, Threads
    <3> QED
      BY <2>3, <3>3, <3>4 DEF AnswersKept, Silent
  <2> QED
    BY <2>2, <2>3
<1>9. CASE Parse
  <2>1. DataStatus = "STATUS_RECV_END"
    BY <1>1, <1>9 DEF AnswersKept, Silent, Parse
  <2>2. PICK S, st, pos : Kept(S, st, pos)
    BY <1>1, <2>1 DEF AnswersKept
  <2>3. (\E p2 : Kept(S, st, p2)') /\ (pc'["recv"] = "handle" => answered > 0)
    BY <1>9, <2>2, KeptParse
  <2>4. answered' = answered
    BY <1>9 DEF Parse
  <2> QED
    BY <2>1, <2>3, <2>4 DEF AnswersKept
<1>10. CASE Handle
  <2>1. DataStatus = "STATUS_RECV_END"
    BY <1>1, <1>10 DEF AnswersKept, Silent, Handle, Goto
  <2>2. PICK S, st, pos : Kept(S, st, pos)
    BY <1>1, <2>1 DEF AnswersKept
  <2>3. \E p2 : Kept(S, st, p2)'
    BY <1>10, <2>2, KeptHandle
  <2>4. pc'["recv"] = "parse"
    BY <1>1, <1>10 DEF Handle, Goto, Threads
  <2> QED
    BY <2>1, <2>3, <2>4 DEF AnswersKept
<1>11. CASE UNCHANGED vars
  BY <1>2, <1>11 DEF vars, bufVars
<1> QED
  BY <1>3, <1>4, <1>5, <1>6, <1>7, <1>8, <1>9, <1>10, <1>11, <1>12 DEF Next, Worker, HandleRecvData

LEMMA LinkStep ==
    ASSUME ClientInv, [Next]_vars
    PROVE  LinkKnown'
<1>1. /\ LinkKnown /\ InPlace /\ SetOnce /\ ConnectFirst /\ EndIsKnown
      /\ pc \in [Threads -> {"none", "idle", "create", "connect", "set", "send", "done",
                             "store", "post", "closed", "swap", "parse", "handle"}]
      /\ answered \in Nat /\ sent \in Nat /\ answered <= sent
  BY RequestsKnown DEF ClientInv, TypeOK, HandleIsKnown
<1>2. pc'["recv"] = "handle" => answered' > 0
  BY KeptStep
<1>3. /\ pc'["app"] \in {"none", "create", "connect", "set"} => sent' = 0
      /\ link' = "open" /\ (pc'["app"] = "send" \/ sent' > 0) => mh_tcpLink' = Link
  <2> USE DEF LinkKnown, InPlace, SetOnce, ConnectFirst, EndIsKnown, Goto, Threads
  <2>1. CASE InitClient \/ Create \/ Connect \/ SetLink
    BY <1>1, <2>1 DEF InitClient, Create, Connect, SetLink
  <2>2. CASE SendRequest
    BY <1>1, <2>2 DEF SendRequest
  <2>3. CASE Serve \/ UNCHANGED vars
    BY <1>1, <2>3 DEF Serve, vars
  <2>4. CASE Worker
    BY <1>1, <2>4 DEF Worker, Receive, Store, Post, Disconnect, ReadEnd, Closed
  <2>5. CASE HandleRecvData
    BY <1>1, <2>5 DEF HandleRecvData, Poll, Swap, Parse, Handle
  <2> QED
    BY <2>1, <2>2, <2>3, <2>4, <2>5 DEF Next, App
<1>4. pc'["recv"] = "handle" /\ link' # "gone" => named' = mh_tcpLink'
  <2> USE DEF LinkKnown, InPlace, ConnectFirst, EndIsKnown, Goto, Threads
  <2>1. CASE InitClient \/ Create \/ Connect \/ SendRequest
    BY <1>1, <2>1 DEF InitClient, Create, Connect, SendRequest, bufVars
  <2>2. CASE SetLink
    BY <1>1, <2>2 DEF SetLink
  <2>3. CASE Serve \/ UNCHANGED vars
    BY <1>1, <2>3 DEF Serve, vars, bufVars
  <2>4. CASE Worker
    BY <1>1, <2>4 DEF Worker, Receive, Store, Post, Disconnect, ReadEnd, Closed, bufVars
  <2>5. CASE Parse
    <3>1. mh_tcpLink' = mh_tcpLink /\ (named' = mh_tcpLink \/ pc'["recv"] = "idle")
      BY <1>1, <2>5 DEF Parse
    <3> QED
      BY <3>1
  <2>6. CASE Poll \/ Swap \/ Handle
    BY <1>1, <2>6 DEF Poll, Swap, Handle
  <2> QED
    BY <2>1, <2>2, <2>3, <2>4, <2>5, <2>6 DEF Next, App, HandleRecvData
<1> QED
  BY <1>2, <1>3, <1>4 DEF LinkKnown

LEMMA InvStep == ClientInv /\ [Next]_vars => ClientInv'
<1> SUFFICES ASSUME ClientInv, [Next]_vars PROVE ClientInv'
  OBVIOUS
<1>1. HandleIsKnown'
  BY KnownStep DEF ClientInv
<1> QED
  BY <1>1, TypeStep, KeptStep, LinkStep DEF ClientInv

(* The invariant says what the property says. *)
LEMMA KeptInOrder == ClientInv => AnswersInOrder
<1> SUFFICES ASSUME ClientInv PROVE AnswersInOrder
  OBVIOUS
<1>1. handled \in Seq(Message) /\ Len(handled) \in Nat /\ answered \in 0..Len(Requests)
  BY RequestsKnown, LenProperties DEF ClientInv, TypeOK
<1>2. Answers \in Seq(Message) /\ Len(Answers) = answered
      /\ \A i \in 1..answered : Answers[i] \in Message
  <2>1. \A i \in 1..answered : Answer(Requests[i]) \in Message
    BY <1>1, RequestsKnown
  <2>2. answered \in Nat
    BY <1>1, RequestsKnown
  <2>3. Answers = [i \in 1..answered |-> Answer(Requests[i])]
    BY DEF Answers
  <2> QED
    BY <2>1, <2>2, <2>3
<1>3. ASSUME NEW f, f \in [1..Len(handled) -> 1..answered],
             \A i \in 1..Len(handled) :
                 /\ handled[i] = Answers[f[i]]
                 /\ \A j \in 1..Len(handled) : i < j => f[i] < f[j]
      PROVE  IsPartOf(handled, Answers)
  BY <1>2, <1>3 DEF IsPartOf
<1>4. ASSUME Len(handled) <= answered, \A i \in 1..Len(handled) : handled[i] = Answers[i]
      PROVE  IsPrefixOf(handled, Answers)
  <2> DEFINE h == SubSeq(Answers, 1, Len(handled))
  <2>1. h \in Seq(Message) /\ Len(h) = Len(handled) /\ \A i \in 1..Len(handled) : h[i] = Answers[i]
    BY <1>1, <1>2, <1>4
  <2> HIDE DEF h
  <2>2. handled = h
    BY <1>1, <1>4, <2>1, SeqEqual
  <2> QED
    BY <1>2, <1>4, <2>2 DEF IsPrefixOf, h
<1>5. CASE DataStatus = "STATUS_RECV_END"
  <2>1. PICK S, st, pos : Kept(S, st, pos)
    BY <1>5 DEF ClientInv, AnswersKept
  <2>2. CASE link = "gone" \/ cut
    <3>1. PICK f \in [1..Len(handled) -> 1..answered] :
              \A i \in 1..Len(handled) :
                  /\ handled[i] = Answers[f[i]] /\ st[f[i]] < pos
                  /\ \A j \in 1..Len(handled) : i < j => f[i] < f[j]
      BY <2>1 DEF Kept, Chosen
    <3>2. IsPartOf(handled, Answers)
      BY <1>3, <3>1
    <3> QED
      BY <2>2, <3>2 DEF AnswersInOrder
  <2>3. CASE ~(link = "gone" \/ cut)
    <3>1. IsPrefixOf(handled, Answers)
      BY <1>4, <2>1, <2>3 DEF Kept, AllSoFar
    <3> QED
      BY <2>3, <3>1 DEF AnswersInOrder
  <2> QED
    BY <2>2, <2>3
<1>6. CASE DataStatus # "STATUS_RECV_END"
  <2>1. handled = <<>> /\ Len(<<>>) = 0
    BY <1>6 DEF ClientInv, AnswersKept, Silent
  <2>2. 1..Len(handled) = {} /\ Len(handled) <= answered
    BY <1>1, <2>1
  <2>3. IsPrefixOf(handled, Answers)
    BY <1>4, <2>2
  <2>4. IsPartOf(handled, Answers)
    <3>1. [i \in {} |-> 0] \in [{} -> 1..answered]
      OBVIOUS
    <3> QED
      BY <1>3, <2>2, <3>1
  <2> QED
    BY <2>3, <2>4 DEF AnswersInOrder
<1> QED
  BY <1>5, <1>6

(* Every variable of the client stays what it is, whatever the requests    *)
(* and however the stream is cut.                                          *)
THEOREM TypeCorrect == Spec => []TypeOK
<1>1. ClientInv => TypeOK
  BY DEF ClientInv
<1> QED
  BY <1>1, InvInit, InvStep, PTL DEF Spec

(* The client acts on the server's answers in their order, each once and   *)
(* as it was meant: however many requests it sends, whatever is in them,   *)
(* wherever the worker cuts the stream and however the threads interleave. *)
THEOREM ActsInOrder == Spec => []AnswersInOrder
<1> QED
  BY KeptInOrder, InvInit, InvStep, PTL DEF Spec
=============================================================================
