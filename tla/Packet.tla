------------------------------- MODULE Packet -------------------------------
(***************************************************************************)
(* The packet codec of the samples: write_packet and read_packet of        *)
(* net-packet.h, over parse_req and pack_resp of net-memory-io-base.h, for *)
(* the message types that parse_packet knows.  Sizes are scaled down, not  *)
(* the cases: a cell is a byte where the code can cut a stream, a UINT32   *)
(* is one cell, a UINT64 two, and the magic number is two cells, so that   *)
(* it can be cut.  A message has its fields in order, each a sequence.     *)
(***************************************************************************)
EXTENDS Integers, Sequences, FiniteSets

Cell == Nat
Message == [msg_type : Nat, seq_id : Nat, i_ret : Nat, body : Seq(Seq(Nat))]

MSG_HEAD_MAGIC == <<162, 42>>
IR_MONITOR_VER_NEGO_REQ == 1
IR_MONITOR_LINK_AUTH_REQ == 2
MSG_TYPE_RESP_OFFSET == 128
IR_MONITOR_VER_NEGO_RESP == IR_MONITOR_VER_NEGO_REQ + MSG_TYPE_RESP_OFFSET
IR_MONITOR_LINK_AUTH_RESP == IR_MONITOR_LINK_AUTH_REQ + MSG_TYPE_RESP_OFFSET
KnownTypes == { IR_MONITOR_VER_NEGO_REQ, IR_MONITOR_VER_NEGO_RESP,
                IR_MONITOR_LINK_AUTH_REQ, IR_MONITOR_LINK_AUTH_RESP }

(* MsgHeader_S: magic number, type, total length, sequence number, result. *)
TypeAt == 3
LenAt == 4
HeadLen == 6
LOGIN_ID_LEN == 2
DIGEST_ID_LEN == 1

-----------------------------------------------------------------------------
(* pack_resp.  Integers go in network order (ms_endian), strings with      *)
(* their length before them, arrays as they are, and a map as its size and *)
(* its entries in the order of the keys; here it is <<k1, v1, k2, v2...>>. *)
Base == 4
PackLongHost(n) == <<n % Base, n \div Base>>
PackLong(n) == <<n \div Base, n % Base>>
PackString(s) == <<Len(s)>> \o s
PackMap(m) ==
    <<Len(m) \div 2>> \o
    [i \in 1..(3 * (Len(m) \div 2)) |->
        LET e == (i - 1) \div 3 IN
        IF i % 3 = 1 THEN m[2 * e + 1] ELSE PackLong(m[2 * e + 2])[(i - 1) % 3]]

PackHeader(m) == MSG_HEAD_MAGIC \o <<m.msg_type, 0, m.seq_id, m.i_ret>>
PackBody(type, b) ==
    CASE type = IR_MONITOR_VER_NEGO_REQ -> PackString(b[1])
      [] type = IR_MONITOR_VER_NEGO_RESP -> <<>>
      [] type = IR_MONITOR_LINK_AUTH_REQ -> b[1] \o b[2] \o b[3] \o b[4] \o b[5]
      [] type = IR_MONITOR_LINK_AUTH_RESP ->
             b[1] \o b[2] \o PackLong(b[3][1]) \o PackMap(b[4]) \o PackString(b[5])

(* total_len is only known at the end, and written over what was there.    *)
WritePacketSize(vc_buffer) == [vc_buffer EXCEPT ![LenAt] = Len(vc_buffer)]
WritePacket(m) == WritePacketSize(PackHeader(m) \o PackBody(m.msg_type, m.body))

-----------------------------------------------------------------------------
(* parse_req, at offset p of a buffer of which size cells may be read.     *)
(* Reads joined by && stand or fall together, so those of fixed size have  *)
(* one test.                                                               *)
LongAt(buf, p) == buf[p + 1] * Base + buf[p + 2]

StringFits(buf, size, p) == p + 1 <= size /\ p + 1 + buf[p + 1] <= size
StringAt(buf, p) == SubSeq(buf, p + 2, p + 1 + buf[p + 1])

(* A map does not look at what its reads return: one that fails moves      *)
(* nothing and leaves the variable it should have set as it was, and the   *)
(* entry is made from that.  A key that comes twice has its last value.    *)
Past(size, p, n) == IF p + n <= size THEN p + n ELSE p
MapCount(buf, size, p) == IF p + 1 <= size THEN buf[p + 1] ELSE 0
MapEnd(buf, size, p) ==
    LET end[i \in 0..MapCount(buf, size, p)] ==
            IF i = 0 THEN Past(size, p, 1) ELSE Past(size, Past(size, end[i - 1], 1), 2)
    IN  end
MapAt(buf, size, p) ==
    LET end == MapEnd(buf, size, p)
        entries == 1..MapCount(buf, size, p)
        key[i \in {0} \cup entries] ==
            IF i = 0 THEN 0
            ELSE IF end[i - 1] + 1 <= size THEN buf[end[i - 1] + 1] ELSE key[i - 1]
        data[i \in {0} \cup entries] ==
            LET q == Past(size, end[i - 1], 1) IN
            IF i = 0 THEN 0 ELSE IF q + 2 <= size THEN LongAt(buf, q) ELSE data[i - 1]
        last(k) == CHOOSE i \in entries : key[i] = k /\ \A j \in entries : j > i => key[j] # k
    IN  [k \in {key[i] : i \in entries} |-> data[last(k)]]
InKeyOrder(map) ==
    LET key(i) == CHOOSE k \in DOMAIN map : Cardinality({j \in DOMAIN map : j < k}) = i
    IN  [i \in 1..(2 * Cardinality(DOMAIN map)) |->
            IF i % 2 = 1 THEN key(i \div 2) ELSE map[key(i \div 2 - 1)]]

(* read_packet: whether it succeeds on a packet at the head of buf, of the *)
(* size that total_len says, and the message it then makes.                *)
AuthReqLen == LOGIN_ID_LEN + DIGEST_ID_LEN + 3
MapOff == HeadLen + 4
StrOff(buf, size) == MapEnd(buf, size, MapOff)[MapCount(buf, size, MapOff)]
BodyFits(type, buf, size) ==
    CASE type = IR_MONITOR_VER_NEGO_REQ -> StringFits(buf, size, HeadLen)
      [] type = IR_MONITOR_VER_NEGO_RESP -> TRUE
      [] type = IR_MONITOR_LINK_AUTH_REQ -> HeadLen + AuthReqLen <= size
      [] type = IR_MONITOR_LINK_AUTH_RESP ->
             MapOff <= size /\ StringFits(buf, size, StrOff(buf, size))
PacketFits(buf, size) == HeadLen <= size /\ BodyFits(buf[TypeAt], buf, size)

BodyAt(type, buf, size) ==
    CASE type = IR_MONITOR_VER_NEGO_REQ -> <<StringAt(buf, HeadLen)>>
      [] type = IR_MONITOR_VER_NEGO_RESP -> <<>>
      [] type = IR_MONITOR_LINK_AUTH_REQ ->
             LET p == HeadLen + LOGIN_ID_LEN
                 q == p + DIGEST_ID_LEN
             IN  <<SubSeq(buf, HeadLen + 1, p), SubSeq(buf, p + 1, q),
                   <<buf[q + 1]>>, <<buf[q + 2]>>, <<buf[q + 3]>>>>
      [] type = IR_MONITOR_LINK_AUTH_RESP ->
             <<<<buf[HeadLen + 1]>>, <<buf[HeadLen + 2]>>, <<LongAt(buf, HeadLen + 2)>>,
               InKeyOrder(MapAt(buf, size, MapOff)), StringAt(buf, StrOff(buf, size))>>
ReadPacket(buf, size) ==
    [msg_type |-> buf[TypeAt], seq_id |-> buf[LenAt + 1], i_ret |-> buf[LenAt + 2],
     body |-> BodyAt(buf[TypeAt], buf, size)]
=============================================================================
