------------------------------ MODULE Framing ------------------------------
(***************************************************************************)
(* How the server sample cuts a stream of bytes into packets: the scan in  *)
(* LinkMgr::handle_recv_buff, with parse_data and parse_packet.            *)
(***************************************************************************)
EXTENDS Packet

CellAt(buf, p, k, c) == p + k \in DOMAIN buf /\ buf[p + k] = c

(* memcmp with MSG_HEAD_MAGIC at offset p.  It reads four bytes wherever p *)
(* is: at the last cell the rest is whatever lies behind the buffer, which *)
(* may (lucky) or may not look like the rest of the magic number.          *)
IsCut(buf, p) == p + 1 = Len(buf) /\ CellAt(buf, p, 1, MSG_HEAD_MAGIC[1])
IsMagic(buf, p, lucky) ==
    /\ CellAt(buf, p, 1, MSG_HEAD_MAGIC[1])
    /\ CellAt(buf, p, 2, MSG_HEAD_MAGIC[2]) \/ (IsCut(buf, p) /\ lucky)

TotalLen(buf, p) == buf[p + LenAt]
Drop(buf, n) == SubSeq(buf, n + 1, Len(buf))

(* parse_data_total_len and parse_data at a magic number: the loop breaks  *)
(* and waits for more, delivers a packet, or steps over one byte.  A       *)
(* length read from behind the buffer makes one or the other test break.   *)
IncompleteOff(buf, p) == p + HeadLen > Len(buf) \/ p + TotalLen(buf, p) >= Len(buf)
Incomplete(buf, p) == p + HeadLen > Len(buf) \/ p + TotalLen(buf, p) > Len(buf)
Parses(buf, p) ==
    /\ ~Incomplete(buf, p)
    /\ buf[p + TypeAt] \in KnownTypes
    /\ PacketFits(Drop(buf, p), TotalLen(buf, p))

(* What parse_data makes of the packet at the head of a buffer.            *)
Handed(buf) == ReadPacket(buf, TotalLen(buf, 0))

(* The offset at which the scan of buf stops, having stepped over the      *)
(* bytes before it: at a packet, at one not yet complete, or at the end.   *)
Stops(buf, p, lucky) ==
    \/ p = Len(buf)
    \/ IsMagic(buf, p, lucky) /\ (Incomplete(buf, p) \/ Parses(buf, p))
Offset(buf, lucky) ==
    CHOOSE p \in 0..Len(buf) :
        Stops(buf, p, lucky) /\ \A q \in 0..(p - 1) : ~Stops(buf, q, lucky)
(* Packets received and packets meant: all up to some, or some of them in  *)
(* their order.                                                            *)
IsPrefixOf(s, t) == Len(s) <= Len(t) /\ s = SubSeq(t, 1, Len(s))
IsPartOf(s, t) ==
    \E f \in [1..Len(s) -> 1..Len(t)] :
        \A i \in 1..Len(s) :
            s[i] = t[f[i]] /\ \A j \in 1..Len(s) : i < j => f[i] < f[j]

(* Where packets lie in a stream S: those of k messages one after another, *)
(* the i-th from st[i] + 1 on, and what there is before, between and after *)
(* them may be anything that is not a packet: from another place with the  *)
(* magic number on no part of S parses.                                    *)
Lies(S, p, c) == \A j \in 1..Len(c) : S[p + j] = c[j]
Spaced(S, st, M, k) ==
    /\ \A i \in 1..k : /\ st[i] + Len(WritePacket(M[i])) <= Len(S)
                       /\ Lies(S, st[i], WritePacket(M[i]))
    /\ \A i, j \in 1..k : i < j => st[i] + Len(WritePacket(M[i])) <= st[j]
OnlyThese(S, st, k) ==
    \A q \in 0..Len(S), e \in 0..Len(S) :
        Parses(SubSeq(S, q + 1, e), 0) /\ S[q + 1] = MSG_HEAD_MAGIC[1] /\ S[q + 2] = MSG_HEAD_MAGIC[2]
            => \E i \in 1..k : q = st[i]
=============================================================================
