--------------------------- MODULE Framing_proofs ---------------------------
(***************************************************************************)
(* Lemmas about the codec (Packet) and the scan (Framing): what is written *)
(* is read as it was meant, wherever it lies in a buffer, and the scan     *)
(* stops where it should.                                                  *)
(***************************************************************************)
EXTENDS Framing, TLAPS, SequenceTheorems, FiniteSetTheorems

-----------------------------------------------------------------------------
(* Helpers. *)

(* A set of numbers has a least one.  This is what induction comes down to *)
(* here: 0..k is finite, and finite sets are well-founded under inclusion. *)
LEMMA Least ==
    ASSUME NEW S \in SUBSET Nat, S # {}
    PROVE  \E m \in S : \A k \in S : m <= k
  <1> DEFINE T == {0..k : k \in S}
             R == StrictSubsetOrdering(Nat)
  <1>1. IsWellFoundedOn(R, FiniteSubsetsOf(Nat))
    BY FS_StrictSubsetOrderingWellFounded
  <1>2. T \subseteq FiniteSubsetsOf(Nat) /\ T # {}
    <2>1. ASSUME NEW k \in S PROVE 0..k \in FiniteSubsetsOf(Nat)
      BY FS_Interval DEF FiniteSubsetsOf
    <2> QED
      BY <2>1
  <1>3. PICK x \in T : \A y \in T : ~(<<y, x>> \in R)
    <2> HIDE DEF R, T
    <2> QED
      BY <1>1, <1>2, WFMin
  <1>4. PICK m \in S : x = 0..m
    BY <1>3
  <1>5. \A k \in S : m <= k
    <2> SUFFICES ASSUME NEW k \in S, k < m PROVE FALSE
      OBVIOUS
    <2>1. 0..k \subseteq 0..m /\ m \in 0..m /\ m \notin 0..k
      OBVIOUS
    <2>2. 0..k \in SUBSET Nat /\ 0..m \in SUBSET Nat
      OBVIOUS
    <2>3. <<0..k, 0..m>> \in R
      BY <2>1, <2>2 DEF StrictSubsetOrdering
    <2> QED
      BY <1>3, <1>4, <2>3
  <1> QED
    BY <1>5

(* What drops out of it for the scan: it stops, and nowhere earlier.       *)
LEMMA OffsetIs ==
    ASSUME NEW buf \in Seq(Nat), NEW lucky \in BOOLEAN
    PROVE  /\ Offset(buf, lucky) \in 0..Len(buf)
           /\ Stops(buf, Offset(buf, lucky), lucky)
           /\ \A q \in 0..(Offset(buf, lucky) - 1) : ~Stops(buf, q, lucky)
  <1> DEFINE S == {p \in 0..Len(buf) : Stops(buf, p, lucky)}
  <1>1. S \in SUBSET Nat /\ Len(buf) \in S
    BY LenProperties DEF Stops
  <1>2. PICK m \in S : \A k \in S : m <= k
    BY <1>1, Least
  <1>3. \A q \in 0..(m - 1) : ~Stops(buf, q, lucky)
    BY <1>1, <1>2
  <1> QED
    BY <1>2, <1>3 DEF Offset

(* t is the n cells of s that come after the first d. *)
IsPart(t, s, d, n) ==
    t \in Seq(Nat) /\ Len(t) = n /\ \A i \in 1..n : t[i] = s[d + i]

LEMMA SubSeqCells ==
    ASSUME NEW s \in Seq(Nat), NEW a \in Nat, NEW b \in Nat, 1 <= a, a <= b + 1, b <= Len(s)
    PROVE  IsPart(SubSeq(s, a, b), s, a - 1, b + 1 - a)
  <1>1. \A i \in a..b : s[i] \in Nat
    BY ElementOfSeq
  <1>2. /\ SubSeq(s, a, b) \in Seq(Nat)
        /\ Len(SubSeq(s, a, b)) = IF a <= b THEN b - a + 1 ELSE 0
        /\ \A i \in 1..(b - a + 1) : SubSeq(s, a, b)[i] = s[a + i - 1]
    <2>1. s \in Seq(Nat) /\ a \in Int /\ b \in Int
      OBVIOUS
    <2>2. /\ Len(SubSeq(s, a, b)) = IF a <= b THEN b - a + 1 ELSE 0
          /\ \A i \in 1..(b - a + 1) : SubSeq(s, a, b)[i] = s[a + i - 1]
          /\ SubSeq(s, a, b) \in Seq(Nat)
      BY <1>1, <2>1, SubSeqProperties
    <2> QED
      BY <2>2, Zenon
  <1>3. \A i \in 1..(b + 1 - a) : a + i - 1 = a - 1 + i /\ i \in 1..(b - a + 1)
    OBVIOUS
  <1>4. b - a + 1 = b + 1 - a /\ (IF a <= b THEN b - a + 1 ELSE 0) = b + 1 - a
    OBVIOUS
  <1>5. \A i \in 1..(b + 1 - a) : SubSeq(s, a, b)[i] = s[a - 1 + i]
    BY <1>2, <1>3
  <1> QED
    BY <1>2, <1>4, <1>5 DEF IsPart

LEMMA DropIs ==
    ASSUME NEW buf \in Seq(Nat), NEW n \in 0..Len(buf)
    PROVE  /\ Drop(buf, n) \in Seq(Nat) /\ Len(Drop(buf, n)) = Len(buf) - n
           /\ \A i \in 1..(Len(buf) - n) : Drop(buf, n)[i] = buf[n + i]
  <1>1. /\ Len(buf) \in Nat /\ n + 1 \in Nat /\ 1 <= n + 1 /\ n + 1 <= Len(buf) + 1
        /\ Len(buf) <= Len(buf) /\ n + 1 - 1 = n /\ Len(buf) + 1 - (n + 1) = Len(buf) - n
    OBVIOUS
  <1>2. IsPart(SubSeq(buf, n + 1, Len(buf)), buf, n + 1 - 1, Len(buf) + 1 - (n + 1))
    BY <1>1, SubSeqCells
  <1>3. IsPart(Drop(buf, n), buf, n, Len(buf) - n)
    BY <1>1, <1>2, Zenon DEF Drop
  <1> QED
    BY <1>3 DEF IsPart

LEMMA ConcatCells ==
    ASSUME NEW s \in Seq(Nat), NEW t \in Seq(Nat)
    PROVE  /\ s \o t \in Seq(Nat) /\ Len(s \o t) = Len(s) + Len(t)
           /\ Len(s) \in Nat /\ Len(t) \in Nat
           /\ \A i \in 1..Len(s) : (s \o t)[i] = s[i]
           /\ \A j \in 1..Len(t) : (s \o t)[Len(s) + j] = t[j]
  OBVIOUS

(* A number is what PackLong has made of it. *)
LEMMA BothHalves ==
    ASSUME NEW v \in Nat
    PROVE  v = 4 * (v \div 4) + (v % 4)
  OBVIOUS

LEMMA MapEndIs ==
    ASSUME NEW buf \in Seq(Nat), NEW size \in Nat, NEW p \in Nat, NEW n \in Nat,
           n = MapCount(buf, size, p), p + 1 + 3 * n <= size
    PROVE  \A i \in 0..n : MapEnd(buf, size, p)[i] = p + 1 + 3 * i
  <1> DEFINE good == [i \in 0..n |-> p + 1 + 3 * i]
             Is(f) == f = [i \in 0..n |-> IF i = 0 THEN Past(size, p, 1)
                                ELSE Past(size, Past(size, f[i - 1], 1), 2)]
             end == MapEnd(buf, size, p)
  <1>1. Is(good)
    <2>1. ASSUME NEW i \in 0..n
          PROVE  good[i] = IF i = 0 THEN Past(size, p, 1)
                           ELSE Past(size, Past(size, good[i - 1], 1), 2)
      <3>1. CASE i = 0
        BY <3>1 DEF Past
      <3>2. CASE i # 0
        <4>1. i - 1 \in 0..n /\ good[i - 1] = p + 1 + 3 * (i - 1)
          BY <3>2
        <4>2. p + 1 + 3 * i <= size
          OBVIOUS
        <4>3. good[i] = p + 1 + 3 * i
          OBVIOUS
        <4> HIDE DEF good
        <4>4. Past(size, good[i - 1], 1) = p + 1 + 3 * (i - 1) + 1
          BY <3>2, <4>1, <4>2 DEF Past
        <4> QED
          BY <3>2, <4>2, <4>3, <4>4 DEF Past
      <3> QED
        BY <3>1, <3>2
    <2> QED
      BY <2>1
  <1>2. Is(end)
    BY <1>1 DEF MapEnd
  <1> HIDE DEF end
  <1>3. /\ end[0] = p + 1
        /\ \A i \in 1..n : end[i] = Past(size, Past(size, end[i - 1], 1), 2)
    BY <1>2 DEF Past
  <1> HIDE DEF Is, good
  <1> DEFINE Wrong == {i \in 0..n : end[i] # p + 1 + 3 * i}
  <1>4. CASE Wrong # {}
    <2>1. PICK i \in Wrong : \A k \in Wrong : i <= k
      <3>1. Wrong \in SUBSET Nat
        OBVIOUS
      <3> HIDE DEF Wrong
      <3> QED
        BY <1>4, <3>1, Least
    <2>2. i \in 1..n /\ i - 1 \in 0..n /\ i - 1 \notin Wrong
      BY <1>3, <2>1
    <2>3. end[i - 1] = p + 1 + 3 * (i - 1)
      BY <2>2
    <2>4. p + 1 + 3 * i <= size
      BY <2>2
    <2>5. end[i] = p + 1 + 3 * i
      BY <1>3, <2>2, <2>3, <2>4 DEF Past
    <2> QED
      BY <2>1, <2>5
  <1> QED
    BY <1>4 DEF end

(* u is the n cells of s, and x. *)
IsLonger(u, s, n, x) ==
    u \in Seq(Nat) /\ Len(u) = n + 1 /\ u[n + 1] = x /\ \A i \in 1..n : u[i] = s[i]

LEMMA OneMore ==
    ASSUME NEW s \in Seq(Nat), NEW t \in Seq(Nat), NEW n \in Nat, Len(s) = n, Len(t) = 1
    PROVE  IsLonger(s \o t, s, n, t[1])
  <1>1. /\ s \o t \in Seq(Nat) /\ Len(s \o t) = Len(s) + Len(t)
        /\ \A i \in 1..Len(s) : (s \o t)[i] = s[i]
        /\ \A i \in 1..Len(t) : (s \o t)[Len(s) + i] = t[i]
    BY ConcatCells
  <1>2. (s \o t)[n + 1] = t[1]
    BY <1>1
  <1> QED
    BY <1>1, <1>2 DEF IsLonger

LEMMA Singleton ==
    ASSUME NEW x \in Nat
    PROVE  <<x>> \in Seq(Nat) /\ Len(<<x>>) = 1 /\ <<x>>[1] = x
  OBVIOUS

(* A sequence is known by its cells. *)
LEMMA SameCells ==
    ASSUME NEW s \in Seq(Nat), NEW t \in Seq(Nat), NEW n \in Nat, Len(s) = n, Len(t) = n,
           \A i \in 1..n : s[i] = t[i]
    PROVE  s = t
  BY SeqEqual

-----------------------------------------------------------------------------
(* The cases of the codec, one type of message each. *)

LEMMA TypesDiffer ==
    /\ IR_MONITOR_VER_NEGO_REQ # IR_MONITOR_VER_NEGO_RESP
    /\ IR_MONITOR_VER_NEGO_REQ # IR_MONITOR_LINK_AUTH_REQ
    /\ IR_MONITOR_VER_NEGO_REQ # IR_MONITOR_LINK_AUTH_RESP
    /\ IR_MONITOR_VER_NEGO_RESP # IR_MONITOR_LINK_AUTH_REQ
    /\ IR_MONITOR_VER_NEGO_RESP # IR_MONITOR_LINK_AUTH_RESP
    /\ IR_MONITOR_LINK_AUTH_REQ # IR_MONITOR_LINK_AUTH_RESP
  BY DEF IR_MONITOR_VER_NEGO_REQ, IR_MONITOR_VER_NEGO_RESP,
         IR_MONITOR_LINK_AUTH_REQ, IR_MONITOR_LINK_AUTH_RESP, MSG_TYPE_RESP_OFFSET

LEMMA PackBodyOf ==
    ASSUME NEW b
    PROVE  /\ PackBody(IR_MONITOR_VER_NEGO_REQ, b) = PackString(b[1])
           /\ PackBody(IR_MONITOR_VER_NEGO_RESP, b) = <<>>
           /\ PackBody(IR_MONITOR_LINK_AUTH_REQ, b) = b[1] \o b[2] \o b[3] \o b[4] \o b[5]
           /\ PackBody(IR_MONITOR_LINK_AUTH_RESP, b) =
                  b[1] \o b[2] \o PackLong(b[3][1]) \o PackMap(b[4]) \o PackString(b[5])
  BY TypesDiffer, Zenon DEF PackBody

LEMMA BodyFitsOf ==
    ASSUME NEW buf, NEW size
    PROVE  /\ BodyFits(IR_MONITOR_VER_NEGO_REQ, buf, size) <=> StringFits(buf, size, HeadLen)
           /\ BodyFits(IR_MONITOR_VER_NEGO_RESP, buf, size)
           /\ BodyFits(IR_MONITOR_LINK_AUTH_REQ, buf, size) <=> HeadLen + AuthReqLen <= size
           /\ BodyFits(IR_MONITOR_LINK_AUTH_RESP, buf, size) <=>
                  MapOff <= size /\ StringFits(buf, size, StrOff(buf, size))
  BY TypesDiffer, Zenon DEF BodyFits

LEMMA BodyAtOf ==
    ASSUME NEW buf, NEW size
    PROVE  /\ BodyAt(IR_MONITOR_VER_NEGO_REQ, buf, size) = <<StringAt(buf, HeadLen)>>
           /\ BodyAt(IR_MONITOR_VER_NEGO_RESP, buf, size) = <<>>
           /\ BodyAt(IR_MONITOR_LINK_AUTH_REQ, buf, size) =
                  LET p == HeadLen + LOGIN_ID_LEN
                      q == p + DIGEST_ID_LEN
                  IN  <<SubSeq(buf, HeadLen + 1, p), SubSeq(buf, p + 1, q),
                        <<buf[q + 1]>>, <<buf[q + 2]>>, <<buf[q + 3]>>>>
           /\ BodyAt(IR_MONITOR_LINK_AUTH_RESP, buf, size) =
                  <<<<buf[HeadLen + 1]>>, <<buf[HeadLen + 2]>>, <<LongAt(buf, HeadLen + 2)>>,
                    InKeyOrder(MapAt(buf, size, MapOff)), StringAt(buf, StrOff(buf, size))>>
  BY TypesDiffer, Zenon DEF BodyAt

-----------------------------------------------------------------------------
(* What write_packet writes: the header, whose length is that of the whole *)
(* packet, and the body.                                                   *)

LEMMA PacketCells ==
    ASSUME NEW m \in Message, NEW b \in Seq(Nat), b = PackBody(m.msg_type, m.body)
    PROVE  LET c == WritePacket(m) IN
           /\ c \in Seq(Nat) /\ Len(c) = HeadLen + Len(b)
           /\ c[1] = MSG_HEAD_MAGIC[1] /\ c[2] = MSG_HEAD_MAGIC[2]
           /\ c[TypeAt] = m.msg_type /\ c[LenAt] = Len(c)
           /\ c[LenAt + 1] = m.seq_id /\ c[LenAt + 2] = m.i_ret
           /\ \A j \in 1..Len(b) : c[HeadLen + j] = b[j]
  <1> DEFINE h == PackHeader(m)
             d == h \o b
             c == WritePacket(m)
  <1>1. /\ h \in Seq(Nat) /\ Len(h) = 6
        /\ h[1] = 162 /\ h[2] = 42 /\ h[3] = m.msg_type /\ h[4] = 0 /\ h[5] = m.seq_id /\ h[6] = m.i_ret
    BY DEF PackHeader, MSG_HEAD_MAGIC, Message
  <1> HIDE DEF h
  <1>2. /\ d \in Seq(Nat) /\ Len(d) = 6 + Len(b) /\ Len(b) \in Nat
        /\ \A i \in 1..6 : d[i] = h[i]
        /\ \A j \in 1..Len(b) : d[6 + j] = b[j]
    <2>1. /\ d \in Seq(Nat) /\ Len(d) = Len(h) + Len(b) /\ Len(b) \in Nat
          /\ \A i \in 1..Len(h) : d[i] = h[i]
          /\ \A j \in 1..Len(b) : d[Len(h) + j] = b[j]
      <3>1. /\ h \o b \in Seq(Nat) /\ Len(h \o b) = Len(h) + Len(b) /\ Len(b) \in Nat
            /\ \A i \in 1..Len(h) : (h \o b)[i] = h[i]
            /\ \A j \in 1..Len(b) : (h \o b)[Len(h) + j] = b[j]
        <4>1. h \in Seq(Nat)
          BY <1>1
        <4> QED
          BY <4>1, ConcatCells, Zenon
      <3> QED
        BY <3>1
    <2> HIDE DEF d
    <2> QED
      BY <1>1, <2>1
  <1> HIDE DEF d
  <1>3. c = [d EXCEPT ![4] = Len(d)]
    BY DEF WritePacket, WritePacketSize, LenAt, d, h
  <1> HIDE DEF c
  <1>4. /\ c \in Seq(Nat) /\ Len(c) = Len(d) /\ c[4] = Len(d)
        /\ \A i \in 1..Len(d) : i # 4 => c[i] = d[i]
    BY <1>2, <1>3, ExceptSeq
  <1>5. ASSUME NEW j \in 1..Len(b) PROVE c[6 + j] = b[j]
    <2>1. 6 + j \in 1..Len(d) /\ 6 + j # 4
      <3>1. Len(d) = 6 + Len(b) /\ Len(b) \in Nat
        BY <1>2
      <3> QED
        BY <3>1
    <2> QED
      BY <1>2, <1>4, <2>1
  <1>6. \A i \in {1, 2, 3, 5, 6} : c[i] = h[i]
    <2>1. \A i \in {1, 2, 3, 5, 6} : i \in 1..Len(d) /\ i # 4 /\ i \in 1..6
      BY <1>2
    <2> QED
      BY <1>2, <1>4, <2>1
  <1>7. /\ c \in Seq(Nat) /\ Len(c) = HeadLen + Len(b)
        /\ c[1] = MSG_HEAD_MAGIC[1] /\ c[2] = MSG_HEAD_MAGIC[2]
        /\ c[TypeAt] = m.msg_type /\ c[LenAt] = Len(c)
        /\ c[LenAt + 1] = m.seq_id /\ c[LenAt + 2] = m.i_ret
        /\ \A j \in 1..Len(b) : c[HeadLen + j] = b[j]
    <2>1. c \in Seq(Nat) /\ Len(c) = 6 + Len(b) /\ c[4] = Len(c)
      BY <1>2, <1>4
    <2>2. c[1] = 162 /\ c[2] = 42 /\ c[3] = m.msg_type /\ c[5] = m.seq_id /\ c[6] = m.i_ret
      BY <1>1, <1>6
    <2> HIDE DEF c
    <2> QED
      BY <1>5, <2>1, <2>2 DEF MSG_HEAD_MAGIC, TypeAt, LenAt, HeadLen
  <1> QED
    BY <1>7 DEF c

(* pack_resp of a map: the number of entries, then each key and its two    *)
(* cells.                                                                  *)
LEMMA MapCells ==
    ASSUME NEW m \in Seq(Nat), NEW n \in Nat, Len(m) = 2 * n
    PROVE  LET c == PackMap(m) IN
           /\ c \in Seq(Nat) /\ Len(c) = 1 + 3 * n /\ c[1] = n
           /\ \A e \in 1..n : /\ c[3 * e - 1] = m[2 * e - 1]
                              /\ c[3 * e] = m[2 * e] \div Base
                              /\ c[3 * e + 1] = m[2 * e] % Base
  <1> DEFINE f == [i \in 1..(3 * n) |->
                      LET e == (i - 1) \div 3 IN
                      IF i % 3 = 1 THEN m[2 * e + 1] ELSE PackLong(m[2 * e + 2])[(i - 1) % 3]]
             c == PackMap(m)
  <1>1. Len(m) \div 2 = n
    OBVIOUS
  <1>2. c = <<n>> \o f
    BY <1>1 DEF PackMap
  <1>3. ASSUME NEW v \in Nat
        PROVE  /\ PackLong(v)[1] = v \div Base /\ PackLong(v)[2] = v % Base
               /\ v \div Base \in Nat /\ v % Base \in Nat
    BY DEF PackLong, Base
  <1>4. ASSUME NEW e \in 1..n
        PROVE  /\ 3 * e - 2 \in 1..(3 * n) /\ 3 * e - 1 \in 1..(3 * n) /\ 3 * e \in 1..(3 * n)
               /\ m[2 * e - 1] \in Nat /\ m[2 * e] \in Nat
               /\ f[3 * e - 2] = m[2 * e - 1]
               /\ f[3 * e - 1] = m[2 * e] \div Base
               /\ f[3 * e] = m[2 * e] % Base
    <2>1. 3 * e - 2 \in 1..(3 * n) /\ 3 * e - 1 \in 1..(3 * n) /\ 3 * e \in 1..(3 * n)
      OBVIOUS
    <2>2. 2 * e - 1 \in 1..Len(m) /\ 2 * e \in 1..Len(m)
      OBVIOUS
    <2>3. m[2 * e - 1] \in Nat /\ m[2 * e] \in Nat
      BY <2>2, ElementOfSeq
    <2>4. /\ (3 * e - 3) \div 3 = e - 1 /\ (3 * e - 2) % 3 = 1
          /\ (3 * e - 2) \div 3 = e - 1 /\ (3 * e - 1) % 3 = 2 /\ (3 * e - 2) % 3 = 1
          /\ (3 * e - 1) \div 3 = e - 1 /\ (3 * e) % 3 = 0
      OBVIOUS
    <2>5. f[3 * e - 2] = m[2 * (e - 1) + 1]
      <3>1. 3 * e - 2 - 1 = 3 * e - 3
        OBVIOUS
      <3> QED
        BY <2>1, <2>4, <3>1
    <2>6. f[3 * e - 1] = PackLong(m[2 * (e - 1) + 2])[1]
      BY <2>1, <2>4
    <2>7. f[3 * e] = PackLong(m[2 * (e - 1) + 2])[2]
      BY <2>1, <2>4
    <2>8. 2 * (e - 1) + 1 = 2 * e - 1 /\ 2 * (e - 1) + 2 = 2 * e
      OBVIOUS
    <2> HIDE DEF f
    <2> QED
      BY <1>3, <2>1, <2>3, <2>5, <2>6, <2>7, <2>8
  <1>5. f \in Seq(Nat) /\ Len(f) = 3 * n
    <2>1. ASSUME NEW i \in 1..(3 * n) PROVE f[i] \in Nat
      <3>1. PICK e \in 1..n : i = 3 * e - 2 \/ i = 3 * e - 1 \/ i = 3 * e
        <4>1. (i - 1) \div 3 + 1 \in 1..n
          OBVIOUS
        <4>2. LET e == (i - 1) \div 3 + 1 IN i = 3 * e - 2 \/ i = 3 * e - 1 \/ i = 3 * e
          OBVIOUS
        <4> QED
          BY <4>1, <4>2
      <3>2. m[2 * e - 1] \in Nat /\ m[2 * e] \div Base \in Nat /\ m[2 * e] % Base \in Nat
        BY <1>3, <1>4
      <3> HIDE DEF f
      <3> QED
        BY <1>4, <3>1, <3>2
    <2>2. f \in [1..(3 * n) -> Nat]
      BY <2>1
    <2>3. PICK k \in Nat : k = 3 * n
      OBVIOUS
    <2> HIDE DEF f
    <2>4. f \in [1..k -> Nat]
      BY <2>2, <2>3
    <2>5. f \in Seq(Nat) /\ Len(f) = k
      BY <2>4
    <2> QED
      BY <2>3, <2>5
  <1> HIDE DEF f, c
  <1>6. /\ c \in Seq(Nat) /\ Len(c) = 1 + 3 * n /\ c[1] = n
        /\ \A i \in 1..(3 * n) : c[1 + i] = f[i]
    <2>1. <<n>> \in Seq(Nat) /\ Len(<<n>>) = 1 /\ <<n>>[1] = n
      OBVIOUS
    <2>2. LET d == <<n>> \o f IN
          /\ d \in Seq(Nat) /\ Len(d) = Len(<<n>>) + Len(f)
          /\ \A i \in 1..Len(<<n>>) : d[i] = <<n>>[i]
          /\ \A i \in 1..Len(f) : d[Len(<<n>>) + i] = f[i]
      <3>1. <<n>> \in Seq(Nat) /\ f \in Seq(Nat)
        BY <1>5, <2>1
      <3> QED
        BY <3>1, ConcatCells, Zenon
    <2> QED
      BY <1>2, <1>5, <2>1, <2>2
  <1>7. ASSUME NEW e \in 1..n
        PROVE  /\ c[3 * e - 1] = f[3 * e - 2] /\ c[3 * e] = f[3 * e - 1] /\ c[3 * e + 1] = f[3 * e]
    <2>1. c[1 + (3 * e - 2)] = f[3 * e - 2] /\ c[1 + (3 * e - 1)] = f[3 * e - 1] /\ c[1 + 3 * e] = f[3 * e]
      BY <1>4, <1>6
    <2>2. 1 + (3 * e - 2) = 3 * e - 1 /\ 1 + (3 * e - 1) = 3 * e /\ 1 + 3 * e = 3 * e + 1
      OBVIOUS
    <2> QED
      BY <2>1, <2>2
  <1>8. /\ c \in Seq(Nat) /\ Len(c) = 1 + 3 * n /\ c[1] = n
        /\ \A e \in 1..n : /\ c[3 * e - 1] = m[2 * e - 1]
                           /\ c[3 * e] = m[2 * e] \div Base
                           /\ c[3 * e + 1] = m[2 * e] % Base
    BY <1>4, <1>6, <1>7
  <1> QED
    BY <1>8 DEF c

-----------------------------------------------------------------------------
(* What a map reads.  Its entries are in the order of the keys, and those  *)
(* that are read are given back in that order.                             *)

InOrder(m, n) ==
    /\ m \in Seq(Nat) /\ n \in Nat /\ Len(m) = 2 * n
    /\ \A d, e \in 1..n : d < e => m[2 * d - 1] < m[2 * e - 1]
Key(m, e) == m[2 * e - 1]
Keys(m, n) == {Key(m, e) : e \in 1..n}

LEMMA EntryTypes ==
    ASSUME NEW m, NEW n, InOrder(m, n), NEW e \in 1..n
    PROVE  /\ Key(m, e) \in Nat /\ m[2 * e] \in Nat
           /\ 2 * e - 1 \in 1..Len(m) /\ 2 * e \in 1..Len(m)
  <1>1. 2 * e - 1 \in 1..Len(m) /\ 2 * e \in 1..Len(m) /\ m \in Seq(Nat)
    BY DEF InOrder
  <1> QED
    BY <1>1, ElementOfSeq DEF Key

(* Keys counted: the e-th has e - 1 before it. *)
LEMMA KeysCounted ==
    ASSUME NEW m, NEW n, InOrder(m, n), NEW e \in 1..(n + 1)
    PROVE  Cardinality({Key(m, d) : d \in 1..(e - 1)}) = e - 1
  <1> DEFINE f == [d \in 1..(e - 1) |-> Key(m, d)]
             S == {Key(m, d) : d \in 1..(e - 1)}
  <1>0. n \in Nat /\ e - 1 \in Nat
    BY DEF InOrder
  <1>1. \A c, d \in 1..(e - 1) : f[c] = f[d] => c = d
    <2> SUFFICES ASSUME NEW c \in 1..(e - 1), NEW d \in 1..(e - 1), c < d PROVE Key(m, c) # Key(m, d)
      BY <1>0
    <2>1. c \in 1..n /\ d \in 1..n
      BY <1>0
    <2>2. Key(m, c) < Key(m, d)
      BY <2>1 DEF InOrder, Key
    <2> QED
      BY <2>1, <2>2, EntryTypes
  <1>2. f \in Bijection(1..(e - 1), S)
    BY <1>1 DEF Bijection, Injection, Surjection, IsInjective
  <1>3. ExistsBijection(1..(e - 1), S)
    BY <1>2 DEF ExistsBijection
  <1> HIDE DEF S
  <1>4. Cardinality(S) = e - 1
    BY <1>0, <1>3, FS_CountingElements
  <1> QED
    BY <1>4 DEF S

LEMMA KeysBefore ==
    ASSUME NEW m, NEW n, InOrder(m, n), NEW e \in 1..n
    PROVE  Cardinality({k \in Keys(m, n) : k < Key(m, e)}) = e - 1
  <1>1. {k \in Keys(m, n) : k < Key(m, e)} = {Key(m, d) : d \in 1..(e - 1)}
    <2>1. n \in Nat
      BY DEF InOrder
    <2>2. ASSUME NEW d \in 1..n PROVE Key(m, d) < Key(m, e) <=> d \in 1..(e - 1)
      <3>1. Key(m, d) \in Nat /\ Key(m, e) \in Nat
        BY EntryTypes
      <3>2. d < e => Key(m, d) < Key(m, e)
        BY DEF InOrder, Key
      <3>3. e < d => Key(m, e) < Key(m, d)
        BY DEF InOrder, Key
      <3> QED
        BY <2>1, <3>1, <3>2, <3>3
    <2>3. 1..(e - 1) \subseteq 1..n
      BY <2>1
    <2> QED
      BY <2>2, <2>3 DEF Keys
  <1>2. e \in 1..(n + 1)
    BY DEF InOrder
  <1> QED
    BY <1>1, <1>2, KeysCounted

LEMMA KeyOrder ==
    ASSUME NEW m, NEW n, InOrder(m, n), NEW map, DOMAIN map = Keys(m, n),
           \A e \in 1..n : map[Key(m, e)] = m[2 * e]
    PROVE  InKeyOrder(map) = m
  <1> DEFINE key(i) == CHOOSE k \in DOMAIN map : Cardinality({j \in DOMAIN map : j < k}) = i
  <1>0. n \in Nat /\ m \in Seq(Nat) /\ Len(m) = 2 * n
    BY DEF InOrder
  <1>1. ASSUME NEW e \in 1..n PROVE key(e - 1) = Key(m, e)
    <2>1. Key(m, e) \in DOMAIN map /\ Cardinality({j \in DOMAIN map : j < Key(m, e)}) = e - 1
      BY KeysBefore DEF Keys
    <2>2. ASSUME NEW k \in DOMAIN map, Cardinality({j \in DOMAIN map : j < k}) = e - 1
          PROVE  k = Key(m, e)
      <3>1. PICK d \in 1..n : k = Key(m, d)
        BY DEF Keys
      <3>2. d - 1 = e - 1
        BY <2>2, <3>1, KeysBefore
      <3> QED
        BY <1>0, <3>1, <3>2
    <2> QED
      BY <2>1, <2>2
  <1>2. Cardinality(DOMAIN map) = n
    <2>1. n + 1 \in 1..(n + 1) /\ (n + 1) - 1 = n
      BY <1>0
    <2> QED
      BY <2>1, KeysCounted DEF Keys
  <1> DEFINE s == [i \in 1..(2 * n) |->
                      IF i % 2 = 1 THEN key(i \div 2) ELSE map[key(i \div 2 - 1)]]
  <1>3. InKeyOrder(map) = s
    BY <1>2 DEF InKeyOrder
  <1> HIDE DEF key
  <1>4. ASSUME NEW i \in 1..(2 * n) PROVE s[i] = m[i]
    <2>1. CASE i % 2 = 1
      <3> DEFINE e == i \div 2 + 1
      <3>1. e \in 1..n /\ i = 2 * e - 1 /\ i \div 2 = e - 1
        BY <1>0, <2>1
      <3> HIDE DEF e
      <3> QED
        BY <1>1, <2>1, <3>1 DEF Key
    <2>2. CASE i % 2 # 1
      <3> DEFINE e == i \div 2
      <3>1. e \in 1..n /\ i = 2 * e /\ i \div 2 - 1 = e - 1
        BY <1>0, <2>2
      <3> HIDE DEF e
      <3> QED
        BY <1>1, <2>2, <3>1
    <2> QED
      BY <2>1, <2>2
  <1>5. m = [i \in 1..(2 * n) |-> m[i]]
    BY <1>0, LenProperties
  <1> QED
    BY <1>3, <1>4, <1>5

(* The cells from p on are those of the map m of n entries, and size says  *)
(* that they may be read.                                                  *)
HasMap(buf, size, p, m, n) ==
    /\ buf \in Seq(Nat) /\ p \in Nat /\ size \in Nat /\ size <= Len(buf)
    /\ p + 1 + 3 * n <= size
    /\ buf[p + 1] = n
    /\ \A e \in 1..n : /\ buf[p + 3 * e - 1] = Key(m, e)
                       /\ buf[p + 3 * e] = m[2 * e] \div Base
                       /\ buf[p + 3 * e + 1] = m[2 * e] % Base

LEMMA MapRead ==
    ASSUME NEW m, NEW n, InOrder(m, n), NEW buf, NEW size, NEW p, HasMap(buf, size, p, m, n)
    PROVE  /\ MapCount(buf, size, p) = n
           /\ MapEnd(buf, size, p)[n] = p + 1 + 3 * n
           /\ InKeyOrder(MapAt(buf, size, p)) = m
  <1>0. /\ buf \in Seq(Nat) /\ p \in Nat /\ size \in Nat /\ n \in Nat /\ Len(buf) \in Nat
        /\ p + 1 + 3 * n <= size /\ size <= Len(buf)
    BY LenProperties DEF HasMap, InOrder
  <1>1. MapCount(buf, size, p) = n
    BY <1>0 DEF HasMap, MapCount
  <1>2. \A i \in 0..n : MapEnd(buf, size, p)[i] = p + 1 + 3 * i
    BY <1>0, <1>1, MapEndIs
  <1> DEFINE end == MapEnd(buf, size, p)
             entries == 1..n
             key == CHOOSE key : key = [i \in {0} \cup entries |->
                        IF i = 0 THEN 0
                        ELSE IF end[i - 1] + 1 <= size THEN buf[end[i - 1] + 1] ELSE key[i - 1]]
             data == CHOOSE data : data = [i \in {0} \cup entries |->
                        LET q == Past(size, end[i - 1], 1) IN
                        IF i = 0 THEN 0 ELSE IF q + 2 <= size THEN LongAt(buf, q) ELSE data[i - 1]]
             last(k) == CHOOSE i \in entries : key[i] = k /\ \A j \in entries : j > i => key[j] # k
  <1>3. MapAt(buf, size, p) = [k \in {key[i] : i \in entries} |-> data[last(k)]]
    BY <1>1 DEF MapAt
  <1> HIDE DEF end
  <1>4. ASSUME NEW e \in 1..n
        PROVE  /\ end[e - 1] + 1 = p + 3 * e - 1 /\ end[e - 1] + 1 <= size
               /\ Past(size, end[e - 1], 1) = p + 3 * e - 1 /\ p + 3 * e - 1 + 2 <= size
    <2>1. e - 1 \in 0..n
      BY <1>0
    <2>2. end[e - 1] = p + 1 + 3 * (e - 1)
      BY <1>2, <2>1 DEF end
    <2>3. p + 3 * e + 1 <= size
      BY <1>0
    <2> QED
      BY <1>0, <2>2, <2>3 DEF Past
  <1>5. \A e \in 1..n : key[e] = Key(m, e)
    <2> DEFINE good == [i \in {0} \cup entries |-> IF i = 0 THEN 0 ELSE Key(m, i)]
    <2>1. good = [i \in {0} \cup entries |->
                    IF i = 0 THEN 0
                    ELSE IF end[i - 1] + 1 <= size THEN buf[end[i - 1] + 1] ELSE good[i - 1]]
      <3>1. ASSUME NEW i \in {0} \cup entries
            PROVE  good[i] = IF i = 0 THEN 0
                    ELSE IF end[i - 1] + 1 <= size THEN buf[end[i - 1] + 1] ELSE good[i - 1]
        <4>1. CASE i = 0
          BY <4>1
        <4>2. CASE i # 0
          <5>1. i \in 1..n
            BY <4>2
          <5>2. buf[end[i - 1] + 1] = Key(m, i)
            BY <1>4, <5>1 DEF HasMap
          <5> QED
            BY <1>4, <4>2, <5>1, <5>2
        <4> QED
          BY <4>1, <4>2
      <3> QED
        BY <3>1
    <2> HIDE DEF good
    <2>2. key = [i \in {0} \cup entries |->
                    IF i = 0 THEN 0
                    ELSE IF end[i - 1] + 1 <= size THEN buf[end[i - 1] + 1] ELSE key[i - 1]]
      BY <2>1
    <2> HIDE DEF key
    <2> SUFFICES ASSUME NEW e \in 1..n PROVE key[e] = Key(m, e)
      OBVIOUS
    <2>3. key[e] = buf[end[e - 1] + 1]
      BY <1>0, <1>4, <2>2
    <2> QED
      BY <1>4, <2>3 DEF HasMap
  <1>6. \A e \in 1..n : data[e] = m[2 * e]
    <2>0. ASSUME NEW e \in 1..n PROVE LongAt(buf, p + 3 * e - 1) = m[2 * e]
      <3>1. p + 3 * e - 1 + 1 = p + 3 * e /\ p + 3 * e - 1 + 2 = p + 3 * e + 1
        BY <1>0
      <3>2. buf[p + 3 * e] = m[2 * e] \div 4 /\ buf[p + 3 * e + 1] = m[2 * e] % 4
        BY DEF HasMap, Base
      <3>3. LongAt(buf, p + 3 * e - 1) = buf[p + 3 * e] * 4 + buf[p + 3 * e + 1]
        BY <3>1 DEF LongAt, Base
      <3>5. m[2 * e] \in Nat
        BY EntryTypes
      <3>6. m[2 * e] \div 4 \in Nat /\ m[2 * e] % 4 \in Nat
        BY <3>5
      <3> QED
        BY <3>2, <3>3, <3>5, <3>6, BothHalves
    <2> DEFINE good == [i \in {0} \cup entries |-> IF i = 0 THEN 0 ELSE m[2 * i]]
    <2>1. good = [i \in {0} \cup entries |->
                    LET q == Past(size, end[i - 1], 1) IN
                    IF i = 0 THEN 0 ELSE IF q + 2 <= size THEN LongAt(buf, q) ELSE good[i - 1]]
      <3>1. ASSUME NEW i \in {0} \cup entries
            PROVE  good[i] = LET q == Past(size, end[i - 1], 1) IN
                    IF i = 0 THEN 0 ELSE IF q + 2 <= size THEN LongAt(buf, q) ELSE good[i - 1]
        <4>1. CASE i = 0
          BY <4>1
        <4>2. CASE i # 0
          <5>1. i \in 1..n
            BY <4>2
          <5> QED
            BY <1>4, <2>0, <4>2, <5>1
        <4> QED
          BY <4>1, <4>2
      <3> QED
        BY <3>1
    <2> HIDE DEF good
    <2>2. data = [i \in {0} \cup entries |->
                    LET q == Past(size, end[i - 1], 1) IN
                    IF i = 0 THEN 0 ELSE IF q + 2 <= size THEN LongAt(buf, q) ELSE data[i - 1]]
      BY <2>1
    <2> HIDE DEF data
    <2> SUFFICES ASSUME NEW e \in 1..n PROVE data[e] = m[2 * e]
      OBVIOUS
    <2>3. data[e] = LongAt(buf, p + 3 * e - 1)
      BY <1>0, <1>4, <2>2
    <2> QED
      BY <2>0, <2>3
  <1> HIDE DEF key, data
  <1>7. \A e \in 1..n : last(Key(m, e)) = e
    <2>1. ASSUME NEW d \in 1..n, NEW e \in 1..n, Key(m, d) = Key(m, e) PROVE d = e
      <3>1. /\ Key(m, d) \in Nat /\ Key(m, e) \in Nat
            /\ d < e => Key(m, d) < Key(m, e)
            /\ e < d => Key(m, e) < Key(m, d)
        BY EntryTypes DEF InOrder, Key
      <3> QED
        BY <2>1, <3>1
    <2> QED
      BY <1>0, <1>5, <2>1
  <1> DEFINE map == MapAt(buf, size, p)
  <1>8. DOMAIN map = Keys(m, n) /\ \A e \in 1..n : map[Key(m, e)] = m[2 * e]
    <2>1. {key[i] : i \in entries} = Keys(m, n)
      BY <1>5 DEF Keys
    <2> HIDE DEF last
    <2>2. DOMAIN map = Keys(m, n)
      BY <1>3, <2>1
    <2> SUFFICES ASSUME NEW e \in 1..n PROVE map[Key(m, e)] = m[2 * e]
      BY <2>2
    <2>3. Key(m, e) \in {key[i] : i \in entries}
      BY <1>5
    <2>4. map[Key(m, e)] = data[last(Key(m, e))]
      BY <1>3, <2>3
    <2> QED
      BY <1>6, <1>7, <2>4
  <1> HIDE DEF map
  <1>9. InKeyOrder(map) = m
    BY <1>8, KeyOrder
  <1>10. MapEnd(buf, size, p)[n] = p + 1 + 3 * n
    BY <1>0, <1>2
  <1> QED
    BY <1>1, <1>9, <1>10 DEF map

-----------------------------------------------------------------------------
(* What is written is read as it was meant, at the head of any buffer.     *)

(* The messages of each type, as the samples make them: a field of fixed   *)
(* size has that size, and the keys of a map are in order.                 *)
VerReqForm(m) ==
    m.msg_type = IR_MONITOR_VER_NEGO_REQ /\ \E s \in Seq(Nat) : m.body = <<s>>
VerRespForm(m) == m.msg_type = IR_MONITOR_VER_NEGO_RESP /\ m.body = <<>>
AuthReqForm(m) ==
    /\ m.msg_type = IR_MONITOR_LINK_AUTH_REQ
    /\ \E id, digest \in Seq(Nat), x, y, z \in Nat :
           /\ Len(id) = LOGIN_ID_LEN /\ Len(digest) = DIGEST_ID_LEN
           /\ m.body = <<id, digest, <<x>>, <<y>>, <<z>>>>
AuthRespForm(m) ==
    /\ m.msg_type = IR_MONITOR_LINK_AUTH_RESP
    /\ \E x, y, v, n \in Nat, map, s \in Seq(Nat) :
           InOrder(map, n) /\ m.body = <<<<x>>, <<y>>, <<v>>, map, s>>
Writable(m) ==
    m \in Message /\ (VerReqForm(m) \/ VerRespForm(m) \/ AuthReqForm(m) \/ AuthRespForm(m))

Begins(buf, c) ==
    /\ buf \in Seq(Nat) /\ c \in Seq(Nat) /\ Len(c) <= Len(buf)
    /\ \A j \in 1..Len(c) : buf[j] = c[j]

HasPacket(buf, m) ==
    LET size == Len(WritePacket(m)) IN
    /\ TotalLen(buf, 0) = size /\ buf[TypeAt] = m.msg_type
    /\ PacketFits(buf, size) /\ ReadPacket(buf, size) = m

(* buf begins with the header of m and the cells b after it. *)
HasBody(buf, m, b) ==
    /\ buf \in Seq(Nat) /\ Len(WritePacket(m)) = 6 + Len(b) /\ 6 + Len(b) <= Len(buf)
    /\ buf[3] = m.msg_type /\ buf[4] = 6 + Len(b) /\ buf[5] = m.seq_id /\ buf[6] = m.i_ret
    /\ \A j \in 1..Len(b) : buf[6 + j] = b[j]

LEMMA HeaderRead ==
    ASSUME NEW m \in Message, NEW b \in Seq(Nat), b = PackBody(m.msg_type, m.body),
           NEW buf, Begins(buf, WritePacket(m))
    PROVE  HasBody(buf, m, b)
  <1> DEFINE c == WritePacket(m)
  <1>1. /\ c \in Seq(Nat) /\ Len(c) = 6 + Len(b) /\ Len(b) \in Nat
        /\ c[3] = m.msg_type /\ c[4] = Len(c) /\ c[5] = m.seq_id /\ c[6] = m.i_ret
        /\ \A j \in 1..Len(b) : c[6 + j] = b[j]
    <2>1. Len(b) \in Nat
      BY LenProperties
    <2>2. /\ c \in Seq(Nat) /\ Len(c) = HeadLen + Len(b)
          /\ c[TypeAt] = m.msg_type /\ c[LenAt] = Len(c)
          /\ c[LenAt + 1] = m.seq_id /\ c[LenAt + 2] = m.i_ret
          /\ \A j \in 1..Len(b) : c[HeadLen + j] = b[j]
      BY PacketCells
    <2> HIDE DEF c
    <2> QED
      BY <2>1, <2>2 DEF TypeAt, LenAt, HeadLen
  <1> HIDE DEF c
  <1>2. buf \in Seq(Nat) /\ Len(c) <= Len(buf) /\ \A j \in 1..Len(c) : buf[j] = c[j]
    BY DEF Begins, c
  <1>3. buf[3] = c[3] /\ buf[4] = c[4] /\ buf[5] = c[5] /\ buf[6] = c[6]
    <2>1. 3 \in 1..Len(c) /\ 4 \in 1..Len(c) /\ 5 \in 1..Len(c) /\ 6 \in 1..Len(c)
      BY <1>1
    <2> QED
      BY <1>2, <2>1
  <1>4. ASSUME NEW j \in 1..Len(b) PROVE buf[6 + j] = b[j]
    <2>1. 6 + j \in 1..Len(c)
      BY <1>1
    <2> QED
      BY <1>1, <1>2, <2>1
  <1> QED
    BY <1>1, <1>2, <1>3, <1>4 DEF c, HasBody

LEMMA BodyRead ==
    ASSUME NEW m \in Message, NEW b \in Seq(Nat), b = PackBody(m.msg_type, m.body),
           NEW buf, Begins(buf, WritePacket(m)),
           BodyFits(m.msg_type, buf, 6 + Len(b)), BodyAt(m.msg_type, buf, 6 + Len(b)) = m.body
    PROVE  HasPacket(buf, m)
  <1>1. /\ Len(WritePacket(m)) = 6 + Len(b) /\ Len(b) \in Nat
        /\ buf[3] = m.msg_type /\ buf[4] = 6 + Len(b) /\ buf[5] = m.seq_id /\ buf[6] = m.i_ret
    <2>1. HasBody(buf, m, b)
      BY HeaderRead, Zenon
    <2> QED
      BY <2>1, LenProperties DEF HasBody
  <1>2. ReadPacket(buf, 6 + Len(b)) = m
    BY <1>1 DEF ReadPacket, TypeAt, LenAt, Message
  <1>3. PacketFits(buf, 6 + Len(b))
    BY <1>1 DEF PacketFits, HeadLen, TypeAt
  <1>4. TotalLen(buf, 0) = 6 + Len(b) /\ buf[TypeAt] = m.msg_type
    BY <1>1 DEF TotalLen, LenAt, TypeAt
  <1> QED
    BY <1>1, <1>2, <1>3, <1>4 DEF HasPacket

(* A string inside a buffer. *)
LEMMA StringCells ==
    ASSUME NEW s \in Seq(Nat)
    PROVE  /\ PackString(s) \in Seq(Nat) /\ Len(PackString(s)) = 1 + Len(s) /\ Len(s) \in Nat
           /\ PackString(s)[1] = Len(s)
           /\ \A j \in 1..Len(s) : PackString(s)[1 + j] = s[j]
  BY DEF PackString

LEMMA StringRead ==
    ASSUME NEW s \in Seq(Nat), NEW buf \in Seq(Nat), NEW p \in Nat, NEW size \in Nat,
           size <= Len(buf), p + 1 + Len(s) <= size,
           buf[p + 1] = Len(s), \A j \in 1..Len(s) : buf[p + 1 + j] = s[j]
    PROVE  StringFits(buf, size, p) /\ StringAt(buf, p) = s
  <1>1. StringFits(buf, size, p)
    BY DEF StringFits
  <1>2. /\ StringAt(buf, p) = SubSeq(buf, p + 2, p + 1 + Len(s))
        /\ Len(s) \in Nat /\ Len(buf) \in Nat
    BY LenProperties DEF StringAt
  <1> DEFINE t == SubSeq(buf, p + 2, p + 1 + Len(s))
  <1>3. /\ Len(t) = Len(s) /\ t \in Seq(Nat)
        /\ \A j \in 1..Len(s) : t[j] = buf[p + 1 + j]
    <2>0. Len(s) \in Nat
      BY <1>2
    <2>1. p + 2 \in Nat /\ p + 1 + Len(s) \in Nat /\ p + 1 + Len(s) + 1 - (p + 2) = Len(s)
      BY <2>0
    <2>2. /\ 1 <= p + 2 /\ p + 2 <= p + 1 + Len(s) + 1 /\ p + 1 + Len(s) <= Len(buf)
          /\ p + 2 - 1 = p + 1
      BY <1>2
    <2>3. IsPart(t, buf, p + 2 - 1, p + 1 + Len(s) + 1 - (p + 2))
      BY <2>1, <2>2, SubSeqCells
    <2>4. IsPart(t, buf, p + 1, Len(s))
      BY <2>1, <2>2, <2>3, Zenon
    <2> QED
      BY <2>4 DEF IsPart
  <1>4. \A j \in 1..Len(s) : t[j] = s[j]
    BY <1>3
  <1> HIDE DEF t
  <1>5. t = s
    BY <1>3, <1>4, SeqEqual
  <1> QED
    BY <1>1, <1>2, <1>5 DEF t

LEMMA VerReqRead ==
    ASSUME NEW m \in Message, VerReqForm(m), NEW buf, Begins(buf, WritePacket(m))
    PROVE  HasPacket(buf, m)
  <1>1. PICK s \in Seq(Nat) : m.body = <<s>>
    BY DEF VerReqForm
  <1> DEFINE b == PackString(s)
  <1>2. b = PackBody(m.msg_type, m.body) /\ m.msg_type = IR_MONITOR_VER_NEGO_REQ
    <2>1. PackBody(IR_MONITOR_VER_NEGO_REQ, <<s>>) = PackString(<<s>>[1]) /\ <<s>>[1] = s
      BY PackBodyOf
    <2> QED
      BY <1>1, <2>1 DEF VerReqForm
  <1>3. /\ b \in Seq(Nat) /\ Len(b) = 1 + Len(s) /\ Len(s) \in Nat /\ b[1] = Len(s)
        /\ \A j \in 1..Len(s) : b[1 + j] = s[j]
    BY StringCells
  <1> HIDE DEF b
  <1>4. /\ buf \in Seq(Nat) /\ 6 + Len(b) <= Len(buf)
        /\ \A j \in 1..Len(b) : buf[6 + j] = b[j]
    <2>1. HasBody(buf, m, b)
      BY <1>2, <1>3, HeaderRead, Zenon
    <2> QED
      BY <2>1 DEF HasBody
  <1>5. buf[7] = Len(s)
    <2>1. buf[6 + 1] = b[1]
      BY <1>3, <1>4
    <2> QED
      BY <1>3, <2>1
  <1>6. ASSUME NEW j \in 1..Len(s) PROVE buf[6 + 1 + j] = s[j]
    <2>1. 1 + j \in 1..Len(b) /\ 6 + (1 + j) = 6 + 1 + j
      BY <1>3
    <2> QED
      BY <1>3, <1>4, <2>1
  <1>7. StringFits(buf, 6 + Len(b), 6) /\ StringAt(buf, 6) = s
    <2>1. 6 \in Nat /\ 6 + Len(b) \in Nat /\ 6 + 1 + Len(s) <= 6 + Len(b) /\ buf[6 + 1] = Len(s)
      BY <1>3, <1>5
    <2> QED
      BY <1>4, <1>6, <2>1, StringRead
  <1>8. BodyFits(m.msg_type, buf, 6 + Len(b)) /\ BodyAt(m.msg_type, buf, 6 + Len(b)) = m.body
    <2>1. StringFits(buf, 6 + Len(b), HeadLen) /\ StringAt(buf, HeadLen) = s
      BY <1>7 DEF HeadLen
    <2> QED
      BY <1>1, <1>2, <2>1, BodyFitsOf, BodyAtOf
  <1> QED
    BY <1>2, <1>3, <1>4, <1>8, BodyRead

LEMMA VerRespRead ==
    ASSUME NEW m \in Message, VerRespForm(m), NEW buf, Begins(buf, WritePacket(m))
    PROVE  HasPacket(buf, m)
  <1> DEFINE b == <<>>
  <1>1. b = PackBody(m.msg_type, m.body) /\ b \in Seq(Nat)
    <2>1. PackBody(IR_MONITOR_VER_NEGO_RESP, <<>>) = <<>>
      BY PackBodyOf
    <2> QED
      BY <2>1 DEF VerRespForm
  <1>2. BodyFits(m.msg_type, buf, 6 + Len(b)) /\ BodyAt(m.msg_type, buf, 6 + Len(b)) = m.body
    BY BodyFitsOf, BodyAtOf DEF VerRespForm
  <1> HIDE DEF b
  <1> QED
    BY <1>1, <1>2, BodyRead

LEMMA AuthReqRead ==
    ASSUME NEW m \in Message, AuthReqForm(m), NEW buf, Begins(buf, WritePacket(m))
    PROVE  HasPacket(buf, m)
  <1>1. PICK id \in Seq(Nat), digest \in Seq(Nat), x \in Nat, y \in Nat, z \in Nat :
            /\ Len(id) = 2 /\ Len(digest) = 1
            /\ m.body = <<id, digest, <<x>>, <<y>>, <<z>>>>
    BY DEF AuthReqForm, LOGIN_ID_LEN, DIGEST_ID_LEN
  <1> DEFINE b == id \o digest \o <<x>> \o <<y>> \o <<z>>
  <1>2. b = PackBody(m.msg_type, m.body) /\ m.msg_type = IR_MONITOR_LINK_AUTH_REQ
    <2> DEFINE body == <<id, digest, <<x>>, <<y>>, <<z>>>>
    <2>1. PackBody(IR_MONITOR_LINK_AUTH_REQ, body)
             = body[1] \o body[2] \o body[3] \o body[4] \o body[5]
      BY PackBodyOf
    <2>2. /\ body[1] = id /\ body[2] = digest
          /\ body[3] = <<x>> /\ body[4] = <<y>> /\ body[5] = <<z>>
      OBVIOUS
    <2> HIDE DEF body
    <2>3. b = PackBody(IR_MONITOR_LINK_AUTH_REQ, body)
      BY <2>1, <2>2
    <2> QED
      BY <1>1, <2>3 DEF AuthReqForm, body
  <1>3. /\ b \in Seq(Nat) /\ Len(b) = 6
        /\ b[1] = id[1] /\ b[2] = id[2] /\ b[3] = digest[1] /\ b[4] = x /\ b[5] = y /\ b[6] = z
    <2> DEFINE X == <<x>>
               Y == <<y>>
               Z == <<z>>
               c == id \o digest
               d == c \o X
               e == d \o Y
    <2>0. 3 \in Nat /\ 4 \in Nat /\ 5 \in Nat
      OBVIOUS
    <2>1. c \in Seq(Nat) /\ Len(c) = 3 /\ c[1] = id[1] /\ c[2] = id[2] /\ c[3] = digest[1]
      <3>1. /\ c \in Seq(Nat) /\ Len(c) = Len(id) + Len(digest)
            /\ \A i \in 1..Len(id) : c[i] = id[i]
            /\ \A i \in 1..Len(digest) : c[Len(id) + i] = digest[i]
        BY ConcatCells
      <3> HIDE DEF c
      <3> QED
        BY <1>1, <3>1
    <2>2. b = e \o Z
      OBVIOUS
    <2>3. /\ X \in Seq(Nat) /\ Len(X) = 1 /\ X[1] = x
          /\ Y \in Seq(Nat) /\ Len(Y) = 1 /\ Y[1] = y
          /\ Z \in Seq(Nat) /\ Len(Z) = 1 /\ Z[1] = z
      BY Singleton
    <2> HIDE DEF b, c, X, Y, Z
    <2>4. d \in Seq(Nat) /\ Len(d) = 3 + 1 /\ d[3 + 1] = x /\ \A i \in 1..3 : d[i] = c[i]
      <3>1. IsLonger(d, c, 3, X[1])
        BY <2>0, <2>1, <2>3, OneMore, Zenon
      <3> HIDE DEF d
      <3> QED
        BY <2>3, <3>1 DEF IsLonger
    <2> HIDE DEF d
    <2>5. d \in Seq(Nat) /\ Len(d) = 4 /\ d[4] = x
      BY <2>4
    <2>6. e \in Seq(Nat) /\ Len(e) = 4 + 1 /\ e[4 + 1] = y /\ \A i \in 1..4 : e[i] = d[i]
      <3>1. IsLonger(d \o Y, d, 4, Y[1])
        <4>1. d \in Seq(Nat) /\ Len(d) = 4
          BY <2>5
        <4>2. Y \in Seq(Nat) /\ Len(Y) = 1 /\ 4 \in Nat
          BY <2>0, <2>3
        <4> HIDE DEF e
        <4> QED
          BY <4>1, <4>2, OneMore, Zenon
      <3>2. IsLonger(e, d, 4, y)
        BY <2>3, <3>1, Zenon
      <3> HIDE DEF e
      <3> QED
        BY <3>2 DEF IsLonger
    <2> HIDE DEF e
    <2>7. e \in Seq(Nat) /\ Len(e) = 5 /\ e[5] = y
      BY <2>6
    <2>8. b \in Seq(Nat) /\ Len(b) = 5 + 1 /\ b[5 + 1] = z /\ \A i \in 1..5 : b[i] = e[i]
      <3>1. IsLonger(e \o Z, e, 5, Z[1])
        <4>1. e \in Seq(Nat) /\ Len(e) = 5
          BY <2>7
        <4>2. Z \in Seq(Nat) /\ Len(Z) = 1 /\ 5 \in Nat
          BY <2>0, <2>3
        <4> QED
          BY <4>1, <4>2, OneMore, Zenon
      <3>2. IsLonger(b, e, 5, z)
        BY <2>2, <2>3, <3>1, Zenon
      <3> QED
        BY <3>2 DEF IsLonger
    <2>9. b[1] = c[1] /\ b[2] = c[2] /\ b[3] = c[3] /\ b[4] = d[4] /\ b[5] = e[5]
      BY <2>4, <2>6, <2>8
    <2> QED
      BY <2>1, <2>5, <2>7, <2>8, <2>9
  <1> HIDE DEF b
  <1>4. buf \in Seq(Nat) /\ 6 + Len(b) <= Len(buf) /\ \A j \in 1..Len(b) : buf[6 + j] = b[j]
    <2>1. HasBody(buf, m, b)
      BY <1>2, <1>3, HeaderRead, Zenon
    <2> QED
      BY <2>1 DEF HasBody
  <1>5. /\ buf[7] = id[1] /\ buf[8] = id[2] /\ buf[9] = digest[1]
        /\ buf[10] = x /\ buf[11] = y /\ buf[12] = z
    <2>0. \A j \in 1..6 : buf[6 + j] = b[j]
      BY <1>3, <1>4
    <2>1. /\ buf[6 + 1] = b[1] /\ buf[6 + 2] = b[2] /\ buf[6 + 3] = b[3]
          /\ buf[6 + 4] = b[4] /\ buf[6 + 5] = b[5] /\ buf[6 + 6] = b[6]
      BY <2>0
    <2> QED
      BY <1>3, <2>1
  <1>6. SubSeq(buf, 7, 8) = id
    <2> DEFINE t == SubSeq(buf, 7, 8)
    <2>0. 7 \in Nat /\ 8 \in Nat /\ 8 <= Len(buf) /\ 8 + 1 - 7 = 2 /\ 7 - 1 = 6
      BY <1>3, <1>4
    <2>1. t \in Seq(Nat) /\ Len(t) = 2 /\ \A i \in 1..2 : t[i] = buf[6 + i]
      <3>1. 1 <= 7 /\ 7 <= 8 + 1
        OBVIOUS
      <3>2. IsPart(t, buf, 7 - 1, 8 + 1 - 7)
        BY <1>4, <2>0, <3>1, SubSeqCells
      <3> QED
        BY <2>0, <3>2 DEF IsPart
    <2> HIDE DEF t
    <2>2. t[1] = buf[7] /\ t[2] = buf[8]
      BY <2>1
    <2>3. \A i \in 1..2 : t[i] = id[i]
      BY <1>5, <2>2
    <2>4. t = id
      <3>1. t \in Seq(Nat) /\ id \in Seq(Nat) /\ Len(t) = 2 /\ Len(id) = 2
        BY <1>1, <2>1
      <3> QED
        BY <2>3, <3>1, SameCells, Zenon
    <2> QED
      BY <2>4 DEF t
  <1>7. SubSeq(buf, 9, 9) = digest
    <2> DEFINE t == SubSeq(buf, 9, 9)
    <2>0. 9 \in Nat /\ 9 <= Len(buf) /\ 9 + 1 - 9 = 1 /\ 9 - 1 = 8
      BY <1>3, <1>4
    <2>1. t \in Seq(Nat) /\ Len(t) = 1 /\ \A i \in 1..1 : t[i] = buf[8 + i]
      <3>1. 1 <= 9 /\ 9 <= 9 + 1
        OBVIOUS
      <3>2. IsPart(t, buf, 9 - 1, 9 + 1 - 9)
        BY <1>4, <2>0, <3>1, SubSeqCells
      <3> QED
        BY <2>0, <3>2 DEF IsPart
    <2> HIDE DEF t
    <2>2. \A i \in 1..1 : t[i] = digest[i]
      BY <1>5, <2>1
    <2>3. t = digest
      <3>1. t \in Seq(Nat) /\ digest \in Seq(Nat) /\ Len(t) = 1 /\ Len(digest) = 1
        BY <1>1, <2>1
      <3> QED
        BY <2>2, <3>1, SameCells, Zenon
    <2> QED
      BY <2>3 DEF t
  <1>8. BodyFits(m.msg_type, buf, 12)
    <2>1. HeadLen + AuthReqLen <= 12
      BY DEF AuthReqLen, HeadLen, LOGIN_ID_LEN, DIGEST_ID_LEN
    <2> QED
      BY <1>2, <2>1, BodyFitsOf
  <1>9. BodyAt(m.msg_type, buf, 12)
          = <<SubSeq(buf, 7, 8), SubSeq(buf, 9, 9), <<buf[10]>>, <<buf[11]>>, <<buf[12]>>>>
    <2>1. /\ HeadLen + 1 = 7 /\ HeadLen + LOGIN_ID_LEN = 8 /\ 8 + 1 = 9 /\ 8 + DIGEST_ID_LEN = 9
          /\ 9 + 1 = 10 /\ 9 + 2 = 11 /\ 9 + 3 = 12
      BY DEF HeadLen, LOGIN_ID_LEN, DIGEST_ID_LEN
    <2> QED
      BY <1>2, <2>1, BodyAtOf
  <1>10. BodyAt(m.msg_type, buf, 12) = m.body
    BY <1>1, <1>5, <1>6, <1>7, <1>9
  <1>11. 6 + Len(b) = 12
    BY <1>3
  <1> QED
    BY <1>2, <1>3, <1>8, <1>10, <1>11, BodyRead

(* The cells of a body with a map: four, the map's, and the string's. *)
RespCells(b, x, y, v, n, map, s) ==
    /\ b \in Seq(Nat) /\ Len(b) = 6 + 3 * n + Len(s) /\ Len(s) \in Nat
    /\ b[1] = x /\ b[2] = y /\ b[3] = v \div 4 /\ b[4] = v % 4 /\ b[5] = n
    /\ \A e \in 1..n : /\ b[3 * e + 3] = Key(map, e)
                       /\ b[3 * e + 4] = map[2 * e] \div 4
                       /\ b[3 * e + 5] = map[2 * e] % 4
    /\ b[6 + 3 * n] = Len(s)
    /\ \A j \in 1..Len(s) : b[6 + 3 * n + j] = s[j]

LEMMA AuthRespCells ==
    ASSUME NEW x \in Nat, NEW y \in Nat, NEW v \in Nat, NEW n \in Nat,
           NEW map \in Seq(Nat), Len(map) = 2 * n, NEW s \in Seq(Nat),
           NEW b, b = <<x>> \o <<y>> \o PackLong(v) \o PackMap(map) \o PackString(s)
    PROVE  RespCells(b, x, y, v, n, map, s)
  <1> DEFINE X == <<x>>
             Y == <<y>>
             L == PackLong(v)
             M == PackMap(map)
             S == PackString(s)
             a == X \o Y \o L
             f == a \o M
  <1>1. a \in Seq(Nat) /\ Len(a) = 4 /\ a[1] = x /\ a[2] = y /\ a[3] = v \div 4 /\ a[4] = v % 4
    <2>1. /\ X \in Seq(Nat) /\ Len(X) = 1 /\ X[1] = x
          /\ Y \in Seq(Nat) /\ Len(Y) = 1 /\ Y[1] = y
      BY Singleton
    <2>2. L \in Seq(Nat) /\ Len(L) = 2 /\ L[1] = v \div 4 /\ L[2] = v % 4
      BY DEF PackLong, Base
    <2> DEFINE c == X \o Y
    <2> HIDE DEF X, Y, L
    <2>3. /\ X \o Y \in Seq(Nat) /\ Len(X \o Y) = Len(X) + Len(Y)
          /\ \A i \in 1..Len(X) : (X \o Y)[i] = X[i]
          /\ \A i \in 1..Len(Y) : (X \o Y)[Len(X) + i] = Y[i]
      BY <2>1, ConcatCells
    <2> HIDE DEF c
    <2>4. c \in Seq(Nat) /\ Len(c) = 2 /\ c[1] = x /\ c[2] = y
      <3>1. /\ c \in Seq(Nat) /\ Len(c) = Len(X) + Len(Y)
            /\ \A i \in 1..Len(X) : c[i] = X[i]
            /\ \A i \in 1..Len(Y) : c[Len(X) + i] = Y[i]
        BY <2>3 DEF c
      <3>2. 1 \in 1..Len(X) /\ 1 \in 1..Len(Y) /\ Len(X) + 1 = 2
        BY <2>1
      <3>3. c[1] = X[1] /\ c[2] = Y[1]
        BY <3>1, <3>2
      <3> QED
        BY <2>1, <3>1, <3>3
    <2>5. /\ c \o L \in Seq(Nat) /\ Len(c \o L) = Len(c) + Len(L)
          /\ \A i \in 1..Len(c) : (c \o L)[i] = c[i]
          /\ \A i \in 1..Len(L) : (c \o L)[Len(c) + i] = L[i]
      BY <2>2, <2>4, ConcatCells
    <2>6. a = c \o L
      BY DEF c
    <2> HIDE DEF a
    <2> QED
      BY <2>2, <2>4, <2>5, <2>6
  <1>2. /\ M \in Seq(Nat) /\ Len(M) = 1 + 3 * n /\ M[1] = n
        /\ \A e \in 1..n : /\ M[3 * e - 1] = Key(map, e)
                           /\ M[3 * e] = map[2 * e] \div 4
                           /\ M[3 * e + 1] = map[2 * e] % 4
    BY MapCells DEF Base, Key
  <1>3. /\ S \in Seq(Nat) /\ Len(S) = 1 + Len(s) /\ Len(s) \in Nat
        /\ S[1] = Len(s) /\ \A j \in 1..Len(s) : S[1 + j] = s[j]
    BY StringCells
  <1>4. b = f \o S
    OBVIOUS
  <1> HIDE DEF X, Y, L, M, S, a
  <1>5. /\ f \in Seq(Nat) /\ Len(f) = Len(a) + Len(M)
        /\ \A i \in 1..Len(a) : f[i] = a[i]
        /\ \A i \in 1..Len(M) : f[Len(a) + i] = M[i]
    BY <1>1, <1>2, ConcatCells
  <1> HIDE DEF f
  <1>6. /\ f \in Seq(Nat) /\ Len(f) = 5 + 3 * n
        /\ f[1] = x /\ f[2] = y /\ f[3] = v \div 4 /\ f[4] = v % 4 /\ f[5] = n
    <2>1. 1 \in 1..Len(a) /\ 2 \in 1..Len(a) /\ 3 \in 1..Len(a) /\ 4 \in 1..Len(a) /\ 1 \in 1..Len(M)
      BY <1>1, <1>2
    <2>2. f[1] = a[1] /\ f[2] = a[2] /\ f[3] = a[3] /\ f[4] = a[4] /\ f[Len(a) + 1] = M[1]
      BY <1>5, <2>1
    <2> QED
      BY <1>1, <1>2, <1>5, <2>2
  <1>7. ASSUME NEW e \in 1..n
        PROVE  /\ f[3 * e + 3] = Key(map, e)
               /\ f[3 * e + 4] = map[2 * e] \div 4
               /\ f[3 * e + 5] = map[2 * e] % 4
    <2>1. 3 * e - 1 \in 1..Len(M) /\ 3 * e \in 1..Len(M) /\ 3 * e + 1 \in 1..Len(M)
      BY <1>2
    <2>2. /\ f[Len(a) + (3 * e - 1)] = M[3 * e - 1] /\ f[Len(a) + 3 * e] = M[3 * e]
          /\ f[Len(a) + (3 * e + 1)] = M[3 * e + 1]
      BY <1>5, <2>1
    <2>3. /\ Len(a) + (3 * e - 1) = 3 * e + 3 /\ Len(a) + 3 * e = 3 * e + 4
          /\ Len(a) + (3 * e + 1) = 3 * e + 5
      BY <1>1
    <2> QED
      BY <1>2, <2>2, <2>3
  <1>8. /\ b \in Seq(Nat) /\ Len(b) = Len(f) + Len(S)
        /\ \A i \in 1..Len(f) : b[i] = f[i]
        /\ \A i \in 1..Len(S) : b[Len(f) + i] = S[i]
    <2>1. f \in Seq(Nat) /\ S \in Seq(Nat)
      BY <1>3, <1>6
    <2>2. /\ f \o S \in Seq(Nat) /\ Len(f \o S) = Len(f) + Len(S)
          /\ \A i \in 1..Len(f) : (f \o S)[i] = f[i]
          /\ \A i \in 1..Len(S) : (f \o S)[Len(f) + i] = S[i]
      BY <2>1, ConcatCells
    <2> QED
      BY <1>4, <2>2, Zenon
  <1>9. /\ b[1] = x /\ b[2] = y /\ b[3] = v \div 4 /\ b[4] = v % 4 /\ b[5] = n
    <2>1. 1 \in 1..Len(f) /\ 2 \in 1..Len(f) /\ 3 \in 1..Len(f) /\ 4 \in 1..Len(f) /\ 5 \in 1..Len(f)
      BY <1>6
    <2> QED
      BY <1>6, <1>8, <2>1
  <1>10. ASSUME NEW e \in 1..n
         PROVE  /\ b[3 * e + 3] = Key(map, e)
                /\ b[3 * e + 4] = map[2 * e] \div 4
                /\ b[3 * e + 5] = map[2 * e] % 4
    <2>1. 3 * e + 3 \in 1..Len(f) /\ 3 * e + 4 \in 1..Len(f) /\ 3 * e + 5 \in 1..Len(f)
      BY <1>6
    <2> QED
      BY <1>7, <1>8, <2>1
  <1>11. b[6 + 3 * n] = Len(s)
    <2>1. Len(f) + 1 = 6 + 3 * n /\ 1 \in 1..Len(S)
      BY <1>3, <1>6
    <2> QED
      BY <1>3, <1>8, <2>1
  <1>12. ASSUME NEW j \in 1..Len(s) PROVE b[6 + 3 * n + j] = s[j]
    <2>1. Len(f) + (1 + j) = 6 + 3 * n + j /\ 1 + j \in 1..Len(S)
      <3>1. Len(f) = 5 + 3 * n /\ Len(S) = 1 + Len(s) /\ Len(s) \in Nat
        BY <1>3, <1>6
      <3> QED
        BY <3>1
    <2> QED
      BY <1>3, <1>8, <2>1
  <1>13. Len(b) = 6 + 3 * n + Len(s)
    BY <1>3, <1>6, <1>8
  <1> QED
    BY <1>3, <1>8, <1>9, <1>10, <1>11, <1>12, <1>13 DEF RespCells

LEMMA AuthRespRead ==
    ASSUME NEW m \in Message, AuthRespForm(m), NEW buf, Begins(buf, WritePacket(m))
    PROVE  HasPacket(buf, m)
  <1>1. PICK x \in Nat, y \in Nat, v \in Nat, n \in Nat, map \in Seq(Nat), s \in Seq(Nat) :
            InOrder(map, n) /\ m.body = <<<<x>>, <<y>>, <<v>>, map, s>>
    BY DEF AuthRespForm
  <1> DEFINE b == PackBody(m.msg_type, m.body)
             size == 12 + 3 * n + Len(s)
  <1>2. /\ b = <<x>> \o <<y>> \o PackLong(v) \o PackMap(map) \o PackString(s)
        /\ m.msg_type = IR_MONITOR_LINK_AUTH_RESP
    <2> DEFINE body == <<<<x>>, <<y>>, <<v>>, map, s>>
    <2>1. PackBody(IR_MONITOR_LINK_AUTH_RESP, body)
             = body[1] \o body[2] \o PackLong(body[3][1]) \o PackMap(body[4]) \o PackString(body[5])
      BY PackBodyOf
    <2>2. /\ body[1] = <<x>> /\ body[2] = <<y>> /\ body[3] = <<v>> /\ <<v>>[1] = v
          /\ body[4] = map /\ body[5] = s
      OBVIOUS
    <2> HIDE DEF body
    <2>3. PackBody(IR_MONITOR_LINK_AUTH_RESP, body)
             = <<x>> \o <<y>> \o PackLong(v) \o PackMap(map) \o PackString(s)
      BY <2>1, <2>2
    <2> QED
      BY <1>1, <2>3 DEF AuthRespForm, body
  <1>3. Len(map) = 2 * n
    BY <1>1 DEF InOrder
  <1> HIDE DEF b
  <1>4. /\ b \in Seq(Nat) /\ Len(b) = 6 + 3 * n + Len(s) /\ Len(s) \in Nat
        /\ b[1] = x /\ b[2] = y /\ b[3] = v \div 4 /\ b[4] = v % 4 /\ b[5] = n
        /\ \A e \in 1..n : /\ b[3 * e + 3] = Key(map, e)
                           /\ b[3 * e + 4] = map[2 * e] \div 4
                           /\ b[3 * e + 5] = map[2 * e] % 4
        /\ b[6 + 3 * n] = Len(s)
        /\ \A j \in 1..Len(s) : b[6 + 3 * n + j] = s[j]
    <2>1. /\ x \in Nat /\ y \in Nat /\ v \in Nat /\ n \in Nat /\ map \in Seq(Nat) /\ s \in Seq(Nat)
          /\ Len(map) = 2 * n
      BY <1>1, <1>3
    <2>2. b = <<x>> \o <<y>> \o PackLong(v) \o PackMap(map) \o PackString(s)
      BY <1>2
    <2> HIDE DEF size
    <2>3. RespCells(b, x, y, v, n, map, s)
      BY <2>1, <2>2, AuthRespCells, Zenon
    <2> QED
      BY <2>3 DEF RespCells
  <1>5. buf \in Seq(Nat) /\ 6 + Len(b) <= Len(buf) /\ \A j \in 1..Len(b) : buf[6 + j] = b[j]
    <2>1. b \in Seq(Nat) /\ b = PackBody(m.msg_type, m.body)
      BY <1>4 DEF b
    <2>2. HasBody(buf, m, b)
      BY <2>1, HeaderRead, Zenon
    <2> QED
      BY <2>2 DEF HasBody
  <1>6. 6 + Len(b) = size /\ size \in Nat /\ size <= Len(buf)
    BY <1>4, <1>5
  <1>7. buf[7] = x /\ buf[8] = y /\ buf[9] = v \div 4 /\ buf[10] = v % 4 /\ buf[11] = n
    <2>1. 1 \in 1..Len(b) /\ 2 \in 1..Len(b) /\ 3 \in 1..Len(b) /\ 4 \in 1..Len(b) /\ 5 \in 1..Len(b)
      BY <1>4
    <2>2. /\ buf[6 + 1] = b[1] /\ buf[6 + 2] = b[2] /\ buf[6 + 3] = b[3] /\ buf[6 + 4] = b[4]
          /\ buf[6 + 5] = b[5]
      BY <1>5, <2>1
    <2> QED
      BY <1>4, <2>2
  <1>8. HasMap(buf, size, 10, map, n)
    <2>1. ASSUME NEW e \in 1..n
          PROVE  /\ buf[10 + 3 * e - 1] = Key(map, e)
                 /\ buf[10 + 3 * e] = map[2 * e] \div 4
                 /\ buf[10 + 3 * e + 1] = map[2 * e] % 4
      <3>1. 3 * e + 3 \in 1..Len(b) /\ 3 * e + 4 \in 1..Len(b) /\ 3 * e + 5 \in 1..Len(b)
        <4>1. Len(b) = 6 + 3 * n + Len(s) /\ Len(s) \in Nat
          BY <1>4
        <4> QED
          BY <4>1
      <3>2. /\ 10 + 3 * e - 1 = 6 + (3 * e + 3) /\ 10 + 3 * e = 6 + (3 * e + 4)
            /\ 10 + 3 * e + 1 = 6 + (3 * e + 5)
        OBVIOUS
      <3>3. /\ buf[6 + (3 * e + 3)] = b[3 * e + 3] /\ buf[6 + (3 * e + 4)] = b[3 * e + 4]
            /\ buf[6 + (3 * e + 5)] = b[3 * e + 5]
        BY <1>5, <3>1
      <3> QED
        BY <1>4, <3>2, <3>3
    <2>2. buf[10 + 1] = n /\ 10 + 1 + 3 * n <= size /\ 10 \in Nat
      BY <1>4, <1>7
    <2> HIDE DEF size
    <2> QED
      BY <1>5, <1>6, <2>1, <2>2 DEF HasMap, Base
  <1> HIDE DEF size
  <1>9. /\ MapCount(buf, size, 10) = n /\ MapEnd(buf, size, 10)[n] = 10 + 1 + 3 * n
        /\ InKeyOrder(MapAt(buf, size, 10)) = map
    BY <1>1, <1>8, MapRead
  <1>10. StrOff(buf, size) = 11 + 3 * n /\ MapOff = 10
    <2>1. MapOff = 10
      BY DEF MapOff, HeadLen
    <2> QED
      BY <1>9, <2>1 DEF StrOff
  <1>11. StringFits(buf, size, 11 + 3 * n) /\ StringAt(buf, 11 + 3 * n) = s
    <2>1. 11 + 3 * n \in Nat /\ 11 + 3 * n + 1 + Len(s) <= size
      BY <1>4 DEF size
    <2>2. buf[11 + 3 * n + 1] = Len(s)
      <3>1. 6 + 3 * n \in 1..Len(b) /\ 11 + 3 * n + 1 = 6 + (6 + 3 * n)
        BY <1>4
      <3> QED
        BY <1>4, <1>5, <3>1
    <2>3. ASSUME NEW j \in 1..Len(s) PROVE buf[11 + 3 * n + 1 + j] = s[j]
      <3>1. 6 + 3 * n + j \in 1..Len(b) /\ 11 + 3 * n + 1 + j = 6 + (6 + 3 * n + j)
        BY <1>4
      <3> QED
        BY <1>4, <1>5, <3>1
    <2> QED
      BY <1>5, <1>6, <2>1, <2>2, <2>3, StringRead
  <1>12. BodyFits(m.msg_type, buf, size)
    <2>1. 10 <= size
      BY <1>4 DEF size
    <2> QED
      BY <1>2, <1>10, <1>11, <2>1, BodyFitsOf
  <1>13. LongAt(buf, 8) = v
    <2>1. LongAt(buf, 8) = buf[9] * 4 + buf[10]
      BY DEF LongAt, Base
    <2>2. v \div 4 \in Nat /\ v % 4 \in Nat
      OBVIOUS
    <2> QED
      BY <1>7, <2>1, <2>2, BothHalves
  <1>14. BodyAt(m.msg_type, buf, size) = m.body
    <2>1. HeadLen + 1 = 7 /\ HeadLen + 2 = 8
      BY DEF HeadLen
    <2>2. BodyAt(m.msg_type, buf, size) =
             <<<<buf[7]>>, <<buf[8]>>, <<LongAt(buf, 8)>>,
               InKeyOrder(MapAt(buf, size, 10)), StringAt(buf, 11 + 3 * n)>>
      BY <1>2, <1>10, <2>1, BodyAtOf
    <2> QED
      BY <1>1, <1>7, <1>9, <1>11, <1>13, <2>2
  <1> QED
    BY <1>4, <1>6, <1>12, <1>14, BodyRead DEF b

(* The codec: a message of any of the four types, with any string and any  *)
(* map, is read from the head of a buffer as it was written, whatever      *)
(* follows it there (write_packet and read_packet, net-packet.h).          *)
THEOREM ReadAsWritten ==
    ASSUME NEW m, Writable(m), NEW buf, Begins(buf, WritePacket(m))
    PROVE  HasPacket(buf, m)
  BY VerReqRead, VerRespRead, AuthReqRead, AuthRespRead DEF Writable

-----------------------------------------------------------------------------
(* Packets one after another in a stream.                                  *)

(* A message whose bytes hold the magic number at their head only; that of *)
(* a field or across two fields would look like a packet to the scan.      *)
Clean(m) ==
    /\ Writable(m)
    /\ LET c == WritePacket(m) IN
       \A j \in 2..(Len(c) - 1) : ~(c[j] = MSG_HEAD_MAGIC[1] /\ c[j + 1] = MSG_HEAD_MAGIC[2])

(* S holds the packets of k messages, the i-th from st[i] + 1 on.          *)
Laid(S, st, M, k) ==
    /\ S \in Seq(Nat) /\ k \in Nat /\ st \in [1..(k + 1) -> Nat]
    /\ st[1] = 0 /\ st[k + 1] = Len(S)
    /\ \A i \in 1..k : /\ Clean(M[i])
                       /\ st[i + 1] = st[i] + Len(WritePacket(M[i]))
                       /\ Lies(S, st[i], WritePacket(M[i]))

(* A buffer holds what S has after pos.                                    *)
Shows(S, pos, buf) ==
    /\ buf \in Seq(Nat) /\ pos \in Nat /\ pos + Len(buf) <= Len(S)
    /\ \A j \in 1..Len(buf) : buf[j] = S[pos + j]

(* Every packet has a header, and it says how long the packet is. *)
LEMMA PacketHead ==
    ASSUME NEW m, Writable(m)
    PROVE  /\ WritePacket(m) \in Seq(Nat) /\ Len(WritePacket(m)) \in Nat
           /\ 6 <= Len(WritePacket(m)) /\ m \in Message
           /\ WritePacket(m)[1] = 162 /\ WritePacket(m)[2] = 42
           /\ WritePacket(m)[4] = Len(WritePacket(m))
           /\ m.msg_type \in KnownTypes
  <1>1. m \in Message
    BY DEF Writable
  <1>2. PackBody(m.msg_type, m.body) \in Seq(Nat)
    <2>1. CASE VerReqForm(m)
      <3>1. PICK s \in Seq(Nat) : m.body = <<s>>
        BY <2>1 DEF VerReqForm
      <3> DEFINE B == <<s>>
      <3>2. PackBody(IR_MONITOR_VER_NEGO_REQ, B) = PackString(B[1])
        BY PackBodyOf
      <3>3. B[1] = s /\ m.msg_type = IR_MONITOR_VER_NEGO_REQ /\ m.body = B
        BY <2>1, <3>1 DEF VerReqForm
      <3> HIDE DEF B
      <3>4. PackBody(m.msg_type, m.body) = PackString(s)
        BY <3>2, <3>3
      <3> QED
        BY <3>4, StringCells
    <2>2. CASE VerRespForm(m)
      <3>1. PackBody(IR_MONITOR_VER_NEGO_RESP, m.body) = <<>>
        BY PackBodyOf
      <3>2. m.msg_type = IR_MONITOR_VER_NEGO_RESP
        BY <2>2 DEF VerRespForm
      <3>3. PackBody(m.msg_type, m.body) = <<>>
        BY <3>1, <3>2, Zenon
      <3>4. <<>> \in Seq(Nat)
        OBVIOUS
      <3> QED
        BY <3>3, <3>4, Zenon
    <2>3. CASE AuthReqForm(m)
      <3>1. PICK id \in Seq(Nat), digest \in Seq(Nat), x \in Nat, y \in Nat, z \in Nat :
                m.body = <<id, digest, <<x>>, <<y>>, <<z>>>>
        BY <2>3 DEF AuthReqForm
      <3> DEFINE B == <<id, digest, <<x>>, <<y>>, <<z>>>>
      <3>2. PackBody(IR_MONITOR_LINK_AUTH_REQ, B) = B[1] \o B[2] \o B[3] \o B[4] \o B[5]
        BY PackBodyOf
      <3>3. B[1] = id /\ B[2] = digest /\ B[3] = <<x>> /\ B[4] = <<y>> /\ B[5] = <<z>>
        OBVIOUS
      <3>4. m.msg_type = IR_MONITOR_LINK_AUTH_REQ /\ m.body = B
        BY <2>3, <3>1 DEF AuthReqForm
      <3> HIDE DEF B
      <3>5. PackBody(m.msg_type, m.body) = id \o digest \o <<x>> \o <<y>> \o <<z>>
        BY <3>2, <3>3, <3>4
      <3> QED
        BY <3>5
    <2>4. CASE AuthRespForm(m)
      <3>1. PICK x \in Nat, y \in Nat, v \in Nat, n \in Nat, map \in Seq(Nat), s \in Seq(Nat) :
                InOrder(map, n) /\ m.body = <<<<x>>, <<y>>, <<v>>, map, s>>
        BY <2>4 DEF AuthRespForm
      <3> DEFINE B == <<<<x>>, <<y>>, <<v>>, map, s>>
      <3>2. PackBody(IR_MONITOR_LINK_AUTH_RESP, B)
               = B[1] \o B[2] \o PackLong(B[3][1]) \o PackMap(B[4]) \o PackString(B[5])
        BY PackBodyOf
      <3>3. B[1] = <<x>> /\ B[2] = <<y>> /\ B[3] = <<v>> /\ <<v>>[1] = v /\ B[4] = map /\ B[5] = s
        OBVIOUS
      <3>4. m.msg_type = IR_MONITOR_LINK_AUTH_RESP /\ m.body = B
        BY <2>4, <3>1 DEF AuthRespForm
      <3> HIDE DEF B
      <3>5. PackBody(m.msg_type, m.body)
               = <<x>> \o <<y>> \o PackLong(v) \o PackMap(map) \o PackString(s)
        BY <3>2, <3>3, <3>4
      <3>6. Len(map) = 2 * n
        BY <3>1 DEF InOrder
      <3>7. RespCells(PackBody(m.msg_type, m.body), x, y, v, n, map, s)
        BY <3>1, <3>5, <3>6, AuthRespCells, Zenon
      <3> QED
        BY <3>7 DEF RespCells
    <2> QED
      BY <2>1, <2>2, <2>3, <2>4 DEF Writable
  <1>3. PICK b \in Seq(Nat) : b = PackBody(m.msg_type, m.body)
    BY <1>2
  <1> DEFINE c == WritePacket(m)
  <1>4. /\ c \in Seq(Nat) /\ Len(c) = HeadLen + Len(b)
        /\ c[1] = MSG_HEAD_MAGIC[1] /\ c[2] = MSG_HEAD_MAGIC[2]
        /\ c[LenAt] = Len(c)
    BY <1>1, <1>3, PacketCells
  <1>5. Len(b) \in Nat
    BY LenProperties
  <1>6. m.msg_type \in KnownTypes
    BY DEF Writable, VerReqForm, VerRespForm, AuthReqForm, AuthRespForm, KnownTypes
  <1> HIDE DEF c
  <1>7. /\ c \in Seq(Nat) /\ Len(c) \in Nat /\ 6 <= Len(c)
        /\ c[1] = 162 /\ c[2] = 42 /\ c[4] = Len(c)
    BY <1>4, <1>5 DEF HeadLen, LenAt, MSG_HEAD_MAGIC
  <1> QED
    BY <1>1, <1>6, <1>7 DEF c

(* The packets lie one behind the other. *)
LEMMA Rising ==
    ASSUME NEW S, NEW st, NEW M, NEW k, Laid(S, st, M, k),
           NEW a \in 1..(k + 1), NEW b \in 1..(k + 1), a < b
    PROVE  st[a] < st[b]
  <1> SUFFICES ASSUME st[b] <= st[a] PROVE FALSE
    BY DEF Laid
  <1>1. k \in Nat /\ st \in [1..(k + 1) -> Nat]
    BY DEF Laid
  <1>2. ASSUME NEW i \in 1..k PROVE st[i + 1] > st[i]
    <2>1. Writable(M[i]) /\ st[i + 1] = st[i] + Len(WritePacket(M[i]))
      BY DEF Laid, Clean
    <2>2. Len(WritePacket(M[i])) \in Nat /\ 6 <= Len(WritePacket(M[i]))
      BY <2>1, PacketHead
    <2>3. st[i] \in Nat
      BY <1>1
    <2> QED
      BY <2>1, <2>2, <2>3
  <1> DEFINE D == {n \in Nat : n > a /\ n <= k + 1 /\ st[n] <= st[a]}
  <1>3. b \in D
    BY <1>1
  <1>4. PICK n \in D : \A d \in D : n <= d
    <2>1. D \in SUBSET Nat /\ D # {}
      BY <1>3
    <2> HIDE DEF D
    <2> QED
      BY <2>1, Least
  <1>5. n \in Nat /\ n > a /\ n <= k + 1 /\ st[n] <= st[a]
    BY <1>4
  <1>6. n - 1 \in 1..k /\ (n - 1) + 1 = n
    BY <1>1, <1>5
  <1>7. st[n] > st[n - 1]
    BY <1>2, <1>6
  <1>8. st[n] \in Nat /\ st[n - 1] \in Nat /\ st[a] \in Nat
    BY <1>1, <1>5, <1>6
  <1>9. CASE n - 1 = a
    BY <1>5, <1>7, <1>8, <1>9
  <1>10. CASE n - 1 > a
    <2>1. n - 1 \in D
      BY <1>1, <1>5, <1>6, <1>7, <1>8, <1>10
    <2> QED
      BY <1>4, <1>5, <2>1
  <1> QED
    BY <1>5, <1>9, <1>10

(* Every byte of S is one of some packet. *)
LEMMA Covered ==
    ASSUME NEW S, NEW st, NEW M, NEW k, Laid(S, st, M, k), NEW q \in Nat, q < Len(S)
    PROVE  \E i \in 1..k : st[i] <= q /\ q < st[i + 1]
  <1>1. k \in Nat /\ st \in [1..(k + 1) -> Nat] /\ st[1] = 0 /\ st[k + 1] = Len(S)
    BY DEF Laid
  <1> DEFINE D == {n \in Nat : n >= 1 /\ n <= k + 1 /\ q < st[n]}
  <1>2. k + 1 \in D
    BY <1>1
  <1>3. PICK n \in D : \A d \in D : n <= d
    <2>1. D \in SUBSET Nat /\ D # {}
      BY <1>2
    <2> HIDE DEF D
    <2> QED
      BY <2>1, Least
  <1>4. n \in Nat /\ n >= 1 /\ n <= k + 1 /\ q < st[n]
    BY <1>3
  <1>5. n # 1
    BY <1>1, <1>4
  <1>6. n - 1 \in 1..k /\ (n - 1) + 1 = n
    BY <1>1, <1>4, <1>5
  <1>7. st[n - 1] <= q
    <2>1. n - 1 \notin D
      BY <1>3, <1>4
    <2>2. st[n - 1] \in Nat
      BY <1>1, <1>6
    <2> QED
      BY <1>1, <1>6, <2>1, <2>2
  <1> QED
    BY <1>4, <1>6, <1>7

(* The magic number is found at the head of a packet and nowhere else. *)
LEMMA MagicIsHead ==
    ASSUME NEW S, NEW st, NEW M, NEW k, Laid(S, st, M, k),
           NEW q \in Nat, q + 2 <= Len(S), S[q + 1] = 162, S[q + 2] = 42
    PROVE  \E i \in 1..k : q = st[i]
  <1>0. S \in Seq(Nat) /\ k \in Nat /\ st \in [1..(k + 1) -> Nat] /\ Len(S) \in Nat
        /\ st[k + 1] = Len(S)
    BY LenProperties DEF Laid
  <1>1. PICK i \in 1..k : st[i] <= q /\ q < st[i + 1]
    <2>1. q < Len(S)
      BY <1>0
    <2> QED
      BY <2>1, Covered
  <1> DEFINE c == WritePacket(M[i])
  <1>2. /\ st[i] \in Nat /\ i + 1 \in 1..(k + 1) /\ st[i + 1] = st[i] + Len(c)
        /\ \A j \in 1..Len(c) : S[st[i] + j] = c[j]
        /\ Writable(M[i])
        /\ \A j \in 2..(Len(c) - 1) : ~(c[j] = 162 /\ c[j + 1] = 42)
    <2>1. /\ Clean(M[i]) /\ Lies(S, st[i], c) /\ st[i + 1] = st[i] + Len(c)
      BY DEF Laid
    <2>2. i \in 1..(k + 1) /\ i + 1 \in 1..(k + 1)
      BY <1>0
    <2>3. st[i] \in Nat
      BY <1>0, <2>2
    <2>4. \A j \in 2..(Len(c) - 1) : ~(c[j] = 162 /\ c[j + 1] = 42)
      BY <2>1 DEF Clean, MSG_HEAD_MAGIC
    <2> HIDE DEF c
    <2> QED
      BY <2>1, <2>2, <2>3, <2>4 DEF Lies, Clean
  <1>3. Len(c) \in Nat /\ 6 <= Len(c)
    BY <1>2, PacketHead
  <1> HIDE DEF c
  <1>4. PICK j \in 1..Len(c) : st[i] + j = q + 1
    <2>1. /\ st[i] \in Nat /\ Len(c) \in Nat /\ st[i] <= q /\ q < st[i + 1]
          /\ st[i + 1] = st[i] + Len(c)
      BY <1>1, <1>2, <1>3, Zenon
    <2>2. PICK a \in Nat, n \in Nat : a = st[i] /\ n = Len(c)
      BY <2>1, Zenon
    <2>3. a <= q /\ q < a + n
      BY <2>1, <2>2
    <2>4. q + 1 - a \in 1..n /\ a + (q + 1 - a) = q + 1
      BY <2>3
    <2> QED
      BY <2>2, <2>4
  <1>5. c[j] = 162
    BY <1>2, <1>4
  <1>6. CASE j = Len(c)
    <2>1. st[i + 1] = q + 1
      BY <1>2, <1>4, <1>6
    <2>2. i + 1 # k + 1
      BY <1>0, <2>1
    <2>3. i + 1 \in 1..k
      BY <1>0, <2>2
    <2>4. Writable(M[i + 1]) /\ Lies(S, st[i + 1], WritePacket(M[i + 1]))
      BY <2>3 DEF Laid, Clean
    <2>5. 1 \in 1..Len(WritePacket(M[i + 1])) /\ WritePacket(M[i + 1])[1] = 162
      BY <2>4, PacketHead
    <2>6. S[st[i + 1] + 1] = 162
      BY <2>4, <2>5 DEF Lies
    <2>7. q + 1 + 1 = q + 2
      OBVIOUS
    <2> QED
      BY <2>1, <2>6, <2>7
  <1>7. CASE j < Len(c) /\ j # 1
    <2>1. j \in 2..(Len(c) - 1) /\ j + 1 \in 1..Len(c) /\ st[i] + (j + 1) = q + 2
      <3>1. st[i] \in Nat /\ Len(c) \in Nat /\ j \in 1..Len(c) /\ st[i] + j = q + 1
        BY <1>2, <1>3, <1>4, Zenon
      <3> QED
        BY <1>7, <3>1
    <2>2. c[j + 1] = 42
      BY <1>2, <2>1
    <2> QED
      BY <1>2, <1>5, <2>1, <2>2
  <1>8. CASE j = 1
    BY <1>2, <1>4, <1>8
  <1> QED
    BY <1>3, <1>6, <1>7, <1>8

(* A buffer that shows S from the head of a packet, and all of it, holds   *)
(* that packet. *)
LEMMA PacketThere ==
    ASSUME NEW S, NEW p, NEW m, Writable(m), Lies(S, p, WritePacket(m)),
           NEW buf, Shows(S, p, buf), 6 <= Len(buf)
    PROVE  /\ TotalLen(buf, 0) = Len(WritePacket(m))
           /\ Len(WritePacket(m)) <= Len(buf) => Parses(buf, 0) /\ Handed(buf) = m
  <1> DEFINE c == WritePacket(m)
  <1>1. /\ Writable(m) /\ \A j \in 1..Len(c) : S[p + j] = c[j]
    BY DEF Lies
  <1>2. c \in Seq(Nat) /\ Len(c) \in Nat /\ 6 <= Len(c) /\ c[4] = Len(c) /\ m.msg_type \in KnownTypes
    BY <1>1, PacketHead
  <1> HIDE DEF c
  <1>3. buf \in Seq(Nat) /\ \A j \in 1..Len(buf) : buf[j] = S[p + j]
    BY DEF Shows
  <1>4. buf[4] = c[4]
    <2>1. 4 \in 1..Len(buf) /\ 4 \in 1..Len(c)
      BY <1>2, <1>3
    <2> QED
      BY <1>1, <1>3, <2>1
  <1>5. TotalLen(buf, 0) = Len(c)
    BY <1>2, <1>4 DEF TotalLen, LenAt
  <1>6. ASSUME Len(c) <= Len(buf) PROVE Parses(buf, 0) /\ Handed(buf) = m
    <2>1. Begins(buf, c)
      <3>1. ASSUME NEW j \in 1..Len(c) PROVE buf[j] = c[j]
        <4>1. j \in 1..Len(buf)
          BY <1>2, <1>3, <1>6
        <4> QED
          BY <1>1, <1>3, <4>1
      <3> QED
        BY <1>2, <1>3, <1>6, <3>1 DEF Begins
    <2>2. HasPacket(buf, m)
      BY <1>1, <2>1, ReadAsWritten DEF c
    <2>3. /\ buf[TypeAt] = m.msg_type /\ PacketFits(buf, Len(c)) /\ ReadPacket(buf, Len(c)) = m
      BY <2>2 DEF HasPacket, c
    <2>4. Drop(buf, 0) = buf
      <3>1. 0 \in 0..Len(buf) /\ Len(buf) \in Nat
        BY <1>3
      <3>2. /\ Drop(buf, 0) \in Seq(Nat) /\ Len(Drop(buf, 0)) = Len(buf) - 0
            /\ \A e \in 1..(Len(buf) - 0) : Drop(buf, 0)[e] = buf[0 + e]
        BY <1>3, <3>1, DropIs
      <3>3. \A e \in 1..Len(buf) : Drop(buf, 0)[e] = buf[e]
        BY <3>1, <3>2
      <3>4. Len(Drop(buf, 0)) = Len(buf)
        BY <3>1, <3>2
      <3> QED
        BY <1>3, <3>1, <3>2, <3>3, <3>4, SameCells
    <2>5. ~Incomplete(buf, 0)
      BY <1>2, <1>3, <1>5, <1>6 DEF Incomplete, HeadLen
    <2>6. 0 + TypeAt = TypeAt
      BY DEF TypeAt
    <2>7. Parses(buf, 0)
      BY <1>2, <1>5, <2>3, <2>4, <2>5, <2>6 DEF Parses
    <2> QED
      BY <1>5, <2>3, <2>7 DEF Handed
  <1> QED
    BY <1>5, <1>6 DEF c

LEMMA PacketAhead ==
    ASSUME NEW S, NEW st, NEW M, NEW k, Laid(S, st, M, k), NEW i \in 1..k,
           NEW buf, Shows(S, st[i], buf), 6 <= Len(buf)
    PROVE  /\ TotalLen(buf, 0) = Len(WritePacket(M[i]))
           /\ Len(WritePacket(M[i])) <= Len(buf) => Parses(buf, 0) /\ Handed(buf) = M[i]
  <1>1. Writable(M[i]) /\ Lies(S, st[i], WritePacket(M[i]))
    BY DEF Laid, Clean
  <1> QED
    BY <1>1, PacketThere

(* What is dropped off a buffer that shows S moves it along S. *)
LEMMA ShowsDropped ==
    ASSUME NEW S, NEW pos, NEW buf, Shows(S, pos, buf), NEW n \in 0..Len(buf)
    PROVE  /\ Shows(S, pos + n, Drop(buf, n)) /\ Len(Drop(buf, n)) = Len(buf) - n
           /\ Len(buf) \in Nat
  <1>1. /\ buf \in Seq(Nat) /\ pos \in Nat /\ pos + Len(buf) <= Len(S)
        /\ \A j \in 1..Len(buf) : buf[j] = S[pos + j]
    BY DEF Shows
  <1>2. Len(buf) \in Nat
    BY <1>1, LenProperties
  <1> DEFINE d == Drop(buf, n)
  <1>3. /\ d \in Seq(Nat) /\ Len(d) = Len(buf) - n
        /\ \A j \in 1..(Len(buf) - n) : d[j] = buf[n + j]
    BY <1>1, DropIs
  <1> HIDE DEF d
  <1>4. ASSUME NEW j \in 1..Len(d) PROVE d[j] = S[pos + n + j]
    <2>1. j \in 1..(Len(buf) - n) /\ n + j \in 1..Len(buf) /\ pos + (n + j) = pos + n + j
      <3>1. pos \in Nat /\ Len(buf) \in Nat /\ Len(d) = Len(buf) - n
        BY <1>1, <1>2, <1>3, Zenon
      <3> QED
        BY <3>1
    <2> QED
      BY <1>1, <1>3, <2>1
  <1>5. pos + n \in Nat /\ pos + n + Len(d) = pos + Len(buf)
    BY <1>1, <1>2, <1>3
  <1>6. pos + n + Len(d) <= Len(S)
    BY <1>1, <1>5
  <1>7. Shows(S, pos + n, d)
    BY <1>3, <1>4, <1>5, <1>6 DEF Shows
  <1> QED
    BY <1>2, <1>3, <1>7 DEF d

-----------------------------------------------------------------------------
(* Packets among other bytes.                                              *)

(* S holds the packets of k messages, and nothing else that is one.        *)
Packed(S, st, M, k) ==
    /\ S \in Seq(Nat) /\ k \in Nat /\ st \in [1..k -> Nat]
    /\ \A i \in 1..k : Writable(M[i])
    /\ Spaced(S, st, M, k)
Placed(S, st, M, k) == Packed(S, st, M, k) /\ OnlyThese(S, st, k)

LEMMA ShownIs ==
    ASSUME NEW S \in Seq(Nat), NEW p, NEW buf, Shows(S, p, buf)
    PROVE  buf = SubSeq(S, p + 1, p + Len(buf))
  <1>1. /\ buf \in Seq(Nat) /\ p \in Nat /\ p + Len(buf) <= Len(S) /\ Len(buf) \in Nat
        /\ \A j \in 1..Len(buf) : buf[j] = S[p + j]
    BY LenProperties DEF Shows
  <1> DEFINE t == SubSeq(S, p + 1, p + Len(buf))
  <1>2. /\ p + 1 \in Nat /\ p + Len(buf) \in Nat /\ 1 <= p + 1 /\ p + 1 <= p + Len(buf) + 1
        /\ p + 1 - 1 = p /\ p + Len(buf) + 1 - (p + 1) = Len(buf)
    BY <1>1
  <1>3. IsPart(t, S, p + 1 - 1, p + Len(buf) + 1 - (p + 1))
    BY <1>1, <1>2, SubSeqCells
  <1> HIDE DEF t
  <1>4. IsPart(t, S, p, Len(buf))
    BY <1>2, <1>3, Zenon
  <1>5. t \in Seq(Nat) /\ Len(t) = Len(buf) /\ \A j \in 1..Len(buf) : buf[j] = t[j]
    BY <1>1, <1>4 DEF IsPart
  <1>6. buf = t
    BY <1>1, <1>5, SameCells, Zenon
  <1> QED
    BY <1>6 DEF t

(* The scan looks at p where it would look at the head of what is left.    *)
LEMMA StopsLater ==
    ASSUME NEW buf \in Seq(Nat), NEW p \in Nat, p + 6 <= Len(buf),
           Incomplete(Drop(buf, p), 0) \/ Parses(Drop(buf, p), 0)
    PROVE  Incomplete(buf, p) \/ Parses(buf, p)
  <1> DEFINE d == Drop(buf, p)
  <1>1. Len(buf) \in Nat /\ p \in 0..Len(buf)
    BY LenProperties
  <1>2. d \in Seq(Nat) /\ Len(d) = Len(buf) - p /\ \A i \in 1..(Len(buf) - p) : d[i] = buf[p + i]
    BY <1>1, DropIs
  <1>3. Drop(d, 0) = d
    <2> HIDE DEF d
    <2>1. 0 \in 0..Len(d) /\ Len(d) \in Nat /\ Len(d) - 0 = Len(d)
      BY <1>1, <1>2
    <2>2. /\ Drop(d, 0) \in Seq(Nat) /\ Len(Drop(d, 0)) = Len(d)
          /\ \A e \in 1..(Len(d) - 0) : Drop(d, 0)[e] = d[0 + e]
      BY <1>2, <2>1, DropIs
    <2>3. \A e \in 1..Len(d) : Drop(d, 0)[e] = d[e]
      BY <2>1, <2>2
    <2> QED
      BY <1>2, <2>1, <2>2, <2>3, SameCells, Zenon
  <1>4. Incomplete(d, 0) \/ Parses(d, 0)
    OBVIOUS
  <1> HIDE DEF d
  <1>5. buf[p + 3] = d[3] /\ buf[p + 4] = d[4] /\ d[4] \in Nat
    <2>1. 3 \in 1..(Len(buf) - p) /\ 4 \in 1..(Len(buf) - p)
      BY <1>1
    <2>2. 4 \in 1..Len(d)
      BY <1>2, <2>1
    <2> QED
      BY <1>2, <2>1, <2>2, ElementOfSeq
  <1>6. TotalLen(buf, p) = d[4] /\ TotalLen(d, 0) = d[4] /\ buf[p + TypeAt] = d[0 + TypeAt]
    BY <1>5 DEF TotalLen, LenAt, TypeAt
  <1>7. CASE Incomplete(d, 0)
    <2>1. 0 + 6 > Len(d) \/ 0 + d[4] > Len(d)
      BY <1>6, <1>7 DEF Incomplete, HeadLen
    <2>2. p + 6 > Len(buf) \/ p + d[4] > Len(buf)
      <3>1. Len(d) = Len(buf) - p
        BY <1>2
      <3> QED
        BY <1>1, <1>5, <2>1, <3>1
    <2> QED
      BY <1>6, <2>2 DEF Incomplete, HeadLen
  <1>8. CASE ~Incomplete(buf, p) /\ Parses(d, 0)
    <2>1. d[0 + TypeAt] \in KnownTypes /\ PacketFits(d, d[4])
      BY <1>3, <1>6, <1>8 DEF Parses
    <2> QED
      BY <1>6, <1>8, <2>1 DEF Parses, d
  <1> QED
    BY <1>4, <1>7, <1>8

(* Wherever it starts, what the scan takes for a packet is one.            *)
LEMMA ScanMeets ==
    ASSUME NEW S, NEW st, NEW M, NEW k, Placed(S, st, M, k), NEW pos, NEW buf, Shows(S, pos, buf),
           NEW lucky \in BOOLEAN,
           Drop(buf, Offset(buf, lucky)) # <<>>, Parses(Drop(buf, Offset(buf, lucky)), 0)
    PROVE  LET rest == Drop(buf, Offset(buf, lucky)) IN
           \E i \in 1..k : /\ pos + Offset(buf, lucky) = st[i]
                           /\ Handed(rest) = M[i] /\ TotalLen(rest, 0) = Len(WritePacket(M[i]))
                           /\ Len(WritePacket(M[i])) <= Len(rest)
  <1> DEFINE o == Offset(buf, lucky)
             rest == Drop(buf, o)
  <1>1. /\ buf \in Seq(Nat) /\ pos \in Nat /\ pos + Len(buf) <= Len(S)
        /\ \A j \in 1..Len(buf) : buf[j] = S[pos + j]
    BY DEF Shows
  <1>2. o \in 0..Len(buf) /\ Stops(buf, o, lucky)
    BY <1>1, OffsetIs
  <1>3. Parses(rest, 0) /\ rest # <<>>
    OBVIOUS
  <1> HIDE DEF o
  <1>4. Shows(S, pos + o, rest) /\ Len(rest) = Len(buf) - o /\ Len(buf) \in Nat
    BY <1>2, ShowsDropped
  <1>5. rest \in Seq(Nat)
    BY <1>4 DEF Shows
  <1> HIDE DEF rest
  <1>6. 6 <= Len(rest) /\ TotalLen(rest, 0) <= Len(rest)
    <2>1. ~(0 + HeadLen > Len(rest)) /\ ~(0 + TotalLen(rest, 0) > Len(rest))
      BY <1>3 DEF Parses, Incomplete
    <2>2. Len(rest) \in Nat /\ HeadLen = 6
      BY <1>5, LenProperties DEF HeadLen
    <2>3. TotalLen(rest, 0) \in Nat
      <3>1. 4 \in 1..Len(rest)
        BY <2>1, <2>2
      <3>2. rest[4] \in Nat
        BY <1>5, <3>1, ElementOfSeq
      <3> QED
        BY <3>2 DEF TotalLen, LenAt
    <2> QED
      BY <2>1, <2>2, <2>3
  <1>7. o + 1 \in 1..Len(buf) /\ o + 2 \in 1..Len(buf) /\ o # Len(buf) /\ o + 1 # Len(buf)
    BY <1>2, <1>4, <1>6
  <1>8. buf[o + 1] = 162 /\ buf[o + 2] = 42
    <2>1. IsMagic(buf, o, lucky)
      BY <1>2, <1>7 DEF Stops
    <2>2. ~IsCut(buf, o)
      BY <1>7 DEF IsCut
    <2> QED
      BY <2>1, <2>2 DEF IsMagic, CellAt, MSG_HEAD_MAGIC
  <1>9. /\ pos + o \in 0..Len(S) /\ pos + o + Len(rest) \in 0..Len(S)
        /\ S[pos + o + 1] = 162 /\ S[pos + o + 2] = 42
    <2>1. S[pos + (o + 1)] = 162 /\ S[pos + (o + 2)] = 42
      BY <1>1, <1>7, <1>8
    <2>2. /\ pos \in Nat /\ pos + Len(buf) <= Len(S) /\ Len(buf) \in Nat /\ o \in 0..Len(buf)
          /\ Len(rest) = Len(buf) - o /\ Len(S) \in Nat
      BY <1>1, <1>2, <1>4, LenProperties DEF Placed, Packed, Spaced
    <2>3. pos + (o + 1) = pos + o + 1 /\ pos + (o + 2) = pos + o + 2
      BY <2>2
    <2>4. pos + o \in 0..Len(S) /\ pos + o + Len(rest) \in 0..Len(S)
      BY <2>2
    <2> QED
      BY <2>1, <2>3, <2>4, Zenon
  <1>10. PICK i \in 1..k : pos + o = st[i]
    <2>1. S \in Seq(Nat) /\ OnlyThese(S, st, k)
      BY DEF Placed, Packed, Spaced
    <2>2. rest = SubSeq(S, pos + o + 1, pos + o + Len(rest))
      BY <1>4, <2>1, ShownIs
    <2>3. Parses(SubSeq(S, pos + o + 1, pos + o + Len(rest)), 0)
      BY <1>3, <2>2
    <2>4. PICK q \in 0..Len(S), e \in 0..Len(S) : q = pos + o /\ e = pos + o + Len(rest)
      BY <1>9, Zenon
    <2>5. Parses(SubSeq(S, q + 1, e), 0) /\ S[q + 1] = 162 /\ S[q + 2] = 42
      BY <1>9, <2>3, <2>4, Zenon
    <2>6. \E i \in 1..k : q = st[i]
      BY <2>1, <2>5 DEF OnlyThese, MSG_HEAD_MAGIC
    <2> QED
      BY <2>4, <2>6, Zenon
  <1>11. Shows(S, st[i], rest) /\ Writable(M[i]) /\ Lies(S, st[i], WritePacket(M[i]))
    BY <1>4, <1>10 DEF Placed, Packed, Spaced
  <1>12. /\ TotalLen(rest, 0) = Len(WritePacket(M[i]))
         /\ Len(WritePacket(M[i])) <= Len(rest) => Handed(rest) = M[i]
    BY <1>6, <1>11, PacketThere
  <1>13. /\ pos + o = st[i]
         /\ Handed(rest) = M[i] /\ TotalLen(rest, 0) = Len(WritePacket(M[i]))
         /\ Len(WritePacket(M[i])) <= Len(rest)
    BY <1>6, <1>10, <1>12
  <1> QED
    BY <1>13 DEF o, rest

(* The scan passes no packet that is still ahead, unless it steps over the *)
(* first byte of its magic number at the end of the buffer.                *)
LEMMA ScanPasses ==
    ASSUME NEW S, NEW st, NEW M, NEW k, Placed(S, st, M, k), NEW pos, NEW buf, Shows(S, pos, buf),
           NEW lucky \in BOOLEAN, NEW i \in 1..k, pos <= st[i]
    PROVE  \/ pos + Offset(buf, lucky) <= st[i]
           \/ /\ Drop(buf, Offset(buf, lucky)) = <<>> /\ buf # <<>>
              /\ IsCut(buf, Len(buf) - 1)
  <1> DEFINE o == Offset(buf, lucky)
             c == WritePacket(M[i])
  <1>1. /\ buf \in Seq(Nat) /\ pos \in Nat /\ Len(buf) \in Nat
        /\ \A j \in 1..Len(buf) : buf[j] = S[pos + j]
    BY LenProperties DEF Shows
  <1>2. /\ st[i] \in Nat /\ Writable(M[i]) /\ Lies(S, st[i], c)
    BY DEF Placed, Packed, Spaced
  <1>3. o \in 0..Len(buf) /\ \A q \in 0..(o - 1) : ~Stops(buf, q, lucky)
    BY <1>1, OffsetIs
  <1>4. SUFFICES ASSUME ~(pos + o <= st[i])
                 PROVE  Drop(buf, o) = <<>> /\ buf # <<>> /\ IsCut(buf, Len(buf) - 1)
    OBVIOUS
  <1> HIDE DEF o
  <1>5. PICK d \in 0..(o - 1) : st[i] = pos + d /\ d \in Nat /\ d + 1 <= Len(buf) /\ d + 1 <= o
    <2>1. st[i] - pos \in 0..(o - 1) /\ st[i] = pos + (st[i] - pos) /\ st[i] - pos \in Nat
          /\ (st[i] - pos) + 1 <= Len(buf) /\ (st[i] - pos) + 1 <= o
      BY <1>1, <1>2, <1>3, <1>4
    <2> QED
      BY <2>1
  <1>6. ~Stops(buf, d, lucky)
    BY <1>3
  <1>7. /\ \A j \in 1..Len(c) : S[st[i] + j] = c[j]
        /\ Len(c) \in Nat /\ 6 <= Len(c) /\ c[1] = 162 /\ c[2] = 42
    <2>1. Len(c) \in Nat /\ 6 <= Len(c) /\ c[1] = 162 /\ c[2] = 42
      BY <1>2, PacketHead
    <2> QED
      BY <1>2, <2>1 DEF Lies
  <1>8. ASSUME NEW j \in 1..Len(c), d + j <= Len(buf) PROVE buf[d + j] = c[j]
    <2>1. d + j \in 1..Len(buf) /\ pos + (d + j) = st[i] + j
      BY <1>1, <1>5, <1>7, <1>8
    <2>2. buf[d + j] = S[pos + (d + j)] /\ S[st[i] + j] = c[j]
      BY <1>1, <1>7, <2>1
    <2> QED
      BY <2>1, <2>2
  <1>9. buf[d + 1] = 162
    BY <1>5, <1>7, <1>8
  <1> HIDE DEF c
  <1>10. DOMAIN buf = 1..Len(buf)
    BY <1>1
  <1>11. CASE d + 2 <= Len(buf)
    <2>1. buf[d + 2] = 42
      BY <1>7, <1>8, <1>11
    <2>2. IsMagic(buf, d, lucky)
      <3>1. d + 1 \in DOMAIN buf /\ d + 2 \in DOMAIN buf
        BY <1>5, <1>10, <1>11
      <3> QED
        BY <1>9, <2>1, <3>1 DEF IsMagic, CellAt, MSG_HEAD_MAGIC
    <2>3. Incomplete(buf, d) \/ Parses(buf, d)
      <3>1. CASE Len(buf) < d + 6
        <4>1. d + HeadLen > Len(buf)
          BY <1>1, <1>5, <3>1 DEF HeadLen
        <4> QED
          BY <4>1 DEF Incomplete
      <3>2. CASE d + 6 <= Len(buf)
        <4> DEFINE b == Drop(buf, d)
        <4>1. d \in 0..Len(buf)
          BY <1>5
        <4>2. Shows(S, st[i], b) /\ Len(b) = Len(buf) - d
          BY <1>5, <4>1, ShowsDropped
        <4> HIDE DEF b
        <4>3. 6 <= Len(b)
          BY <1>1, <1>5, <3>2, <4>2
        <4>4. /\ TotalLen(b, 0) = Len(c)
              /\ Len(c) <= Len(b) => Parses(b, 0)
          BY <1>2, <4>2, <4>3, PacketThere DEF c
        <4>5. Incomplete(b, 0) \/ Parses(b, 0)
          <5>1. CASE Len(c) <= Len(b)
            BY <4>4, <5>1
          <5>2. CASE ~(Len(c) <= Len(b))
            <6>1. 0 + TotalLen(b, 0) > Len(b)
              BY <1>1, <1>5, <1>7, <4>2, <4>4, <5>2
            <6> QED
              BY <6>1 DEF Incomplete
          <5> QED
            BY <5>1, <5>2
        <4> QED
          BY <1>1, <1>5, <3>2, <4>5, StopsLater DEF b
      <3> QED
        BY <1>1, <1>5, <3>1, <3>2
    <2> QED
      BY <1>6, <2>2, <2>3 DEF Stops
  <1>12. CASE d + 1 = Len(buf)
    <2>1. o = Len(buf)
      BY <1>1, <1>3, <1>5, <1>12
    <2>2. Drop(buf, o) = <<>>
      <3>1. Drop(buf, o) \in Seq(Nat) /\ Len(Drop(buf, o)) = Len(buf) - o
        BY <1>1, <1>3, DropIs
      <3>2. Len(Drop(buf, o)) = 0
        BY <1>1, <2>1, <3>1
      <3> QED
        BY <3>1, <3>2, EmptySeq
    <2>3. buf # <<>>
      <3>1. Len(<<>>) = 0 /\ Len(buf) # 0
        BY <1>5, <1>12, EmptySeq
      <3> QED
        BY <3>1, Zenon
    <2>4. IsCut(buf, Len(buf) - 1)
      <3>1. Len(buf) - 1 = d /\ d + 1 \in 1..Len(buf)
        BY <1>1, <1>5, <1>12
      <3>2. d + 1 \in DOMAIN buf
        BY <1>10, <3>1
      <3> QED
        BY <1>9, <1>12, <3>1, <3>2 DEF IsCut, CellAt, MSG_HEAD_MAGIC
    <2> QED
      BY <2>2, <2>3, <2>4
  <1> QED
    BY <1>1, <1>5, <1>11, <1>12

(* Clean packets and nothing else are placed.                              *)
LEMMA LaidIsPlaced ==
    ASSUME NEW S, NEW st, NEW M, NEW k, Laid(S, st, M, k)
    PROVE  Placed(S, [i \in 1..k |-> st[i]], M, k)
  <1> DEFINE s2 == [i \in 1..k |-> st[i]]
  <1>1. /\ S \in Seq(Nat) /\ k \in Nat /\ st \in [1..(k + 1) -> Nat] /\ Len(S) \in Nat
        /\ st[k + 1] = Len(S)
    BY LenProperties DEF Laid
  <1>2. ASSUME NEW i \in 1..k
        PROVE  /\ s2[i] = st[i] /\ st[i] \in Nat /\ i \in 1..(k + 1)
               /\ i + 1 \in 1..(k + 1) /\ st[i + 1] \in Nat
    BY <1>1
  <1>3. s2 \in [1..k -> Nat]
    BY <1>2
  <1> HIDE DEF s2
  <1>4. ASSUME NEW i \in 1..k
        PROVE  /\ Writable(M[i]) /\ Lies(S, s2[i], WritePacket(M[i]))
               /\ s2[i] + Len(WritePacket(M[i])) = st[i + 1]
    BY <1>2 DEF Laid, Clean
  <1>5. ASSUME NEW a \in 1..(k + 1), NEW b \in 1..(k + 1), a <= b PROVE st[a] <= st[b]
    <2>1. st[a] \in Nat /\ st[b] \in Nat
      BY <1>1
    <2>2. CASE a = b
      BY <2>1, <2>2
    <2>3. CASE a # b
      <3>1. a < b
        BY <1>1, <1>5, <2>3
      <3>2. st[a] < st[b]
        BY <3>1, Rising
      <3> QED
        BY <2>1, <3>2
    <2> QED
      BY <2>2, <2>3
  <1>6. ASSUME NEW i \in 1..k PROVE s2[i] + Len(WritePacket(M[i])) <= Len(S)
    <2>1. i + 1 \in 1..(k + 1) /\ k + 1 \in 1..(k + 1) /\ i + 1 <= k + 1
      BY <1>1
    <2>2. st[i + 1] <= st[k + 1]
      BY <1>5, <2>1
    <2> QED
      BY <1>1, <1>4, <2>2
  <1>7. ASSUME NEW i \in 1..k, NEW j \in 1..k, i < j
        PROVE  s2[i] + Len(WritePacket(M[i])) <= s2[j]
    <2>1. i + 1 \in 1..(k + 1) /\ j \in 1..(k + 1) /\ i + 1 <= j
      BY <1>1, <1>7
    <2>2. st[i + 1] <= st[j]
      BY <1>5, <2>1
    <2> QED
      BY <1>2, <1>4, <2>2
  <1>8. Packed(S, s2, M, k)
    BY <1>1, <1>3, <1>4, <1>6, <1>7 DEF Packed, Spaced
  <1>9. ASSUME NEW q \in 0..Len(S), NEW e \in 0..Len(S),
               Parses(SubSeq(S, q + 1, e), 0), S[q + 1] = 162, S[q + 2] = 42
        PROVE  \E i \in 1..k : q = s2[i]
    <2> DEFINE t == SubSeq(S, q + 1, e)
    <2>1. q + 2 <= Len(S)
      <3>1. ~(0 + 6 > Len(t))
        BY <1>9 DEF Parses, Incomplete, HeadLen
      <3>2. q + 1 <= e + 1 => Len(t) = e - q
        <4>1. q + 1 \in Nat /\ 1 <= q + 1 /\ e \in Nat /\ e <= Len(S) /\ q + 1 - 1 = q /\ e + 1 - (q + 1) = e - q
          BY <1>1
        <4> QED
          BY <1>1, <4>1, SubSeqCells DEF IsPart
      <3>3. q + 1 > e + 1 => Len(t) = 0
        BY <1>1
      <3> HIDE DEF t
      <3> QED
        BY <1>1, <3>1, <3>2, <3>3
    <2>2. PICK i \in 1..k : q = st[i]
      BY <1>1, <1>9, <2>1, MagicIsHead
    <2> QED
      BY <1>2, <2>2
  <1>10. OnlyThese(S, s2, k)
    BY <1>9 DEF OnlyThese, MSG_HEAD_MAGIC
  <1> QED
    BY <1>8, <1>10 DEF Placed, s2
-----------------------------------------------------------------------------
(* Clean packets and nothing else. *)

LEMMA ScanFinds ==
    ASSUME NEW S, NEW st, NEW M, NEW k, Laid(S, st, M, k), NEW pos, NEW buf, Shows(S, pos, buf),
           NEW lucky \in BOOLEAN,
           Drop(buf, Offset(buf, lucky)) # <<>>, Parses(Drop(buf, Offset(buf, lucky)), 0)
    PROVE  LET rest == Drop(buf, Offset(buf, lucky)) IN
           \E i \in 1..k : /\ pos + Offset(buf, lucky) = st[i]
                           /\ Handed(rest) = M[i] /\ TotalLen(rest, 0) = Len(WritePacket(M[i]))
                           /\ Len(WritePacket(M[i])) <= Len(rest)
  <1> DEFINE s2 == [i \in 1..k |-> st[i]]
  <1>1. \A i \in 1..k : s2[i] = st[i]
    OBVIOUS
  <1>2. Placed(S, s2, M, k)
    BY LaidIsPlaced
  <1> HIDE DEF s2
  <1> QED
    BY <1>1, <1>2, ScanMeets

(* At the head of a packet the scan does not move, unless of the buffer    *)
(* only one byte is left: then it may step over that one.                  *)
LEMMA ScanStays ==
    ASSUME NEW S, NEW st, NEW M, NEW k, Laid(S, st, M, k), NEW a \in 1..(k + 1),
           NEW buf, Shows(S, st[a], buf), NEW lucky \in BOOLEAN
    PROVE  \/ Offset(buf, lucky) = 0
           \/ /\ Drop(buf, Offset(buf, lucky)) = <<>> /\ buf # <<>>
              /\ IsCut(buf, Len(buf) - 1)
  <1> DEFINE o == Offset(buf, lucky)
             s2 == [i \in 1..k |-> st[i]]
  <1>1. \A i \in 1..k : s2[i] = st[i]
    OBVIOUS
  <1>2. Placed(S, s2, M, k)
    BY LaidIsPlaced
  <1>3. buf \in Seq(Nat) /\ st[a] \in Nat /\ st[a] + Len(buf) <= Len(S) /\ Len(buf) \in Nat
    BY LenProperties DEF Shows
  <1>4. k \in Nat /\ st[k + 1] = Len(S) /\ Len(S) \in Nat
    BY LenProperties DEF Laid
  <1>5. o \in 0..Len(buf)
    BY <1>3, OffsetIs
  <1> HIDE DEF o, s2
  <1>6. CASE a \in 1..k
    <2>1. st[a] <= s2[a] /\ s2[a] = st[a]
      BY <1>1, <1>3, <1>6
    <2>2. \/ st[a] + o <= s2[a]
          \/ Drop(buf, o) = <<>> /\ buf # <<>> /\ IsCut(buf, Len(buf) - 1)
      BY <1>2, <1>6, <2>1, ScanPasses DEF o
    <2>3. st[a] + o <= st[a] => o = 0
      BY <1>3, <1>5
    <2> QED
      BY <2>1, <2>2, <2>3 DEF o
  <1>7. CASE a = k + 1
    <2>1. Len(buf) = 0
      BY <1>3, <1>4, <1>7
    <2> QED
      BY <1>5, <2>1 DEF o
  <1> QED
    BY <1>4, <1>6, <1>7

(* How a view of S changes: S grows, two views are joined, one is cut.     *)
LEMMA ShowsLonger ==
    ASSUME NEW S \in Seq(Nat), NEW c \in Seq(Nat), NEW pos, NEW buf, Shows(S, pos, buf)
    PROVE  Shows(S \o c, pos, buf)
  <1> DEFINE T == S \o c
  <1>1. /\ Len(T) = Len(S) + Len(c) /\ Len(S) \in Nat /\ Len(c) \in Nat
        /\ \A j \in 1..Len(S) : T[j] = S[j]
    BY ConcatCells
  <1> HIDE DEF T
  <1>2. /\ buf \in Seq(Nat) /\ pos \in Nat /\ pos + Len(buf) <= Len(S) /\ Len(buf) \in Nat
        /\ \A j \in 1..Len(buf) : buf[j] = S[pos + j]
    BY LenProperties DEF Shows
  <1>3. ASSUME NEW j \in 1..Len(buf) PROVE buf[j] = T[pos + j]
    <2>1. pos + j \in 1..Len(S)
      <3>1. pos \in Nat /\ pos + Len(buf) <= Len(S) /\ Len(buf) \in Nat /\ Len(S) \in Nat
        BY <1>1, <1>2
      <3> QED
        BY <3>1
    <2> QED
      BY <1>1, <1>2, <2>1
  <1>4. pos + Len(buf) <= Len(T)
    <2>1. pos \in Nat /\ pos + Len(buf) <= Len(S) /\ Len(buf) \in Nat /\ Len(S) \in Nat
          /\ Len(c) \in Nat /\ Len(T) = Len(S) + Len(c)
      BY <1>1, <1>2
    <2> QED
      BY <2>1
  <1>5. Shows(T, pos, buf)
    BY <1>2, <1>3, <1>4 DEF Shows
  <1> QED
    BY <1>5 DEF T

LEMMA ShowsJoined ==
    ASSUME NEW S, NEW pos, NEW a, NEW b, Shows(S, pos, a), Shows(S, pos + Len(a), b)
    PROVE  /\ Shows(S, pos, a \o b) /\ Len(a \o b) = Len(a) + Len(b)
           /\ Len(a) \in Nat /\ Len(b) \in Nat
  <1> DEFINE T == a \o b
  <1>1. /\ a \in Seq(Nat) /\ b \in Seq(Nat) /\ pos \in Nat
        /\ \A j \in 1..Len(a) : a[j] = S[pos + j]
        /\ pos + Len(a) + Len(b) <= Len(S)
        /\ \A j \in 1..Len(b) : b[j] = S[pos + Len(a) + j]
    BY DEF Shows
  <1>2. /\ T \in Seq(Nat) /\ Len(T) = Len(a) + Len(b) /\ Len(a) \in Nat /\ Len(b) \in Nat
        /\ \A j \in 1..Len(a) : T[j] = a[j]
        /\ \A j \in 1..Len(b) : T[Len(a) + j] = b[j]
    BY <1>1, ConcatCells
  <1> HIDE DEF T
  <1>3. ASSUME NEW j \in 1..Len(T) PROVE T[j] = S[pos + j]
    <2>1. CASE j <= Len(a)
      <3>1. j \in 1..Len(a)
        BY <1>2, <2>1
      <3> QED
        BY <1>1, <1>2, <3>1
    <2>2. CASE j > Len(a)
      <3>1. PICK e \in 1..Len(b) : j = Len(a) + e
        <4>1. Len(a) \in Nat /\ Len(b) \in Nat /\ j \in 1..(Len(a) + Len(b))
          BY <1>2
        <4>2. j - Len(a) \in 1..Len(b) /\ j = Len(a) + (j - Len(a))
          BY <2>2, <4>1
        <4> QED
          BY <4>2
      <3>2. pos + j = pos + Len(a) + e
        BY <1>1, <1>2, <3>1
      <3>3. T[j] = b[e] /\ b[e] = S[pos + Len(a) + e]
        BY <1>1, <1>2, <3>1
      <3> QED
        BY <3>2, <3>3
    <2> QED
      BY <1>2, <2>1, <2>2
  <1>4. pos + Len(T) <= Len(S)
    <2>1. pos + Len(T) = pos + Len(a) + Len(b)
      BY <1>1, <1>2
    <2> QED
      BY <1>1, <2>1
  <1>5. Shows(S, pos, T) /\ Len(T) = Len(a) + Len(b) /\ Len(a) \in Nat /\ Len(b) \in Nat
    BY <1>1, <1>2, <1>3, <1>4 DEF Shows
  <1> QED
    BY <1>5 DEF T

LEMMA ShowsTaken ==
    ASSUME NEW S, NEW pos, NEW buf, Shows(S, pos, buf), NEW n \in 1..Len(buf)
    PROVE  Shows(S, pos, SubSeq(buf, 1, n)) /\ Len(SubSeq(buf, 1, n)) = n
  <1> DEFINE T == SubSeq(buf, 1, n)
  <1>1. /\ buf \in Seq(Nat) /\ pos \in Nat /\ pos + Len(buf) <= Len(S) /\ Len(buf) \in Nat
        /\ \A j \in 1..Len(buf) : buf[j] = S[pos + j]
    BY LenProperties DEF Shows
  <1>2. T \in Seq(Nat) /\ Len(T) = n /\ \A j \in 1..n : T[j] = buf[j]
    BY <1>1
  <1> HIDE DEF T
  <1>3. ASSUME NEW j \in 1..Len(T) PROVE T[j] = S[pos + j]
    <2>1. j \in 1..n /\ j \in 1..Len(buf)
      BY <1>1, <1>2
    <2> QED
      BY <1>1, <1>2, <2>1
  <1>4. pos + Len(T) <= Len(S)
    <2>1. pos \in Nat /\ pos + Len(buf) <= Len(S) /\ Len(buf) \in Nat /\ n <= Len(buf) /\ Len(T) = n
      BY <1>1, <1>2
    <2> QED
      BY <2>1
  <1>5. Shows(S, pos, T) /\ Len(T) = n
    BY <1>1, <1>2, <1>3, <1>4 DEF Shows
  <1> QED
    BY <1>5 DEF T

(* One more packet behind the others. *)
LEMMA LaidMore ==
    ASSUME NEW S, NEW st, NEW M, NEW k, Laid(S, st, M, k), NEW m, Clean(m),
           NEW N, \A i \in 1..k : N[i] = M[i], N[k + 1] = m
    PROVE  \E st2 : /\ Laid(S \o WritePacket(m), st2, N, k + 1)
                    /\ \A i \in 1..(k + 1) : st2[i] = st[i]
  <1>1. /\ S \in Seq(Nat) /\ Len(S) \in Nat /\ k \in Nat /\ st \in [1..(k + 1) -> Nat]
        /\ st[1] = 0 /\ st[k + 1] = Len(S)
    BY LenProperties DEF Laid
  <1> DEFINE c == WritePacket(m)
             T == S \o c
             st2 == [i \in 1..(k + 1 + 1) |-> IF i <= k + 1 THEN st[i] ELSE Len(S) + Len(c)]
  <1>2. c \in Seq(Nat) /\ Len(c) \in Nat
    BY PacketHead DEF Clean
  <1> HIDE DEF c
  <1>3. /\ T \in Seq(Nat) /\ Len(T) = Len(S) + Len(c)
        /\ \A j \in 1..Len(S) : T[j] = S[j]
        /\ \A j \in 1..Len(c) : T[Len(S) + j] = c[j]
    BY <1>1, <1>2, ConcatCells
  <1> HIDE DEF T
  <1>4. ASSUME NEW i \in 1..(k + 1) PROVE st2[i] = st[i] /\ i \in 1..(k + 1 + 1)
    BY <1>1
  <1>5. st2[k + 1 + 1] = Len(S) + Len(c)
    <2>1. k + 1 + 1 \in 1..(k + 1 + 1) /\ ~(k + 1 + 1 <= k + 1)
      BY <1>1
    <2> QED
      BY <2>1
  <1>6. st2 \in [1..(k + 1 + 1) -> Nat]
    <2>1. ASSUME NEW i \in 1..(k + 1 + 1), i <= k + 1 PROVE st[i] \in Nat
      <3>1. i \in 1..(k + 1)
        BY <1>1, <2>1
      <3> QED
        BY <1>1, <3>1
    <2> QED
      BY <1>1, <1>2, <2>1
  <1> HIDE DEF st2
  <1>7. ASSUME NEW i \in 1..(k + 1)
        PROVE  /\ Clean(N[i]) /\ st2[i + 1] = st2[i] + Len(WritePacket(N[i]))
               /\ Lies(T, st2[i], WritePacket(N[i]))
    <2>1. CASE i = k + 1
      <3>1. N[i] = m /\ st2[i] = Len(S) /\ st2[i + 1] = Len(S) + Len(c)
        BY <1>1, <1>4, <1>5, <2>1
      <3>2. Lies(T, Len(S), c)
        BY <1>3 DEF Lies
      <3> QED
        BY <3>1, <3>2 DEF c
    <2>2. CASE i # k + 1
      <3>1. i \in 1..k /\ i + 1 \in 1..(k + 1)
        BY <1>1, <2>2
      <3>2. N[i] = M[i]
        BY <3>1
      <3>3. /\ Clean(M[i]) /\ st[i + 1] = st[i] + Len(WritePacket(M[i]))
            /\ \A j \in 1..Len(WritePacket(M[i])) : S[st[i] + j] = WritePacket(M[i])[j]
        BY <3>1 DEF Laid, Lies
      <3>4. st2[i] = st[i] /\ st2[i + 1] = st[i + 1]
        BY <1>4, <3>1
      <3>5. st[i + 1] <= Len(S) /\ st[i + 1] \in Nat /\ st[i] \in Nat
        <4>1. st[i + 1] \in Nat /\ st[i] \in Nat /\ k + 1 \in 1..(k + 1)
          BY <1>1, <3>1
        <4>2. CASE i + 1 = k + 1
          BY <1>1, <4>1, <4>2
        <4>3. CASE i + 1 # k + 1
          <5>1. i + 1 < k + 1
            BY <1>1, <3>1, <4>3
          <5>2. st[i + 1] < st[k + 1]
            BY <3>1, <4>1, <5>1, Rising
          <5> QED
            BY <1>1, <4>1, <5>2
        <4> QED
          BY <4>2, <4>3
      <3>6. Len(WritePacket(M[i])) \in Nat
        BY <3>3, PacketHead DEF Clean
      <3>7. ASSUME NEW j \in 1..Len(WritePacket(M[i]))
            PROVE  T[st[i] + j] = WritePacket(M[i])[j]
        <4>1. st[i] + j \in 1..Len(S)
          <5>1. Len(S) \in Nat
            BY <1>1
          <5>2. st[i + 1] = st[i] + Len(WritePacket(M[i]))
            BY <3>3
          <5> QED
            BY <3>5, <3>6, <5>1, <5>2
        <4> QED
          BY <1>3, <3>3, <4>1
      <3> QED
        BY <3>2, <3>3, <3>4, <3>7 DEF Lies
    <2> QED
      BY <2>1, <2>2
  <1>8. st2[1] = 0
    <2>1. 1 \in 1..(k + 1)
      BY <1>1
    <2> QED
      BY <1>1, <1>4, <2>1
  <1>9. Laid(T, st2, N, k + 1)
    BY <1>1, <1>3, <1>5, <1>6, <1>7, <1>8 DEF Laid
  <1> QED
    BY <1>4, <1>9 DEF T, c

(* Before any packet: nothing. *)
LEMMA LaidEmpty ==
    ASSUME NEW M
    PROVE  \E st : Laid(<<>>, st, M, 0) /\ st[1] = 0
  <1> DEFINE st == [i \in 1..(0 + 1) |-> 0]
  <1>1. 1 \in 1..(0 + 1) /\ st[1] = 0 /\ st[0 + 1] = 0 /\ st \in [1..(0 + 1) -> Nat]
    OBVIOUS
  <1> HIDE DEF st
  <1>2. <<>> \in Seq(Nat) /\ Len(<<>>) = 0 /\ 0 \in Nat /\ \A i \in 1..0 : FALSE
    OBVIOUS
  <1>3. Laid(<<>>, st, M, 0)
    BY <1>1, <1>2 DEF Laid
  <1> QED
    BY <1>1, <1>3
=============================================================================
