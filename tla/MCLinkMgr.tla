----------------------------- MODULE MCLinkMgr -----------------------------
(* Instances of LinkMgr for TLC.  The first peer sends the requests of the *)
(* client and a message longer than the stream ever gets; or half a magic  *)
(* number, a message too short to be read, one of an unknown type and a    *)
(* request.  The second peer sends one request.                            *)
EXTENDS LinkMgr

SE == INSTANCE SequencesExt

VerReq(seq, str) ==
    [msg_type |-> IR_MONITOR_VER_NEGO_REQ, seq_id |-> seq, i_ret |-> 0, body |-> <<str>>]
AuthReq(seq) ==
    [msg_type |-> IR_MONITOR_LINK_AUTH_REQ, seq_id |-> seq, i_ret |-> 0,
     body |-> <<<<7, 8>>, <<9>>, <<1>>, <<2>>, <<3>>>>]

(* Headers that say n of a message of this type.                           *)
Header(type, n) == MSG_HEAD_MAGIC \o <<type, n, 0, 0>>

(* What arrives in one read, or in two that meet at one of the cuts.       *)
Sent(packets, cells, cuts) ==
    { [reads |-> <<SubSeq(cells, 1, n), SubSeq(cells, n + 1, Len(cells))>>, packets |-> packets] :
          n \in cuts }
    \cup { [reads |-> <<cells>>, packets |-> packets] }

MCStreams ==
    <<  Sent(<<VerReq(1, <<4>>), AuthReq(2)>>,
             WritePacket(VerReq(1, <<4>>)) \o WritePacket(AuthReq(2)) \o Header(1, 9),
             {8, 9})
        \cup Sent(<<VerReq(1, <<>>)>>,
                  <<MSG_HEAD_MAGIC[1]>> \o Header(1, HeadLen) \o Header(3, HeadLen + 1) \o <<0>>
                      \o WritePacket(VerReq(1, <<>>)),
                  {2, 15}),
        Sent(<<VerReq(3, <<>>)>>, WritePacket(VerReq(3, <<>>)), {}) >>

(* The packets are in what is sent, and nothing else there would parse.    *)
ASSUME StreamsAreMeant ==
    \A h \in Handles : \A s \in Streams[h] :
        LET S == SE!FlattenSeq(s.reads)
            k == Len(s.packets)
        IN  \E st \in [1..k -> 0..Len(S)] : Spaced(S, st, s.packets, k) /\ OnlyThese(S, st, k)
=============================================================================
