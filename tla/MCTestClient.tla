---------------------------- MODULE MCTestClient ----------------------------
(* An instance of TestClient for TLC: one request of each kind.            *)
EXTENDS TestClient

MCRequests ==
    << [msg_type |-> IR_MONITOR_VER_NEGO_REQ, seq_id |-> 1, i_ret |-> 0, body |-> <<<<4>>>>],
       [msg_type |-> IR_MONITOR_LINK_AUTH_REQ, seq_id |-> 2, i_ret |-> 0,
        body |-> <<<<7, 8>>, <<9>>, <<1>>, <<2>>, <<3>>>>] >>
=============================================================================
