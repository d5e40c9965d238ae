----------------------------- MODULE MCTcpLink -----------------------------
(* Instances of TcpLink for TLC. *)
EXTENDS TcpLink, TLC

CONSTANTS a1, a2

MCCallsAll == [t \in App |-> CallNames]
MCCallsServer == [t \in App |-> {"create", "listen", "connect", "send", "destroy"}]
MCCallsDestroy == (a1 :> {"create", "listen"}) @@ (a2 :> {"destroy"})
FdSymmetry == Permutations(Fds)
=============================================================================
