------------------------------ MODULE Sockets ------------------------------
(***************************************************************************)
(* The operating system as tcp-epoll uses it: a table of descriptors, and  *)
(* for every open descriptor the TCP socket behind it and its registration *)
(* in the one epoll set.  External code: what is written here is what the  *)
(* calls of ms-epoll.cpp and tcp-link.cpp rely on.                         *)
(*                                                                         *)
(* A socket remembers the link it was opened for (owner).  The code has no *)
(* such field: a descriptor is a bare number there, and the number comes   *)
(* back as soon as it is closed.  The owner is what tells the two uses of  *)
(* a number apart.                                                         *)
(***************************************************************************)
EXTENDS Naturals, FiniteSets

CONSTANTS Fds,       \* descriptor numbers
          NoFd,      \* -1, the descriptor of a link that has none
          MaxLinks,  \* bound: links ever added, the handles are 1..MaxLinks
          MaxRx      \* bound: unread segments of one socket

ASSUME SocketsAssumption == /\ NoFd \notin Fds
                            /\ MaxLinks \in Nat
                            /\ MaxRx \in Nat \ {0}

Links == 1 .. MaxLinks
NoLink == 0                \* INVALID_HTCPLINK, and "nobody" for an owner
LinkOrNone == Links \cup {NoLink}
FdOrNone == Fds \cup {NoFd}

(* "up" is an established connection, "fin" one whose peer has sent its    *)
(* FIN, "reset" one that failed or was reset.                              *)
SocketStates == {"closed", "bound", "listening", "connecting", "up", "fin", "reset"}

Socket == [owner : LinkOrNone, st : SocketStates, rx : 0 .. MaxRx,
           tag : LinkOrNone, ready : BOOLEAN]
SocketTable == [Fds -> Socket]

Unused == [owner |-> NoLink, st |-> "closed", rx |-> 0, tag |-> NoLink, ready |-> FALSE]
Fresh(l, s) == [owner |-> l, st |-> s, rx |-> 0, tag |-> NoLink, ready |-> FALSE]

IsOpen(tab, f) == f \in Fds /\ tab[f].owner # NoLink
StateOf(tab, f) == IF IsOpen(tab, f) THEN tab[f].st ELSE "closed"
OwnerOf(tab, f) == IF IsOpen(tab, f) THEN tab[f].owner ELSE NoLink
FreeFds(tab) == {f \in Fds : tab[f].owner = NoLink}

-----------------------------------------------------------------------------
(* What epoll_wait reports of a socket, as the three questions             *)
(* is_disconnected, is_readable and is_writeable that the worker asks.     *)
Poll(s) ==
    (IF s.st \in {"fin", "reset"} THEN {"HUP"} ELSE {})
      \cup (IF s.rx > 0 \/ s.st \in {"fin", "reset"} THEN {"IN"} ELSE {})
      \cup (IF s.st \in {"bound", "up", "fin", "reset"} THEN {"OUT"} ELSE {})
      \cup (IF s.st = "bound" THEN {"HUP"} ELSE {})

(* EPOLL_CTL_ADD and EPOLL_CTL_MOD look at the socket once: what is        *)
(* pending is reported by the next epoll_wait.  After that only a change   *)
(* of the socket (Edge) makes it ready again: the sets are EPOLLET.        *)
Armed(s, h) == [s EXCEPT !.tag = h, !.ready = (Poll(s) # {})]
Edge(s) == [s EXCEPT !.ready = (s.tag # NoLink)]

(* MsEpoll::attach_to_epoll: EBADF on a descriptor that is not open, EEXIST *)
(* on one that is attached.                                                *)
CanAttach(tab, f) == IsOpen(tab, f) /\ tab[f].tag = NoLink
attach_to_epoll(tab, f, h) ==
    IF CanAttach(tab, f) THEN [tab EXCEPT ![f] = Armed(@, h)] ELSE tab

(* MsEpoll::mod_epoll_read: ENOENT on a descriptor that is not attached.   *)
mod_epoll_read(tab, f, h) ==
    IF IsOpen(tab, f) /\ tab[f].tag # NoLink
    THEN [tab EXCEPT ![f] = Armed(@, h)]
    ELSE tab

(* MsEpoll::del_epoll_read.                                                *)
del_epoll_read(tab, f) ==
    IF IsOpen(tab, f) THEN [tab EXCEPT ![f].tag = NoLink, ![f].ready = FALSE] ELSE tab

(* close(2): the number is free at once, and the epoll set forgets it.     *)
CloseFd(tab, f) == IF f \in Fds THEN [tab EXCEPT ![f] = Unused] ELSE tab

(* connect(2) on a nonblocking socket, and listen(2).  Both can fail for   *)
(* reasons of the network or the address; both must fail in other states.  *)
(* The first connect(2) after one that has completed on its own returns 0  *)
(* and changes nothing; which connect(2) it is the socket does not keep.   *)
CanConnect(tab, f) == StateOf(tab, f) = "bound"
IsConnected(tab, f) == StateOf(tab, f) \in {"up", "fin"}
CanListen(tab, f) == StateOf(tab, f) \in {"bound", "listening"}

(* epoll_wait empties the ready list and reports each socket as it is now. *)
Reported(tab) == {f \in Fds : tab[f].ready /\ Poll(tab[f]) # {}}
Harvest(tab) == {[h |-> tab[f].tag, ev |-> Poll(tab[f])] : f \in Reported(tab)}
Quieted(tab) == [f \in Fds |-> [tab[f] EXCEPT !.ready = FALSE]]
=============================================================================
