------------------------------ MODULE LinkMgr ------------------------------
(***************************************************************************)
(* The server sample: LinkMgr keeps a handler for each accepted link and   *)
(* is driven by three threads, the library's worker (its callbacks), the   *)
(* thread that cuts received bytes into packets (handle_recv_buff), and    *)
(* the owner (Init, UnInit and then ms_tcp_uninit).  The library is what   *)
(* LinkTable promises: a handle is registered before ACCEPTED names it,    *)
(* and CLOSED is said of it when it is gone.  A link that could not be     *)
(* attached stays registered, and the sample never hears of it.  What      *)
(* mo_link_map_lock or mo_recv_buf_old_lock covers is one step.            *)
(***************************************************************************)
EXTENDS Framing, FiniteSets

CONSTANTS
    MaxLinks,   \* bound: handles of accepted links
    Streams,    \* what the peer of each link may send: as reads, the stream cut
                \* anywhere, and as packets, what it means
    DataStatus  \* the ui_status with which the library hands on what it has read;
                \* END comes last, and with nothing if the data came with MIDDLE

ASSUME LinkMgrAssumption ==
    /\ MaxLinks \in Nat
    /\ \A h \in 1..MaxLinks :
           Streams[h] \subseteq [reads : Seq(Seq(Cell)), packets : Seq(Message)]
    /\ DataStatus \in {"STATUS_RECV_MIDDLE", "STATUS_RECV_END"}

Handles == 1..MaxLinks
Threads == {"worker", "recv", "owner"}

VARIABLES
    lib,            \* the library's links: registered, open (attached too), or gone
    listening,      \* the link mh_tcp_link
    wire,           \* the reads the worker has still to make, of each link
    link_map,       \* m_link_map: the handles in it
    refs,           \* the count of each handler; 0 when there is none or it is deleted
    old_map,        \* m_recv_buf_old_map
    sem,            \* mo_buff_sem
    thread_break,   \* mb_thread_break
    taken,          \* recv_buf_map_old, what handle_recv_buff has swapped out
    recv_map,       \* m_recv_buf_map
    pc, at, after,  \* where each thread is, with which link, and what comes then
    todo,           \* the owner's list of links to destroy
    meant, got,     \* history: the packets sent, and those a handler got
    cut,            \* history: links for which a scan stepped over a magic number cut in two
    hooked, late    \* history: handlers told of their end, and calls made to them since

libVars == <<lib, listening>>
bufVars == <<old_map, sem, thread_break, taken, recv_map>>
histVars == <<meant, got, cut, hooked, late>>
vars == <<libVars, wire, link_map, refs, bufVars, pc, at, after, todo, histVars>>

Empty == [h \in Handles |-> <<>>]

ControlTypes ==
    /\ lib \in [Handles -> {"unused", "registered", "open", "gone"}] /\ listening \in BOOLEAN
    /\ link_map \subseteq Handles /\ todo \subseteq Handles /\ hooked \subseteq Handles
    /\ refs \in [Handles -> Nat] /\ late \in [Handles -> Nat]
    /\ pc \in [Threads -> {"none", "idle", "attach", "accepted", "read", "post", "del", "remove", "hook", "release", "exited",
                           "swap", "take", "parse", "find", "recv", "drop",
                           "up", "join", "collect", "destroy", "unlisten", "stop", "free", "down"}]
    /\ at \in [Threads -> Handles \cup {0}]
    /\ after \in [Threads -> {"none", "idle", "del", "drop", "destroy", "free"}]
TypeOK ==
    /\ ControlTypes
    /\ wire \in [Handles -> Seq(Seq(Cell))]
    /\ old_map \in [Handles -> Seq(Cell)] /\ taken \in [Handles -> Seq(Cell)]
    /\ recv_map \in [Handles -> Seq(Cell)]
    /\ sem \in Nat /\ thread_break \in BOOLEAN
    /\ meant \in [Handles -> Seq(Message)] /\ got \in [Handles -> Seq(Message)]
    /\ cut \subseteq Handles

Init ==
    /\ lib = [h \in Handles |-> "unused"] /\ listening = FALSE
    /\ wire = Empty /\ old_map = Empty /\ taken = Empty /\ recv_map = Empty
    /\ link_map = {} /\ refs = [h \in Handles |-> 0]
    /\ sem = 0 /\ thread_break = FALSE
    /\ pc = [t \in Threads |-> IF t = "worker" THEN "idle" ELSE "none"]
    /\ at = [t \in Threads |-> 0] /\ after = [t \in Threads |-> "none"]
    /\ todo = {}
    /\ meant = Empty /\ got = Empty /\ cut = {} /\ hooked = {}
    /\ late = [h \in Handles |-> 0]

(* Thread t goes to a place, about link h; "then" is where it returns to.  *)
(* In the loops it is about no link.                                       *)
Loops == {"idle", "take", "destroy", "free"}
Enter(t, from, to, h, then) ==
    /\ pc[t] = from /\ pc' = [pc EXCEPT ![t] = to]
    /\ at' = [at EXCEPT ![t] = IF to \in Loops THEN 0 ELSE h]
    /\ after' = [after EXCEPT ![t] = then]
Goto(t, from, to) == Enter(t, from, to, at[t], after[t])
Return(t, from) == Enter(t, from, after[t], at[t], "none")

-----------------------------------------------------------------------------
(* Ends of a link: ms_tcp_destroy by a thread that has found it, and       *)
(* LinkMgr::link_remove in the callback that is said of it.                *)

(* link_destroy takes the link out of the registry, then says CLOSED,      *)
(* unless the worker has said DISCONNECTED already.                        *)
Del(t) ==
    /\ Goto(t, "del", IF after[t] = "none" THEN "idle" ELSE "remove")
    /\ lib' = [lib EXCEPT ![at[t]] = "gone"]
    /\ UNCHANGED <<listening, wire, link_map, refs, bufVars, todo, histVars>>

(* The first half of link_remove, under the lock: the copy adds one to the *)
(* count and the erased entry takes one away.                              *)
RemoveNoCopy(t) ==
    /\ IF at[t] \in link_map THEN Goto(t, "remove", "hook") ELSE Return(t, "remove")
    /\ link_map' = link_map \ {at[t]}
    /\ refs' = IF at[t] \in link_map THEN [refs EXCEPT ![at[t]] = @ - 1] ELSE refs
    /\ UNCHANGED <<libVars, wire, bufVars, todo, histVars>>
RemoveKeeps(t) ==
    /\ IF at[t] \in link_map THEN Goto(t, "remove", "hook") ELSE Return(t, "remove")
    /\ refs' = IF at[t] \in link_map THEN [refs EXCEPT ![at[t]] = @ + 1] ELSE refs
    /\ UNCHANGED <<libVars, wire, link_map, bufVars, todo, histVars>>
Remove(t) ==
    /\ IF at[t] \in link_map THEN Goto(t, "remove", "hook") ELSE Return(t, "remove")
    /\ link_map' = link_map \ {at[t]}
    /\ UNCHANGED <<libVars, wire, refs, bufVars, todo, histVars>>

(* The second half: the handler is told (link_destroy), the copy released. *)
Hook(t) ==
    /\ Goto(t, "hook", "release")
    /\ hooked' = hooked \cup {at[t]}
    /\ UNCHANGED <<libVars, wire, link_map, refs, bufVars, todo, meant, got, cut, late>>
Release(t) ==
    /\ Return(t, "release")
    /\ refs' = [refs EXCEPT ![at[t]] = @ - 1]
    /\ UNCHANGED <<libVars, wire, link_map, bufVars, todo, histVars>>

Ending(t) == Del(t) \/ Remove(t) \/ Hook(t) \/ Release(t)

-----------------------------------------------------------------------------
(* The worker, through TcpIOCallbackFunc.                                  *)

(* on_event_accept: the link is registered; it is attached, and ACCEPTED   *)
(* said, or that fails and the link is left as it is; link_create makes a  *)
(* handler and puts it into the map.                                       *)
Accept(h) ==
    /\ listening /\ Enter("worker", "idle", "attach", h, "none")
    /\ lib[h] = "unused" /\ \A g \in Handles : g < h => lib[g] # "unused"
    /\ lib' = [lib EXCEPT ![h] = "registered"]
    /\ \E s \in Streams[h] : wire' = [wire EXCEPT ![h] = s.reads] /\ meant' = [meant EXCEPT ![h] = s.packets]
    /\ UNCHANGED <<listening, link_map, refs, bufVars, todo, got, cut, hooked, late>>
AttachUnchecked ==
    /\ Goto("worker", "attach", "accepted")
    /\ \/ lib' = [lib EXCEPT ![at["worker"]] = "open"]
       \/ UNCHANGED lib
    /\ UNCHANGED <<listening, wire, link_map, refs, bufVars, todo, histVars>>
Attach ==
    /\ \/ Goto("worker", "attach", "accepted") /\ lib' = [lib EXCEPT ![at["worker"]] = "open"]
       \/ Goto("worker", "attach", "idle") /\ UNCHANGED lib
    /\ UNCHANGED <<listening, wire, link_map, refs, bufVars, todo, histVars>>
LinkCreate ==
    /\ Goto("worker", "accepted", "idle")
    /\ LET h == at["worker"] IN
       IF h \in link_map THEN UNCHANGED <<link_map, refs>>
       ELSE link_map' = link_map \cup {h} /\ refs' = [refs EXCEPT ![h] = 1]
    /\ UNCHANGED <<libVars, wire, bufVars, todo, histVars>>

(* on_event_read: data is read of a link that is open, and RECEIVEDATA     *)
(* said of it whatever has become of the link by then.                     *)
Read(h) ==
    /\ lib[h] = "open" /\ wire[h] # <<>> /\ Enter("worker", "idle", "read", h, "none")
    /\ UNCHANGED <<libVars, wire, link_map, refs, bufVars, todo, histVars>>

(* RECEIVEDATA: TcpIOCallbackFunc passes on what comes with END, which is  *)
(* nothing where the data came before it; do_post_recv_buff appends what   *)
(* there is under the lock, and sem_post follows the unlock.               *)
Passed(data) == IF DataStatus = "STATUS_RECV_END" THEN data ELSE <<>>
ReceiveOver ==
    LET h == at["worker"] IN
    /\ Goto("worker", "read", "post")
    /\ wire' = [wire EXCEPT ![h] = Tail(@)]
    /\ old_map' = [old_map EXCEPT ![h] = Head(wire[h])]
    /\ UNCHANGED <<libVars, link_map, refs, sem, thread_break, taken, recv_map, todo, histVars>>
Receive ==
    LET h == at["worker"]
        data == Passed(Head(wire[h]))
    IN
    /\ Goto("worker", "read", IF data = <<>> THEN "idle" ELSE "post")
    /\ wire' = [wire EXCEPT ![h] = Tail(@)]
    /\ old_map' = [old_map EXCEPT ![h] = @ \o data]
    /\ UNCHANGED <<libVars, link_map, refs, sem, thread_break, taken, recv_map, todo, histVars>>

Post ==
    /\ Goto("worker", "post", "idle") /\ sem' = sem + 1
    /\ UNCHANGED <<libVars, wire, link_map, refs, old_map, thread_break, taken, recv_map, todo, histVars>>

(* The peer hangs up: DISCONNECTED is said first and the link destroyed    *)
(* after it, without CLOSED; or a read finds the end and CLOSED is said.   *)
Disconnect(h) ==
    /\ lib[h] = "open" /\ Enter("worker", "idle", "remove", h, "del")
    /\ UNCHANGED <<libVars, wire, link_map, refs, bufVars, todo, histVars>>
ReadEnd(h) ==
    /\ lib[h] = "open" /\ Enter("worker", "idle", "del", h, "idle")
    /\ UNCHANGED <<libVars, wire, link_map, refs, bufVars, todo, histVars>>

WorkerExits ==
    /\ pc["owner"] = "stop" /\ Goto("worker", "idle", "exited")
    /\ UNCHANGED <<libVars, wire, link_map, refs, bufVars, todo, histVars>>

Worker ==
    \/ \E h \in Handles : Accept(h) \/ Read(h) \/ Disconnect(h) \/ ReadEnd(h)
    \/ Attach \/ LinkCreate \/ Receive \/ Post \/ Ending("worker") \/ WorkerExits

-----------------------------------------------------------------------------
(* handle_recv_buff.                                                       *)

PollUntimed ==
    /\ sem > 0 /\ sem' = sem - 1
    /\ Goto("recv", "idle", IF thread_break THEN "exited" ELSE "swap")
    /\ UNCHANGED <<libVars, wire, link_map, refs, old_map, thread_break, taken, recv_map, todo, histVars>>
Poll ==
    /\ IF thread_break THEN Goto("recv", "idle", "exited") /\ UNCHANGED sem
       ELSE sem > 0 /\ sem' = sem - 1 /\ Goto("recv", "idle", "swap")
    /\ UNCHANGED <<libVars, wire, link_map, refs, old_map, thread_break, taken, recv_map, todo, histVars>>

(* One unit of the semaphore stands for all there is; later units then     *)
(* find nothing.                                                           *)
Swap ==
    /\ Goto("recv", "swap", "take")
    /\ taken' = old_map /\ old_map' = Empty
    /\ UNCHANGED <<libVars, wire, link_map, refs, sem, thread_break, recv_map, todo, histVars>>

Take ==
    /\ \/ \E h \in Handles :
              /\ taken[h] # <<>> /\ \A g \in Handles : g < h => taken[g] = <<>>
              /\ recv_map' = [recv_map EXCEPT ![h] = @ \o taken[h]]
              /\ taken' = [taken EXCEPT ![h] = <<>>]
              /\ Enter("recv", "take", "parse", h, "none")
       \/ taken = Empty /\ Goto("recv", "take", "idle") /\ UNCHANGED <<taken, recv_map>>
    /\ UNCHANGED <<libVars, wire, link_map, refs, old_map, sem, thread_break, todo, histVars>>

(* The inner loop up to the next packet, or to the bytes to be kept.  The  *)
(* packet stays at the head of the buffer until its handler has been       *)
(* looked for; m_recv_buf_map is this thread's own.                        *)
Parse ==
    /\ pc["recv"] = "parse"
    /\ LET buf == recv_map[at["recv"]] IN
       \E lucky \in BOOLEAN :
           LET rest == Drop(buf, Offset(buf, lucky)) IN
           /\ recv_map' = [recv_map EXCEPT ![at["recv"]] = rest]
           /\ Goto("recv", "parse", IF rest # <<>> /\ Parses(rest, 0) THEN "find" ELSE "take")
           /\ cut' = IF rest = <<>> /\ buf # <<>> /\ IsCut(buf, Len(buf) - 1)
                     THEN cut \cup {at["recv"]} ELSE cut
           /\ UNCHANGED <<libVars, wire, link_map, refs, old_map, sem, thread_break, taken, todo,
                          meant, got, hooked, late>>

(* link_recv_data: the handler is found and counted under the lock, and    *)
(* called after it.  A packet for a link that has been removed is dropped. *)
Find ==
    /\ IF at["recv"] \in link_map
       THEN /\ Goto("recv", "find", "recv")
            /\ refs' = [refs EXCEPT ![at["recv"]] = @ + 1]
            /\ UNCHANGED recv_map
       ELSE /\ Goto("recv", "find", "parse")
            /\ recv_map' = [recv_map EXCEPT ![at["recv"]] = Drop(@, TotalLen(@, 0))]
            /\ UNCHANGED refs
    /\ UNCHANGED <<libVars, wire, link_map, old_map, sem, thread_break, taken, todo, histVars>>

(* The handler's recv_data, which may destroy its own link.                *)
Recv ==
    LET h == at["recv"] IN
    /\ pc["recv"] = "recv"
    /\ got' = [got EXCEPT ![h] = Append(@, Handed(recv_map[h]))]
    /\ recv_map' = [recv_map EXCEPT ![h] = Drop(@, TotalLen(@, 0))]
    /\ late' = IF h \in hooked THEN [late EXCEPT ![h] = @ + 1] ELSE late
    /\ \/ Goto("recv", "recv", "drop")
       \/ lib[h] = "open" /\ Enter("recv", "recv", "del", h, "drop")
    /\ UNCHANGED <<libVars, wire, link_map, refs, old_map, sem, thread_break, taken, todo,
                   meant, cut, hooked>>

DropRef ==
    /\ Goto("recv", "drop", "parse")
    /\ refs' = [refs EXCEPT ![at["recv"]] = @ - 1]
    /\ UNCHANGED <<libVars, wire, link_map, bufVars, todo, histVars>>

HandleRecvBuff == Poll \/ Swap \/ Take \/ Parse \/ Find \/ Recv \/ DropRef \/ Ending("recv")

-----------------------------------------------------------------------------
(* The owner.                                                              *)

OwnerStep(from, to) ==
    /\ Goto("owner", from, to)
    /\ UNCHANGED <<wire, link_map, refs, old_map, sem, taken, recv_map, histVars>>

(* Init: the thread, then the listening link, which may fail to come.      *)
InitMgr ==
    /\ pc["owner"] = "none" /\ pc["recv"] = "none"
    /\ pc' = [pc EXCEPT !["owner"] = "up", !["recv"] = "idle"]
    /\ listening' \in BOOLEAN
    /\ UNCHANGED <<lib, wire, link_map, refs, bufVars, at, after, todo, histVars>>

(* UnInit: break and join the thread, link_remove_all, the listening link. *)
UnInit == OwnerStep("up", "join") /\ thread_break' = TRUE /\ UNCHANGED <<libVars, todo>>
Joined == pc["recv"] = "exited" /\ OwnerStep("join", "collect") /\ UNCHANGED <<libVars, todo, thread_break>>
Collect == OwnerStep("collect", "destroy") /\ todo' = link_map /\ UNCHANGED <<libVars, thread_break>>
Unlisten ==
    /\ todo = {} /\ OwnerStep("destroy", "unlisten")
    /\ listening' = FALSE /\ UNCHANGED <<lib, todo, thread_break>>

(* ms_tcp_uninit: the worker is joined, then free_all_link_map.            *)
Registered == {"registered", "open"}
Stop == OwnerStep("unlisten", "stop") /\ UNCHANGED <<libVars, todo, thread_break>>
StoppedMapped ==
    /\ pc["worker"] = "exited" /\ OwnerStep("stop", "free")
    /\ todo' = {} /\ UNCHANGED <<libVars, thread_break>>
Stopped ==
    /\ pc["worker"] = "exited" /\ OwnerStep("stop", "free")
    /\ todo' = {h \in Handles : lib[h] \in Registered} /\ UNCHANGED <<libVars, thread_break>>
Down == todo = {} /\ OwnerStep("free", "down") /\ UNCHANGED <<libVars, todo, thread_break>>

(* Both walk a list and destroy what is still there.                       *)
Destroy(h) ==
    /\ h \in todo /\ todo' = todo \ {h}
    /\ pc["owner"] \in {"destroy", "free"}
    /\ IF lib[h] \in Registered THEN Enter("owner", pc["owner"], "del", h, pc["owner"])
       ELSE UNCHANGED <<pc, at, after>>
    /\ UNCHANGED <<libVars, wire, link_map, refs, bufVars, histVars>>

Owner ==
    \/ InitMgr \/ UnInit \/ Joined \/ Collect \/ Unlisten \/ Stop \/ Stopped \/ Down
    \/ \E h \in Handles : Destroy(h)
    \/ Ending("owner")

Next == Worker \/ HandleRecvBuff \/ Owner

Spec == Init /\ [][Next]_vars

(* The peers and the owner may do nothing more, but a callback, a packet   *)
(* and an UnInit or ms_tcp_uninit that has begun go on.                    *)
FairSpec ==
    /\ Spec
    /\ WF_vars(Attach \/ LinkCreate \/ Receive \/ Post \/ Ending("worker") \/ WorkerExits)
    /\ WF_vars(HandleRecvBuff)
    /\ WF_vars(Joined \/ Collect \/ Unlisten \/ Stop \/ Stopped \/ Down \/ Ending("owner")
                  \/ \E h \in Handles : Destroy(h))

-----------------------------------------------------------------------------
(* The count of a handler is the number of pointers to it: the map's, and  *)
(* those of the threads in link_remove and link_recv_data.                 *)
InMap(h) == IF h \in link_map THEN 1 ELSE 0
Removing(t, h) == at[t] = h /\ pc[t] \in {"hook", "release"}
InRemove(t, h) == IF Removing(t, h) THEN 1 ELSE 0
Calling(h) == at["recv"] = h /\ (pc["recv"] \in {"recv", "drop"} \/ after["recv"] = "drop")
InCall(h) == IF Calling(h) THEN 1 ELSE 0
Pointers(h) ==
    InMap(h) + InCall(h) + InRemove("worker", h) + InRemove("recv", h) + InRemove("owner", h)
RefsArePointers == \A h \in Handles : refs[h] = Pointers(h)

(* A handler is not deleted under a thread that calls it (recv_data, the   *)
(* link_destroy hook), whoever removes its link meanwhile; and it is       *)
(* deleted once its link is removed and the last of them has let go.       *)
HandlersLive ==
    \A h \in Handles :
        /\ Calling(h) \/ (\E t \in Threads : Removing(t, h)) => refs[h] > 0
        /\ refs[h] > 0 => h \in link_map \/ Calling(h) \/ \E t \in Threads : Removing(t, h)

(* m_link_map and the library: an entry is of a link that is attached, or  *)
(* has a thread on its way to remove it; and an attached link without one  *)
(* is one of which the worker is about to say ACCEPTED, or which it is     *)
(* ending.  Of a link that could not be attached nothing is said but that  *)
(* it has no entry: it may stay registered so, with nobody to mend it.     *)
MapFollowsLibrary ==
    \A h \in Handles :
        /\ h \in link_map =>
               lib[h] = "open" \/ \E t \in Threads : at[t] = h /\ pc[t] = "remove"
        /\ lib[h] = "open" /\ h \notin link_map =>
               at["worker"] = h /\ pc["worker"] \in {"accepted", "remove", "hook", "release", "del"}

(* A handler gets packets in the order sent, each once and whole; it may   *)
(* miss one only if a magic number was cut in two by the end of a read.    *)
PacketsInOrder ==
    \A h \in Handles :
        IF h \in cut THEN IsPartOf(got[h], meant[h]) ELSE IsPrefixOf(got[h], meant[h])

(* After a handler has been told that its link is gone (link_destroy), at  *)
(* most the one packet whose handler had been looked up before reaches it. *)
AtMostOneLate == \A h \in Handles : late[h] <= 1

(* After UnInit and ms_tcp_uninit no handler is left, the ones included    *)
(* that were accepted while UnInit was destroying the others, and no link  *)
(* either, the ones included of which the sample was never told.           *)
NoHandlerLeft ==
    pc["owner"] = "down" =>
        /\ link_map = {} /\ \A h \in Handles : refs[h] = 0
        /\ \A h \in Handles : lib[h] \notin Registered

(* What the worker has read of a link reaches its handler, unless the link *)
(* or the manager ends, or a magic number was cut.                         *)
Delivered ==
    \A h \in Handles :
        h \in link_map /\ wire[h] = <<>> ~>
            got[h] = meant[h] \/ h \notin link_map \/ h \in cut \/ thread_break

(* UnInit and ms_tcp_uninit come to an end.                                *)
UnInitReturns == pc["owner"] = "join" ~> pc["owner"] = "down"
=============================================================================
