--------------------------- MODULE LinkMgr_proofs ---------------------------
(***************************************************************************)
(* Proofs about LinkMgr, for every number of links and whatever the peers  *)
(* send: the counts of the handlers are right, m_link_map follows the      *)
(* library, nothing is left at the end, and at most one call is late.  And *)
(* if the peers send packets of messages, with anything between them that  *)
(* is not one, their handlers get those in order.                          *)
(***************************************************************************)
EXTENDS LinkMgr, Framing_proofs, TLAPS

-----------------------------------------------------------------------------
(* The invariant, in parts. *)

EndPlaces == {"remove", "hook", "release"}
Hanging == after["worker"] = "del" \/ (pc["worker"] = "del" /\ after["worker"] = "none")

(* Where each thread may be, with which link, and where it returns to.     *)
Paths ==
    /\ \A t \in Threads :
           /\ at[t] \in Handles <=>
                  pc[t] \in EndPlaces \cup {"del", "attach", "accepted", "read", "post",
                                           "parse", "find", "recv", "drop"}
           /\ pc[t] \in EndPlaces => after[t] # "none"
           /\ after[t] # "none" => pc[t] \in EndPlaces \cup {"del"}
    /\ pc["worker"] \in {"idle", "attach", "accepted", "read", "post", "exited", "del"} \cup EndPlaces
    /\ after["worker"] \in {"none", "idle", "del"}
    /\ after["worker"] = "del" => pc["worker"] \in EndPlaces
    /\ pc["recv"] \in {"none", "idle", "exited", "swap", "take", "parse", "find", "recv", "drop", "del"}
                      \cup EndPlaces
    /\ after["recv"] \in {"none", "drop"}
    /\ pc["recv"] = "del" => after["recv"] = "drop"
    /\ pc["owner"] \in {"none", "up", "join", "collect", "destroy", "unlisten", "stop", "free", "down",
                        "del"} \cup EndPlaces
    /\ after["owner"] \in {"none", "destroy", "free"}
    /\ pc["owner"] = "del" => after["owner"] # "none"

(* Of a handle whose ACCEPTED has not been said only the worker knows, and *)
(* when the worker has ended the owner, who ends what is registered.       *)
Unknown(h) ==
    \/ lib[h] \in {"unused", "registered"}
    \/ at["worker"] = h /\ pc["worker"] = "accepted"
Alone(h) ==
    /\ h \notin link_map /\ h \notin hooked
    /\ old_map[h] = <<>> /\ taken[h] = <<>>
    /\ at["recv"] # h
    /\ at["worker"] = h => pc["worker"] \in {"attach", "accepted"} /\ lib[h] # "unused"
    /\ h \in todo => pc["worker"] = "exited" /\ lib[h] = "registered"
    /\ at["owner"] = h =>
           pc["worker"] = "exited" /\ lib[h] = "registered" /\ pc["owner"] = "del"
Fresh ==
    /\ DOMAIN old_map = Handles /\ DOMAIN taken = Handles
    /\ \A h \in Handles : Unknown(h) => Alone(h)

(* The link the worker is about while it is being accepted.                *)
Announcing ==
    /\ pc["worker"] = "attach" => lib[at["worker"]] = "registered"
    /\ pc["worker"] = "accepted" => lib[at["worker"]] = "open"

(* Who removes an entry has ended the link, except for the worker when     *)
(* DISCONNECTED has been said; and it is removed once.                     *)
Endings ==
    /\ \A t \in Threads :
           /\ pc[t] \in EndPlaces /\ ~(t = "worker" /\ Hanging) => lib[at[t]] = "gone"
           /\ pc[t] \in {"hook", "release"} => at[t] \notin link_map
    /\ pc["worker"] = "del" /\ Hanging => at["worker"] \notin link_map

(* The other threads have ended when the owner ends what is left.          *)
LastPart == pc["owner"] \in {"free", "down"} \/ after["owner"] = "free"
Ended ==
    LastPart =>
        /\ pc["worker"] = "exited" /\ pc["recv"] = "exited"
        /\ \A h \in Handles : lib[h] \in Registered =>
               pc["owner"] # "down" /\ (h \in todo \/ (at["owner"] = h /\ pc["owner"] = "del"))
RecvEnded ==
    \/ pc["owner"] \in {"none", "up", "join"}
    \/ pc["recv"] = "exited"

LateInv ==
    /\ \A h \in hooked : h \notin link_map
    /\ \A h \in Handles :
           /\ late[h] > 0 => h \in hooked
           /\ pc["recv"] = "recv" /\ at["recv"] = h => late[h] = 0

LinkInv ==
    /\ ControlTypes /\ Paths /\ Fresh /\ Announcing /\ RefsArePointers
    /\ Endings /\ MapFollowsLibrary /\ Ended /\ RecvEnded
    /\ LateInv /\ AtMostOneLate

-----------------------------------------------------------------------------
(* Moves of a thread. *)

LEMMA ThreadNames == \A t \in Threads : t = "worker" \/ t = "recv" \/ t = "owner"
  BY DEF Threads

LEMMA EnterIs ==
    ASSUME ControlTypes, NEW t \in Threads, NEW from, NEW to, NEW h, NEW then,
           Enter(t, from, to, h, then)
    PROVE  /\ pc[t] = from /\ pc'[t] = to /\ after'[t] = then
           /\ at'[t] = IF to \in Loops THEN 0 ELSE h
           /\ \A u \in Threads \ {t} : pc'[u] = pc[u] /\ at'[u] = at[u] /\ after'[u] = after[u]
  BY DEF ControlTypes, Enter

(* What moves there are: t goes on with the link it is about (stay), turns *)
(* to link h (turn), or comes back from the end of a link (back).          *)
LEMMA Stays ==
    ASSUME ControlTypes, NEW t \in Threads, NEW from, NEW to, Goto(t, from, to)
    PROVE  /\ pc[t] = from /\ pc'[t] = to /\ after'[t] = after[t]
           /\ at'[t] = IF to \in Loops THEN 0 ELSE at[t]
           /\ \A u \in Threads \ {t} : pc'[u] = pc[u] /\ at'[u] = at[u] /\ after'[u] = after[u]
  BY EnterIs DEF Goto

LEMMA Returns ==
    ASSUME ControlTypes, NEW t \in Threads, NEW from, Return(t, from)
    PROVE  /\ pc[t] = from /\ pc'[t] = after[t] /\ after'[t] = "none"
           /\ at'[t] = IF after[t] \in Loops THEN 0 ELSE at[t]
           /\ \A u \in Threads \ {t} : pc'[u] = pc[u] /\ at'[u] = at[u] /\ after'[u] = after[u]
  BY EnterIs DEF Return

(* Every step moves at most one thread, but for Init, which starts one.    *)
Moved(t) == \A u \in Threads \ {t} : pc'[u] = pc[u] /\ at'[u] = at[u] /\ after'[u] = after[u]

(* Where a thread that ends a link goes.                                   *)
LEMMA EndingMoves ==
    ASSUME ControlTypes, Paths, NEW t \in Threads, Ending(t)
    PROVE  /\ Moved(t)
           /\ \/ /\ pc[t] = "del" /\ after[t] = "none" /\ t = "worker"
                 /\ pc'[t] = "idle" /\ at'[t] = 0 /\ after'[t] = "none"
              \/ /\ pc[t] = "del" /\ after[t] # "none"
                 /\ pc'[t] = "remove" /\ at'[t] = at[t] /\ after'[t] = after[t]
              \/ /\ pc[t] = "remove" /\ at[t] \in link_map
                 /\ pc'[t] = "hook" /\ at'[t] = at[t] /\ after'[t] = after[t]
              \/ /\ pc[t] = "hook"
                 /\ pc'[t] = "release" /\ at'[t] = at[t] /\ after'[t] = after[t]
              \/ /\ (pc[t] = "remove" /\ at[t] \notin link_map) \/ pc[t] = "release"
                 /\ pc'[t] = after[t] /\ after'[t] = "none" /\ after[t] # "none"
                 /\ at'[t] = IF after[t] \in {"del", "drop"} THEN at[t] ELSE 0
  <1>1. /\ pc[t] \in EndPlaces => after[t] # "none"
        /\ after[t] \in {"none", "idle", "del", "drop", "destroy", "free"}
        /\ t # "worker" /\ pc[t] = "del" => after[t] # "none"
    BY ThreadNames DEF Paths, ControlTypes
  <1>2. CASE Del(t)
    BY <1>1, <1>2, Stays DEF Del, Loops, Moved
  <1>3. CASE Remove(t)
    BY <1>1, <1>3, Stays, Returns DEF Remove, Loops, Moved, EndPlaces
  <1>4. CASE Hook(t)
    BY <1>4, Stays DEF Hook, Loops, Moved
  <1>5. CASE Release(t)
    BY <1>1, <1>5, Returns DEF Release, Loops, Moved, EndPlaces
  <1> QED
    BY <1>2, <1>3, <1>4, <1>5 DEF Ending

LEMMA NoZero == 0 \notin Handles
  BY LinkMgrAssumption DEF Handles

(* The other moves of the worker, of handle_recv_buff and of the owner.    *)
LEMMA WorkerMoves ==
    ASSUME ControlTypes, Paths, Worker, ~Ending("worker")
    PROVE  /\ Moved("worker") /\ after["worker"] = "none"
           /\ \/ /\ pc["worker"] = "idle" /\ pc'["worker"] = "attach" /\ after'["worker"] = "none"
                 /\ at'["worker"] \in Handles /\ Accept(at'["worker"])
              \/ /\ pc["worker"] = "attach" /\ pc'["worker"] = "accepted" /\ after'["worker"] = "none"
                 /\ at'["worker"] = at["worker"] /\ lib' = [lib EXCEPT ![at["worker"]] = "open"]
              \/ /\ pc["worker"] \in {"attach", "accepted", "read", "post"} /\ pc'["worker"] = "idle"
                 /\ at'["worker"] = 0 /\ after'["worker"] = "none"
                 /\ lib' = lib /\ (pc["worker"] = "accepted" => LinkCreate)
              \/ /\ pc["worker"] = "read" /\ pc'["worker"] = "post" /\ after'["worker"] = "none"
                 /\ at'["worker"] = at["worker"]
              \/ /\ pc["worker"] = "idle" /\ pc'["worker"] = "exited" /\ after'["worker"] = "none"
                 /\ at'["worker"] = at["worker"]
              \/ /\ pc["worker"] = "idle" /\ at'["worker"] \in Handles /\ lib[at'["worker"]] = "open"
                 /\ \/ pc'["worker"] = "read" /\ after'["worker"] = "none"
                    \/ pc'["worker"] = "remove" /\ after'["worker"] = "del"
                    \/ pc'["worker"] = "del" /\ after'["worker"] = "idle"
  <1>0. "worker" \in Threads
    BY DEF Threads
  <1>1. pc["worker"] \in {"idle", "attach", "accepted", "read", "post"} => after["worker"] = "none"
    BY <1>0 DEF Paths, EndPlaces
  <1>2. ASSUME NEW h \in Handles, Accept(h)
        PROVE  /\ Moved("worker") /\ pc["worker"] = "idle" /\ pc'["worker"] = "attach"
               /\ at'["worker"] = h /\ after'["worker"] = "none"
    <2>1. Enter("worker", "idle", "attach", h, "none")
      BY <1>2 DEF Accept
    <2> QED
      BY <1>0, <2>1, EnterIs DEF Moved, Loops
  <1>3. CASE Attach
    <2>1. CASE Goto("worker", "attach", "accepted") /\ lib' = [lib EXCEPT ![at["worker"]] = "open"]
      BY <1>0, <1>1, <2>1, Stays DEF Moved, Loops
    <2>2. CASE Goto("worker", "attach", "idle") /\ UNCHANGED lib
      BY <1>0, <1>1, <2>2, Stays DEF Moved, Loops
    <2> QED
      BY <1>3, <2>1, <2>2 DEF Attach
  <1>4. CASE LinkCreate
    <2>1. Goto("worker", "accepted", "idle") /\ lib' = lib
      BY <1>4 DEF LinkCreate, libVars
    <2> QED
      BY <1>0, <1>1, <1>4, <2>1, Stays DEF Moved, Loops
  <1>5. CASE Receive
    <2>1. (Goto("worker", "read", "post") \/ Goto("worker", "read", "idle")) /\ lib' = lib
      BY <1>5 DEF Receive, libVars
    <2> QED
      BY <1>0, <1>1, <2>1, Stays DEF Moved, Loops
  <1>6. CASE Post \/ WorkerExits
    <2>1. (Goto("worker", "post", "idle") \/ Goto("worker", "idle", "exited")) /\ lib' = lib
      BY <1>6 DEF Post, WorkerExits, libVars
    <2> QED
      BY <1>0, <1>1, <2>1, Stays DEF Moved, Loops
  <1>7. ASSUME NEW h \in Handles, Read(h) \/ Disconnect(h) \/ ReadEnd(h)
        PROVE  /\ Moved("worker") /\ pc["worker"] = "idle"
               /\ lib[h] = "open" /\ at'["worker"] = h
               /\ \/ pc'["worker"] = "read" /\ after'["worker"] = "none"
                  \/ pc'["worker"] = "remove" /\ after'["worker"] = "del"
                  \/ pc'["worker"] = "del" /\ after'["worker"] = "idle"
    <2>1. \/ Enter("worker", "idle", "read", h, "none")
          \/ Enter("worker", "idle", "remove", h, "del")
          \/ Enter("worker", "idle", "del", h, "idle")
      BY <1>7 DEF Read, Disconnect, ReadEnd
    <2> QED
      BY <1>0, <1>7, <2>1, EnterIs DEF Moved, Loops, Read, Disconnect, ReadEnd
  <1> QED
    BY <1>1, <1>2, <1>3, <1>4, <1>5, <1>6, <1>7 DEF Worker

LEMMA RecvMoves ==
    ASSUME ControlTypes, Paths, HandleRecvBuff, ~Ending("recv")
    PROVE  /\ Moved("recv") /\ after["recv"] = "none"
           /\ \/ /\ pc["recv"] = "idle" /\ pc'["recv"] \in {"exited", "swap"}
                 /\ at'["recv"] = at["recv"] /\ after'["recv"] = "none"
              \/ /\ pc["recv"] = "swap" /\ pc'["recv"] = "take"
                 /\ at'["recv"] = 0 /\ after'["recv"] = "none"
              \/ /\ pc["recv"] = "take" /\ pc'["recv"] = "idle"
                 /\ at'["recv"] = 0 /\ after'["recv"] = "none"
              \/ /\ pc["recv"] = "take" /\ pc'["recv"] = "parse"
                 /\ at'["recv"] \in Handles /\ taken[at'["recv"]] # <<>>
                 /\ after'["recv"] = "none"
              \/ /\ pc["recv"] = "parse" /\ pc'["recv"] = "take"
                 /\ at'["recv"] = 0 /\ after'["recv"] = "none"
              \/ /\ <<pc["recv"], pc'["recv"]>> \in {<<"parse", "find">>, <<"find", "parse">>,
                        <<"find", "recv">>, <<"recv", "drop">>, <<"drop", "parse">>}
                 /\ at'["recv"] = at["recv"] /\ after'["recv"] = "none"
              \/ /\ pc["recv"] = "recv" /\ pc'["recv"] = "del"
                 /\ at'["recv"] = at["recv"] /\ after'["recv"] = "drop"
  <1>0. "recv" \in Threads
    BY DEF Threads
  <1>1. pc["recv"] \notin EndPlaces \cup {"del"} => after["recv"] = "none"
    BY <1>0 DEF Paths
  <1>2. CASE Poll \/ Swap
    <2>1. Goto("recv", "idle", "exited") \/ Goto("recv", "idle", "swap") \/ Goto("recv", "swap", "take")
      BY <1>2 DEF Poll, Swap
    <2> QED
      BY <1>0, <1>1, <2>1, Stays DEF Moved, Loops, EndPlaces
  <1>3. CASE Take
    <2>1. \/ \E h \in Handles : taken[h] # <<>> /\ Enter("recv", "take", "parse", h, "none")
          \/ Goto("recv", "take", "idle")
      BY <1>3 DEF Take
    <2> QED
      BY <1>0, <1>1, <2>1, Stays, EnterIs DEF Moved, Loops, EndPlaces
  <1>4. CASE Parse
    <2>1. Goto("recv", "parse", "find") \/ Goto("recv", "parse", "take")
      BY <1>4 DEF Parse
    <2> QED
      BY <1>0, <1>1, <2>1, Stays DEF Moved, Loops, EndPlaces
  <1>5. CASE Find \/ DropRef
    <2>1. \/ Goto("recv", "find", "recv") \/ Goto("recv", "find", "parse")
          \/ Goto("recv", "drop", "parse")
      BY <1>5 DEF Find, DropRef
    <2> QED
      BY <1>0, <1>1, <2>1, Stays DEF Moved, Loops, EndPlaces
  <1>6. CASE Recv
    <2>1. Goto("recv", "recv", "drop") \/ Enter("recv", "recv", "del", at["recv"], "drop")
      BY <1>6 DEF Recv
    <2> QED
      BY <1>0, <1>1, <2>1, Stays, EnterIs DEF Moved, Loops, EndPlaces
  <1> QED
    BY <1>2, <1>3, <1>4, <1>5, <1>6 DEF HandleRecvBuff

LEMMA OwnerMoves ==
    ASSUME ControlTypes, Paths, Owner, ~Ending("owner"), ~InitMgr
    PROVE  /\ Moved("owner") /\ after["owner"] = "none"
           /\ \/ /\ <<pc["owner"], pc'["owner"]>> \in {<<"up", "join">>, <<"join", "collect">>,
                        <<"collect", "destroy">>, <<"destroy", "unlisten">>, <<"unlisten", "stop">>,
                        <<"stop", "free">>, <<"free", "down">>, <<"destroy", "destroy">>,
                        <<"free", "free">>}
                 /\ at'["owner"] = at["owner"] \/ at'["owner"] = 0
                 /\ after'["owner"] = "none"
              \/ /\ pc["owner"] \in {"destroy", "free"} /\ pc'["owner"] = "del"
                 /\ at'["owner"] \in Handles /\ at'["owner"] \in todo
                 /\ after'["owner"] = pc["owner"]
  <1>0. "owner" \in Threads
    BY DEF Threads
  <1>1. pc["owner"] \notin EndPlaces \cup {"del"} => after["owner"] = "none"
    BY <1>0 DEF Paths
  <1>2. CASE UnInit \/ Joined \/ Collect \/ Unlisten \/ Stop \/ Stopped \/ Down
    <2>1. \E p \in {<<"up", "join">>, <<"join", "collect">>, <<"collect", "destroy">>,
                    <<"destroy", "unlisten">>, <<"unlisten", "stop">>, <<"stop", "free">>,
                    <<"free", "down">>} : Goto("owner", p[1], p[2])
      BY <1>2 DEF UnInit, Joined, Collect, Unlisten, Stop, Stopped, Down, OwnerStep
    <2>2. PICK p \in {<<"up", "join">>, <<"join", "collect">>, <<"collect", "destroy">>,
                    <<"destroy", "unlisten">>, <<"unlisten", "stop">>, <<"stop", "free">>,
                    <<"free", "down">>} : Goto("owner", p[1], p[2])
      BY <2>1
    <2>3. /\ pc["owner"] = p[1] /\ pc'["owner"] = p[2] /\ after'["owner"] = after["owner"]
          /\ at'["owner"] = at["owner"] \/ at'["owner"] = 0
          /\ Moved("owner")
      BY <1>0, <2>2, Stays DEF Moved
    <2> QED
      BY <1>1, <2>2, <2>3 DEF EndPlaces
  <1>3. ASSUME NEW h \in Handles, Destroy(h) PROVE
           /\ Moved("owner") /\ pc["owner"] \in {"destroy", "free"}
           /\ \/ UNCHANGED <<pc, at, after>>
              \/ /\ pc'["owner"] = "del" /\ at'["owner"] = h /\ h \in todo
                 /\ after'["owner"] = pc["owner"]
    BY <1>0, <1>3, EnterIs DEF Destroy, Moved, Loops
  <1> QED
    BY <1>1, <1>2, <1>3 DEF Owner, EndPlaces

(* A handler with a pointer to it has a count.                             *)
LEMMA Held ==
    ASSUME ControlTypes, RefsArePointers, NEW h \in Handles
    PROVE  /\ refs[h] = Pointers(h) /\ refs[h] \in Nat
           /\ h \in link_map \/ Calling(h) \/ (\E t \in Threads : Removing(t, h)) => refs[h] > 0
           /\ refs[h] > 0 => h \in link_map \/ Calling(h) \/ \E t \in Threads : Removing(t, h)
  BY ThreadNames DEF RefsArePointers, Pointers, InMap, InCall, InRemove, ControlTypes, Threads

-----------------------------------------------------------------------------
(* Where the threads are, and what they know. *)

LEMMA PathsStep ==
    ASSUME LinkInv, [Next]_vars
    PROVE  Paths'
  <1>0. ControlTypes /\ Paths /\ Fresh
    BY DEF LinkInv
  <1>1. ASSUME NEW t \in Threads, Ending(t) PROVE Paths'
    BY <1>0, <1>1, EndingMoves, NoZero, ThreadNames DEF Paths, EndPlaces, Moved, Threads
  <1>2. ASSUME Worker, ~Ending("worker") PROVE Paths'
    BY <1>0, <1>2, WorkerMoves, NoZero, ThreadNames DEF Paths, EndPlaces, Moved, Threads
  <1>3. ASSUME HandleRecvBuff, ~Ending("recv") PROVE Paths'
    BY <1>0, <1>3, RecvMoves, NoZero, ThreadNames DEF Paths, EndPlaces, Moved, Threads
  <1>4. ASSUME Owner, ~Ending("owner"), ~InitMgr PROVE Paths'
    BY <1>0, <1>4, OwnerMoves, NoZero, ThreadNames DEF Paths, EndPlaces, Moved, Threads
  <1>5. CASE InitMgr
    BY <1>0, <1>5, NoZero, ThreadNames DEF InitMgr, Paths, EndPlaces, Threads, ControlTypes
  <1>6. CASE UNCHANGED vars
    BY <1>0, <1>6 DEF vars, Paths, EndPlaces
  <1> QED
    BY <1>1, <1>2, <1>3, <1>4, <1>5, <1>6 DEF Next, Threads

(* The functions of the threads keep their types.                          *)
Places == {"none", "idle", "attach", "accepted", "read", "post", "del", "remove", "hook", "release", "exited",
           "swap", "take", "parse", "find", "recv", "drop",
           "up", "join", "collect", "destroy", "unlisten", "stop", "free", "down"}
ThreadTypes ==
    /\ pc \in [Threads -> Places]
    /\ at \in [Threads -> Handles \cup {0}]
    /\ after \in [Threads -> {"none", "idle", "del", "drop", "destroy", "free"}]

LEMMA EnterTypes ==
    ASSUME ControlTypes, NEW t \in Threads, NEW from, NEW to \in Places, NEW h \in Handles \cup {0},
           NEW then \in {"none", "idle", "del", "drop", "destroy", "free"},
           Enter(t, from, to, h, then)
    PROVE  ThreadTypes'
  BY DEF ControlTypes, ThreadTypes, Places, Enter

LEMMA GotoTypes ==
    ASSUME ControlTypes, NEW t \in Threads, NEW from, NEW to \in Places, Goto(t, from, to)
    PROVE  ThreadTypes'
  <1>1. at[t] \in Handles \cup {0} /\ after[t] \in {"none", "idle", "del", "drop", "destroy", "free"}
    BY DEF ControlTypes
  <1> QED
    BY <1>1, EnterTypes DEF Goto

LEMMA ThreadTypesStep ==
    ASSUME ControlTypes, [Next]_vars
    PROVE  ThreadTypes'
  <1>0. "worker" \in Threads /\ "recv" \in Threads /\ "owner" \in Threads
    BY DEF Threads
  <1>1. ASSUME NEW t \in Threads, Ending(t) PROVE ThreadTypes'
    <2>0. after[t] \in Places /\ after[t] \in {"none", "idle", "del", "drop", "destroy", "free"}
          /\ at[t] \in Handles \cup {0}
      BY DEF ControlTypes, Places
    <2>1. CASE Del(t)
      BY <2>0, <2>1, GotoTypes DEF Del, Places
    <2>2. CASE Remove(t)
      BY <2>0, <2>2, GotoTypes, EnterTypes DEF Remove, Return, Places
    <2>3. CASE Hook(t)
      BY <2>3, GotoTypes DEF Hook, Places
    <2>4. CASE Release(t)
      BY <2>0, <2>4, EnterTypes DEF Release, Return
    <2> QED
      BY <1>1, <2>1, <2>2, <2>3, <2>4 DEF Ending
  <1>2. ASSUME NEW h \in Handles, Accept(h) \/ Read(h) \/ Disconnect(h) \/ ReadEnd(h)
        PROVE  ThreadTypes'
    BY <1>0, <1>2, EnterTypes DEF Accept, Read, Disconnect, ReadEnd, Places
  <1>b. CASE Attach \/ LinkCreate \/ Receive
    BY <1>0, <1>b, GotoTypes DEF Attach, LinkCreate, Receive, Places
  <1>3. CASE Post \/ WorkerExits \/ Poll \/ Swap \/ Parse \/ Find \/ DropRef
    BY <1>0, <1>3, GotoTypes DEF Post, WorkerExits, Poll, Swap, Parse, Find, DropRef, Places
  <1>4. CASE Take
    BY <1>0, <1>4, GotoTypes, EnterTypes DEF Take, Places
  <1>5. CASE Recv
    <2>1. at["recv"] \in Handles \cup {0}
      BY <1>0 DEF ControlTypes
    <2> QED
      BY <1>0, <1>5, <2>1, GotoTypes, EnterTypes DEF Recv, Places
  <1>6. CASE InitMgr
    BY <1>6 DEF InitMgr, ControlTypes, ThreadTypes, Places, Threads
  <1>7. CASE UnInit \/ Joined \/ Collect \/ Unlisten \/ Stop \/ Stopped \/ Down
    BY <1>0, <1>7, GotoTypes DEF UnInit, Joined, Collect, Unlisten, Stop, Stopped, Down, OwnerStep, Places
  <1>8. ASSUME NEW h \in Handles, Destroy(h) PROVE ThreadTypes'
    <2>1. CASE UNCHANGED <<pc, at, after>>
      BY <2>1 DEF ControlTypes, ThreadTypes, Places
    <2>2. CASE Enter("owner", pc["owner"], "del", h, pc["owner"])
      BY <1>0, <1>8, <2>2, EnterTypes DEF Destroy, Places
    <2> QED
      BY <1>8, <2>1, <2>2 DEF Destroy
  <1>9. CASE UNCHANGED vars
    BY <1>9 DEF vars, ControlTypes, ThreadTypes, Places
  <1> QED
    BY <1>0, <1>1, <1>2, <1>b, <1>3, <1>4, <1>5, <1>6, <1>7, <1>8, <1>9
       DEF Next, Worker, HandleRecvBuff, Owner

(* The links, the map, the counts and the lists keep theirs.               *)
LEMMA ControlTypesStep ==
    ASSUME LinkInv, [Next]_vars
    PROVE  ControlTypes'
  <1>0. ControlTypes /\ Paths /\ RefsArePointers /\ ThreadTypes'
    BY ThreadTypesStep DEF LinkInv
  <1>a. "worker" \in Threads /\ "recv" \in Threads /\ "owner" \in Threads
    BY DEF Threads
  <1>1. /\ \A t \in Threads : at[t] \in Handles \cup {0}
        /\ \A t \in Threads : pc[t] \in EndPlaces \cup {"del", "attach", "accepted", "parse", "find", "recv", "drop"}
               => at[t] \in Handles
    BY <1>0 DEF Paths, ControlTypes
  <1>2. lib' \in [Handles -> {"unused", "registered", "open", "gone"}] /\ listening' \in BOOLEAN
    <2>1. CASE UNCHANGED libVars
      BY <1>0, <2>1 DEF ControlTypes, libVars
    <2>2. ASSUME NEW t \in Threads, Del(t) PROVE <1>2!:
      BY <1>0, <2>2 DEF ControlTypes, Del
    <2>3. ASSUME NEW h \in Handles, Accept(h) PROVE <1>2!:
      BY <1>0, <2>3 DEF ControlTypes, Accept
    <2>5. CASE Attach
      BY <1>0, <2>5 DEF ControlTypes, Attach
    <2>4. CASE InitMgr \/ Unlisten
      BY <1>0, <2>4 DEF ControlTypes, InitMgr, Unlisten
    <2> QED
      BY <1>a, <2>1, <2>2, <2>3, <2>4, <2>5 DEF Next, Worker, HandleRecvBuff, Owner, Ending, vars,
         Remove, Hook, Release, LinkCreate, Read, Receive, Disconnect, ReadEnd, Post, WorkerExits, Poll, Swap, Take,
         Parse, Find, Recv, DropRef, UnInit, Joined, Collect, Stop, Stopped, Down, OwnerStep, Destroy
  <1>3. link_map' \subseteq Handles /\ refs' \in [Handles -> Nat]
    <2>1. CASE UNCHANGED <<link_map, refs>>
      BY <1>0, <2>1 DEF ControlTypes
    <2>2. ASSUME NEW t \in Threads, Remove(t) PROVE <1>3!:
      BY <1>0, <2>2 DEF ControlTypes, Remove
    <2>3. ASSUME NEW t \in Threads, Release(t) PROVE <1>3!:
      <3>1. at[t] \in Handles /\ Removing(t, at[t])
        BY <1>1, <2>3, Returns, <1>0 DEF Release, EndPlaces, Removing
      <3> QED
        BY <1>0, <2>3, <3>1, Held DEF ControlTypes, Release
    <2>4. CASE LinkCreate
      <3>1. at["worker"] \in Handles
        BY <1>a, <1>0, <1>1, <2>4, Stays DEF LinkCreate
      <3> QED
        BY <1>0, <2>4, <3>1 DEF ControlTypes, LinkCreate
    <2>5. CASE Find
      BY <1>0, <2>5 DEF ControlTypes, Find
    <2>6. CASE DropRef
      <3>1. at["recv"] \in Handles /\ Calling(at["recv"])
        BY <1>a, <1>1, <2>6, Stays, <1>0 DEF DropRef, Calling
      <3> QED
        BY <1>0, <2>6, <3>1, Held DEF ControlTypes, DropRef
    <2> QED
      BY <1>a, <2>1, <2>2, <2>3, <2>4, <2>5, <2>6 DEF Next, Worker, HandleRecvBuff, Owner, Ending, vars,
         Del, Hook, Accept, Attach, Read, Receive, Disconnect, ReadEnd, Post, WorkerExits, Poll, Swap, Take,
         Parse, Recv, InitMgr, Unlisten, UnInit, Joined, Collect, Stop, Stopped, Down, OwnerStep, Destroy
  <1>4. todo' \subseteq Handles /\ hooked' \subseteq Handles /\ late' \in [Handles -> Nat]
    <2>1. CASE UNCHANGED <<todo, hooked, late>>
      BY <1>0, <2>1 DEF ControlTypes
    <2>2. ASSUME NEW t \in Threads, Hook(t) PROVE <1>4!:
      <3>1. at[t] \in Handles
        BY <1>1, <2>2, Stays, <1>0 DEF Hook, EndPlaces
      <3> QED
        BY <1>0, <2>2, <3>1 DEF ControlTypes, Hook
    <2>3. CASE Recv
      BY <1>0, <2>3 DEF ControlTypes, Recv
    <2>4. CASE Collect \/ Stopped
      BY <1>0, <2>4 DEF ControlTypes, Collect, Stopped, OwnerStep, histVars
    <2>5. ASSUME NEW h \in Handles, Destroy(h) PROVE <1>4!:
      BY <1>0, <2>5 DEF ControlTypes, Destroy, histVars
    <2> QED
      BY <1>a, <2>1, <2>2, <2>3, <2>4, <2>5 DEF Next, Worker, HandleRecvBuff, Owner, Ending, vars, histVars,
         Del, Remove, Release, Accept, Attach, LinkCreate, Read, Receive, Disconnect, ReadEnd, Post, WorkerExits, Poll, Swap, Take,
         Parse, Find, DropRef, InitMgr, Unlisten, UnInit, Joined, Stop, Down, OwnerStep
  <1> QED
    BY <1>0, <1>2, <1>3, <1>4 DEF ControlTypes, ThreadTypes, Places

-----------------------------------------------------------------------------
(* The counts. *)

(* Ending a link, a thread goes on with its call to a handler, if any.     *)
LEMMA EndingCalls ==
    ASSUME ControlTypes, Paths, NEW t \in Threads, Ending(t), NEW h \in Handles
    PROVE  /\ Calling(h)' <=> Calling(h)
           /\ \A u \in Threads \ {t} : Removing(u, h)' <=> Removing(u, h)
           /\ pc[t] = "del" => ~Removing(t, h) /\ ~Removing(t, h)'
           /\ pc[t] = "remove" => ~Removing(t, h)
           /\ pc[t] = "remove" /\ at[t] \in link_map => (Removing(t, h)' <=> at[t] = h)
           /\ pc[t] = "remove" /\ at[t] \notin link_map => ~Removing(t, h)'
           /\ pc[t] = "hook" => (Removing(t, h)' <=> Removing(t, h))
           /\ pc[t] = "release" => (Removing(t, h) <=> at[t] = h) /\ ~Removing(t, h)'
  <1>0. "recv" \in Threads /\ h # 0 /\ after["recv"] \in {"none", "drop"} /\ (pc["recv"] = "del" => after["recv"] = "drop")
        /\ (pc["recv"] \in EndPlaces => after["recv"] # "none")
    BY NoZero DEF Paths, Threads
  <1>1. Calling(h)' <=> Calling(h)
    <2>1. CASE t = "recv"
      BY <1>0, <2>1, EndingMoves DEF Calling, EndPlaces
    <2>2. CASE t # "recv"
      BY <1>0, <2>2, EndingMoves DEF Calling, Moved
    <2> QED
      BY <2>1, <2>2
  <1>2. \A u \in Threads \ {t} : Removing(u, h)' <=> Removing(u, h)
    BY EndingMoves DEF Moved, Removing
  <1>3. after[t] \notin {"hook", "release"}
    BY DEF ControlTypes
  <1> QED
    BY <1>1, <1>2, <1>3, EndingMoves DEF Removing

(* When no step of a call or a removal is made, the pointers stay.         *)
LEMMA SamePointers ==
    ASSUME NEW h \in Handles, h \in link_map' <=> h \in link_map, Calling(h)' <=> Calling(h),
           \A t \in Threads : Removing(t, h)' <=> Removing(t, h)
    PROVE  Pointers(h)' = Pointers(h)
  BY DEF Pointers, InMap, InCall, InRemove, Threads

LEMMA RefsStep ==
    ASSUME LinkInv, [Next]_vars
    PROVE  RefsArePointers'
  <1> SUFFICES ASSUME NEW h \in Handles PROVE refs'[h] = Pointers(h)'
    BY DEF RefsArePointers
  <1>0. /\ ControlTypes /\ Paths /\ Fresh /\ Endings /\ RefsArePointers
        /\ refs[h] = Pointers(h) /\ refs[h] \in Nat
    BY Held DEF LinkInv
  <1>a. "worker" \in Threads /\ "recv" \in Threads /\ "owner" \in Threads
    BY DEF Threads
  <1>1. ASSUME NEW t \in Threads, Ending(t) PROVE refs'[h] = Pointers(h)'
    <2>0. /\ Calling(h)' <=> Calling(h)
          /\ \A u \in Threads \ {t} : Removing(u, h)' <=> Removing(u, h)
      BY <1>0, <1>1, EndingCalls
    <2>1. CASE Del(t)
      BY <1>0, <2>0, <1>1, <2>1, EndingCalls, SamePointers, Stays DEF Del
    <2>2. CASE Hook(t)
      BY <1>0, <2>0, <1>1, <2>2, EndingCalls, SamePointers, Stays DEF Hook
    <2>3. CASE Remove(t)
      <3>0. pc[t] = "remove"
        BY <1>0, <2>3, Stays, Returns DEF Remove
      <3>1. CASE at[t] = h /\ h \in link_map
        <4>1. ~Removing(t, h) /\ Removing(t, h)' /\ h \notin link_map' /\ refs' = refs
          BY <1>0, <1>1, <3>0, <3>1, <2>3, EndingCalls DEF Remove
        <4> QED
          BY <1>0, <2>0, <3>1, <4>1, ThreadNames DEF Pointers, InMap, InCall, InRemove, Threads
      <3>2. CASE ~(at[t] = h /\ h \in link_map)
        <4>1. /\ ~Removing(t, h) /\ ~Removing(t, h)' /\ refs' = refs
              /\ h \in link_map' <=> h \in link_map
          BY <1>0, <1>1, <3>0, <3>2, <2>3, EndingCalls DEF Remove
        <4> QED
          BY <1>0, <2>0, <4>1, SamePointers
      <3> QED
        BY <3>1, <3>2
    <2>4. CASE Release(t)
      <3>0. pc[t] = "release" /\ refs' = [refs EXCEPT ![at[t]] = @ - 1] /\ link_map' = link_map
        BY <1>0, <2>4, Returns DEF Release
      <3>1. (Removing(t, h) <=> at[t] = h) /\ ~Removing(t, h)'
        BY <1>0, <1>1, <3>0, EndingCalls
      <3>2. CASE at[t] = h
        <4>1. refs'[h] = refs[h] - 1
          BY <1>0, <3>0, <3>2 DEF ControlTypes
        <4> QED
          BY <1>0, <2>0, <3>0, <3>1, <3>2, <4>1, ThreadNames DEF Pointers, InMap, InCall, InRemove, Threads
      <3>3. CASE at[t] # h
        <4>1. refs'[h] = refs[h]
          BY <1>0, <3>0, <3>3 DEF ControlTypes
        <4> QED
          BY <1>0, <2>0, <3>0, <3>1, <3>3, <4>1, SamePointers
      <3> QED
        BY <3>2, <3>3
    <2> QED
      BY <1>1, <2>1, <2>2, <2>3, <2>4 DEF Ending
  <1>2. ASSUME Worker, ~Ending("worker") PROVE refs'[h] = Pointers(h)'
    <2>1. /\ Calling(h)' <=> Calling(h)
          /\ \A t \in Threads : Removing(t, h)' <=> Removing(t, h)
      BY <1>0, <1>2, <1>a, WorkerMoves DEF Calling, Removing, Moved
    <2>2. CASE LinkCreate
      <3> DEFINE g == at["worker"]
      <3>0. pc["worker"] = "accepted" /\ g \in Handles
        BY <1>0, <1>a, <2>2, Stays DEF LinkCreate, Paths
      <3>1. /\ g \notin link_map /\ ~Calling(g) /\ \A t \in Threads : ~Removing(t, g)
            /\ link_map' = link_map \cup {g} /\ refs' = [refs EXCEPT ![g] = 1]
        BY <1>0, <1>a, <2>2, <3>0, ThreadNames DEF LinkCreate, Fresh, Unknown, Alone, Calling, Removing
      <3> HIDE DEF g
      <3>2. CASE g = h
        BY <1>0, <1>a, <2>1, <3>1, <3>2 DEF Pointers, InMap, InCall, InRemove, ControlTypes
      <3>3. CASE g # h
        BY <1>0, <2>1, <3>1, <3>3, SamePointers
      <3> QED
        BY <3>2, <3>3
    <2>3. CASE UNCHANGED <<link_map, refs>>
      BY <1>0, <2>1, <2>3, SamePointers
    <2> QED
      BY <1>2, <2>2, <2>3 DEF Worker, Accept, Attach, Read, Receive, Disconnect, ReadEnd, Post, WorkerExits
  <1>3. ASSUME HandleRecvBuff, ~Ending("recv") PROVE refs'[h] = Pointers(h)'
    <2>0. link_map' = link_map
      BY <1>3 DEF HandleRecvBuff, Poll, Swap, Take, Parse, Find, Recv, DropRef
    <2>1. \A t \in Threads : Removing(t, h)' <=> Removing(t, h)
      BY <1>0, <1>3, <1>a, RecvMoves DEF Removing, Moved
    <2>2. CASE Find /\ at["recv"] = h /\ h \in link_map
      <3>1. ~Calling(h) /\ Calling(h)' /\ refs'[h] = refs[h] + 1
        BY <1>0, <1>a, <2>2, Stays, RecvMoves, <1>3 DEF Find, Calling, ControlTypes, Loops
      <3> QED
        BY <1>0, <2>0, <2>1, <3>1, <1>a DEF Pointers, InMap, InCall, InRemove
    <2>3. CASE DropRef /\ at["recv"] = h
      <3>1. Calling(h) /\ ~Calling(h)' /\ refs'[h] = refs[h] - 1
        BY <1>0, <1>a, <2>3, Stays, RecvMoves, <1>3 DEF DropRef, Calling, ControlTypes
      <3> QED
        BY <1>0, <2>0, <2>1, <3>1, <1>a DEF Pointers, InMap, InCall, InRemove
    <2>4. CASE (Find \/ DropRef) /\ ~(Find /\ at["recv"] = h /\ h \in link_map) /\ ~(DropRef /\ at["recv"] = h)
      <3>1. Calling(h)' <=> Calling(h)
        BY <1>0, <1>a, <2>4, Stays, RecvMoves, <1>3, NoZero DEF Find, DropRef, Calling, Loops
      <3>2. refs'[h] = refs[h]
        BY <1>0, <2>4 DEF Find, DropRef, ControlTypes
      <3> QED
        BY <1>0, <2>0, <2>1, <3>1, <3>2, SamePointers
    <2>5. CASE Poll \/ Swap \/ Take \/ Parse \/ Recv
      <3>1. Calling(h)' <=> Calling(h)
        <4>1. pc["recv"] \in {"idle", "swap", "take", "parse", "recv"}
          BY <2>5 DEF Poll, Swap, Take, Parse, Recv, Goto, Enter
        <4> QED
          BY <1>0, <1>3, <4>1, RecvMoves, NoZero DEF Calling
      <3>2. refs'[h] = refs[h]
        BY <2>5 DEF Poll, Swap, Take, Parse, Recv
      <3> QED
        BY <1>0, <2>0, <2>1, <3>1, <3>2, SamePointers
    <2> QED
      BY <1>3, <2>2, <2>3, <2>4, <2>5 DEF HandleRecvBuff
  <1>4. ASSUME Owner, ~Ending("owner"), ~InitMgr PROVE refs'[h] = Pointers(h)'
    <2>1. /\ Calling(h)' <=> Calling(h)
          /\ \A t \in Threads : Removing(t, h)' <=> Removing(t, h)
      BY <1>0, <1>4, <1>a, OwnerMoves, NoZero DEF Calling, Removing, Moved
    <2>2. UNCHANGED <<link_map, refs>>
      BY <1>4 DEF Owner, UnInit, Joined, Collect, Unlisten, Stop, Stopped, Down, OwnerStep, Destroy
    <2> QED
      BY <1>0, <2>1, <2>2, SamePointers
  <1>5. CASE InitMgr
    <2>1. /\ Calling(h)' <=> Calling(h)
          /\ \A t \in Threads : Removing(t, h)' <=> Removing(t, h)
      BY <1>0, <1>5, <1>a DEF InitMgr, Calling, Removing, ControlTypes, Threads
    <2> QED
      BY <1>0, <1>5, <2>1, SamePointers DEF InitMgr
  <1>6. CASE UNCHANGED vars
    BY <1>0, <1>6, SamePointers DEF vars, Calling, Removing
  <1> QED
    BY <1>1, <1>2, <1>3, <1>4, <1>5, <1>6, <1>a DEF Next

-----------------------------------------------------------------------------
(* What becomes of a link, of an entry of m_link_map, and of a thread.     *)

LEMMA LibMoves ==
    ASSUME LinkInv, [Next]_vars, NEW h \in Handles
    PROVE  \/ lib'[h] = lib[h]
           \/ lib[h] = "unused" /\ lib'[h] = "registered" /\ Accept(h)
           \/ /\ lib[h] = "registered" /\ lib'[h] = "open" /\ Attach
              /\ at["worker"] = h /\ pc["worker"] = "attach" /\ pc'["worker"] = "accepted"
              /\ at'["worker"] = h
           \/ lib'[h] = "gone" /\ \E t \in Threads : at[t] = h /\ Del(t)
  <1>0. lib \in [Handles -> {"unused", "registered", "open", "gone"}] /\ ControlTypes /\ Announcing
    BY DEF LinkInv, ControlTypes
  <1>1. ASSUME NEW t \in Threads, Del(t) PROVE lib'[h] = lib[h] \/ (lib'[h] = "gone" /\ at[t] = h)
    BY <1>0, <1>1 DEF Del
  <1>2. ASSUME NEW g \in Handles, Accept(g)
        PROVE  lib'[h] = lib[h] \/ (g = h /\ lib[h] = "unused" /\ lib'[h] = "registered")
    BY <1>0, <1>2 DEF Accept
  <1>3. ASSUME UNCHANGED lib PROVE lib'[h] = lib[h]
    BY <1>3
  <1>4. CASE Attach
    <2>1. CASE Goto("worker", "attach", "accepted") /\ lib' = [lib EXCEPT ![at["worker"]] = "open"]
      <3>1. /\ pc["worker"] = "attach" /\ pc'["worker"] = "accepted"
            /\ at'["worker"] = at["worker"]
        BY <1>0, <2>1, Stays DEF Threads, Loops
      <3>2. CASE at["worker"] = h
        BY <1>0, <1>4, <2>1, <3>1, <3>2 DEF Announcing
      <3>3. CASE at["worker"] # h
        BY <1>0, <2>1, <3>3
      <3> QED
        BY <3>2, <3>3
    <2> QED
      BY <1>4, <2>1 DEF Attach
  <1> QED
    BY <1>1, <1>2, <1>3, <1>4 DEF Next, Worker, HandleRecvBuff, Owner, Ending, vars, libVars, Threads,
       Remove, Hook, Release, LinkCreate, Read, Receive, Disconnect, ReadEnd, Post, WorkerExits, Poll,
       Swap, Take, Parse, Find, Recv, DropRef, InitMgr, UnInit, Joined, Collect, Unlisten, Stop, Stopped,
       Down, OwnerStep, Destroy

LEMMA MapMoves ==
    ASSUME LinkInv, [Next]_vars, NEW h \in Handles
    PROVE  \/ h \in link_map' <=> h \in link_map
           \/ /\ h \notin link_map /\ LinkCreate
              /\ at["worker"] = h /\ pc["worker"] = "accepted" /\ at'["worker"] = 0
           \/ h \notin link_map' /\ \E t \in Threads : at[t] = h /\ Remove(t)
  <1>1. ASSUME NEW t \in Threads, Remove(t)
        PROVE  (h \in link_map' <=> h \in link_map) \/ (h \notin link_map' /\ at[t] = h)
    BY <1>1 DEF Remove
  <1>2. ASSUME LinkCreate
        PROVE  \/ h \in link_map' <=> h \in link_map
               \/ /\ at["worker"] = h /\ pc["worker"] = "accepted" /\ at'["worker"] = 0
                  /\ h \notin link_map
    <2>1. pc["worker"] = "accepted" /\ at'["worker"] = 0
      BY <1>2, Stays DEF LinkCreate, LinkInv, Threads, Loops
    <2> QED
      BY <1>2, <2>1 DEF LinkCreate
  <1>3. ASSUME UNCHANGED link_map PROVE h \in link_map' <=> h \in link_map
    BY <1>3
  <1> QED
    BY <1>1, <1>2, <1>3 DEF Next, Worker, HandleRecvBuff, Owner, Ending, vars, Threads,
       Del, Hook, Release, Accept, Attach, Read, Receive, Disconnect, ReadEnd, Post, WorkerExits, Poll, Swap, Take,
       Parse, Find, Recv, DropRef, InitMgr, UnInit, Joined, Collect, Unlisten, Stop, Stopped, Down,
       OwnerStep, Destroy

(* What the actions that end a link say of the thread that takes them.     *)
LEMMA EndingFrom ==
    ASSUME ControlTypes, Paths, NEW t \in Threads, Ending(t)
    PROVE  /\ Del(t) <=> pc[t] = "del"
           /\ Remove(t) <=> pc[t] = "remove"
           /\ at[t] \in Handles
           /\ Del(t) => lib' = [lib EXCEPT ![at[t]] = "gone"]
           /\ ~Del(t) => lib' = lib
           /\ Remove(t) => link_map' = link_map \ {at[t]}
           /\ ~Remove(t) => link_map' = link_map
  <1>1. /\ Del(t) => pc[t] = "del"
        /\ Remove(t) => pc[t] = "remove"
        /\ Hook(t) => pc[t] = "hook"
        /\ Release(t) => pc[t] = "release"
    BY DEF Del, Remove, Hook, Release, Goto, Return, Enter
  <1>2. at[t] \in Handles
    BY <1>1 DEF Ending, Paths, EndPlaces
  <1> QED
    BY <1>1, <1>2 DEF Ending, Del, Remove, Hook, Release, libVars

(* How a thread comes to know of a link.                                   *)
LEMMA AtMoves ==
    ASSUME LinkInv, [Next]_vars, NEW t \in Threads
    PROVE  \/ at'[t] = at[t] \/ at'[t] = 0
           \/ t = "worker" /\ pc["worker"] = "idle" /\ pc'["worker"] = "attach" /\ Accept(at'[t])
           \/ t = "worker" /\ pc["worker"] = "idle" /\ lib[at'[t]] = "open"
           \/ t = "recv" /\ taken[at'[t]] # <<>>
           \/ t = "owner" /\ pc'["owner"] = "del" /\ at'[t] \in todo
  <1>0. ControlTypes /\ Paths
    BY DEF LinkInv
  <1>1. ASSUME NEW u \in Threads, Ending(u) PROVE at'[t] = at[t] \/ at'[t] = 0
    BY <1>0, <1>1, EndingMoves DEF Moved
  <1>2. ASSUME Worker, ~Ending("worker")
        PROVE  \/ at'[t] = at[t] \/ at'[t] = 0
               \/ t = "worker" /\ pc["worker"] = "idle" /\ pc'["worker"] = "attach" /\ Accept(at'[t])
               \/ t = "worker" /\ pc["worker"] = "idle" /\ lib[at'[t]] = "open"
    BY <1>0, <1>2, WorkerMoves DEF Moved
  <1>3. ASSUME HandleRecvBuff, ~Ending("recv")
        PROVE  at'[t] = at[t] \/ at'[t] = 0 \/ (t = "recv" /\ taken[at'[t]] # <<>>)
    BY <1>0, <1>3, RecvMoves DEF Moved
  <1>4. ASSUME Owner, ~Ending("owner"), ~InitMgr
        PROVE  \/ at'[t] = at[t] \/ at'[t] = 0
               \/ t = "owner" /\ pc'["owner"] = "del" /\ at'[t] \in todo
    BY <1>0, <1>4, OwnerMoves DEF Moved
  <1>5. InitMgr \/ UNCHANGED vars => at' = at
    BY DEF InitMgr, vars
  <1> QED
    BY <1>1, <1>2, <1>3, <1>4, <1>5 DEF Next, Threads

(* The worker's own steps while it accepts a link; no other thread takes   *)
(* them, and when it has ended it stays so.                                *)
LEMMA WorkerStays ==
    ASSUME LinkInv, [Next]_vars
    PROVE  \/ /\ pc'["worker"] = pc["worker"] /\ at'["worker"] = at["worker"]
              /\ pc["worker"] = "accepted" => ~LinkCreate
           \/ /\ Worker /\ pc["worker"] # "exited"
              /\ pc'["worker"] # "accepted" \/ (pc["worker"] = "attach" /\ Attach)
              /\ pc'["worker"] # "attach" \/ (pc["worker"] = "idle" /\ Accept(at'["worker"]))
              /\ pc["worker"] \in {"attach", "accepted"}
                     => at'["worker"] = 0 \/ (at'["worker"] = at["worker"] /\ pc'["worker"] = "accepted")
  <1>0. ControlTypes /\ Paths /\ "worker" \in Threads /\ "recv" \in Threads /\ "owner" \in Threads
    BY DEF LinkInv, Threads
  <1>1. CASE Ending("worker")
    BY <1>0, <1>1, EndingMoves DEF Worker, Paths
  <1>2. CASE Worker /\ ~Ending("worker")
    <2>1. pc["worker"] # "attach" => ~Attach
      BY DEF Attach, Goto, Enter
    <2>2. pc'["worker"] = "accepted" => Attach
      <3>1. pc'["worker"] = "accepted" => pc["worker"] = "attach"
        BY <1>0, <1>2, WorkerMoves
      <3>2. pc["worker"] = "attach" /\ Worker => Attach
        BY <1>2 DEF Worker, Accept, Read, Disconnect, ReadEnd, LinkCreate, Receive, Post, WorkerExits,
           Goto, Enter
      <3> QED
        BY <1>2, <3>1, <3>2
    <2> QED
      BY <1>0, <1>2, <2>2, WorkerMoves
  <1>3. ASSUME pc'["worker"] = pc["worker"], at'["worker"] = at["worker"], pc["worker"] = "accepted"
        PROVE  ~LinkCreate
    <2>1. LinkCreate => pc'["worker"] = "idle"
      BY <1>0, Stays DEF LinkCreate
    <2> QED
      BY <1>3, <2>1
  <1>4. CASE Ending("recv") \/ Ending("owner")
    BY <1>0, <1>3, <1>4, EndingMoves DEF Moved
  <1>5. CASE HandleRecvBuff /\ ~Ending("recv")
    BY <1>0, <1>3, <1>5, RecvMoves DEF Moved
  <1>6. CASE Owner /\ ~Ending("owner") /\ ~InitMgr
    BY <1>0, <1>3, <1>6, OwnerMoves DEF Moved
  <1>7. CASE InitMgr
    BY <1>0, <1>3, <1>7 DEF InitMgr, ControlTypes
  <1>8. CASE UNCHANGED vars
    BY <1>3, <1>8 DEF vars
  <1> QED
    BY <1>1, <1>2, <1>4, <1>5, <1>6, <1>7, <1>8 DEF Next

(* ACCEPTED is unsaid of a link only if it was before.                     *)
LEMMA UnknownStays ==
    ASSUME LinkInv, [Next]_vars, NEW h \in Handles, Unknown(h)'
    PROVE  Unknown(h)
  <1>0. h # 0 /\ Announcing
    BY NoZero DEF LinkInv
  <1>1. CASE lib'[h] \in {"unused", "registered"}
    BY <1>1, LibMoves DEF Unknown
  <1>2. CASE at'["worker"] = h /\ pc'["worker"] = "accepted"
    BY <1>0, <1>2, WorkerStays DEF Unknown, Announcing
  <1> QED
    BY <1>1, <1>2 DEF Unknown

LEMMA FreshStep ==
    ASSUME LinkInv, [Next]_vars
    PROVE  Fresh'
  <1>0. ControlTypes /\ Paths /\ Fresh /\ Announcing /\ Endings
    BY DEF LinkInv
  <1>a. "worker" \in Threads /\ "recv" \in Threads /\ "owner" \in Threads
    BY DEF Threads
  <1>1. DOMAIN old_map' = Handles /\ DOMAIN taken' = Handles
    BY <1>0 DEF Fresh, Next, Worker, HandleRecvBuff, Owner, Ending, vars, bufVars,
       Del, Remove, Hook, Release, Accept, Attach, LinkCreate, Read, Receive, Disconnect, ReadEnd, Post,
       WorkerExits, Poll, Swap, Take, Parse, Find, Recv, DropRef, InitMgr, UnInit, Joined, Collect,
       Unlisten, Stop, Stopped, Down, OwnerStep, Destroy, Empty
  <1>2. SUFFICES ASSUME NEW h \in Handles, Unknown(h)' PROVE Alone(h)'
    BY <1>1 DEF Fresh
  <1>3. Unknown(h) /\ Alone(h) /\ h # 0
    BY <1>0, <1>2, UnknownStays, NoZero DEF Fresh
  <1>4. at'["recv"] # h
    BY <1>3, <1>a, AtMoves DEF Alone
  <1>5. at'["worker"] = h => pc'["worker"] \in {"attach", "accepted"} /\ lib'[h] # "unused"
    <2> SUFFICES ASSUME at'["worker"] = h
                 PROVE  pc'["worker"] \in {"attach", "accepted"} /\ lib'[h] # "unused"
      OBVIOUS
    <2>1. CASE at["worker"] = h
      BY <1>3, <2>1, WorkerStays, LibMoves DEF Alone
    <2>2. CASE at["worker"] # h
      <3>1. pc["worker"] = "idle" /\ (lib[h] = "open" \/ (pc'["worker"] = "attach" /\ Accept(h)))
        BY <1>3, <1>a, <2>2, AtMoves
      <3>2. lib[h] # "open"
        BY <1>3, <3>1 DEF Unknown
      <3>3. Accept(h) => lib'[h] = "registered"
        BY <1>0 DEF Accept, ControlTypes
      <3> QED
        BY <3>1, <3>2, <3>3
    <2> QED
      BY <2>1, <2>2
  <1>6. h \notin link_map'
    <2>1. ASSUME at["worker"] = h, pc["worker"] = "accepted", at'["worker"] = 0, LinkCreate PROVE FALSE
      <3>1. lib'[h] = "open"
        BY <1>0, <2>1 DEF LinkCreate, libVars, Announcing
      <3> QED
        BY <1>2, <1>3, <2>1, <3>1 DEF Unknown
    <2> QED
      BY <1>3, <2>1, MapMoves DEF Alone
  <1>7. h \notin hooked'
    <2>1. CASE UNCHANGED hooked
      BY <1>3, <2>1 DEF Alone
    <2>2. ASSUME NEW t \in Threads, Hook(t) PROVE <1>7!:
      <3>1. pc[t] = "hook" /\ hooked' = hooked \cup {at[t]}
        BY <2>2 DEF Hook, Goto, Enter
      <3>2. at[t] # h
        BY <1>3, <3>1, ThreadNames DEF Alone
      <3> QED
        BY <1>3, <3>1, <3>2 DEF Alone
    <2> QED
      BY <1>a, <2>1, <2>2 DEF Next, Worker, HandleRecvBuff, Owner, Ending, vars, histVars,
         Del, Remove, Release, Accept, Attach, LinkCreate, Read, Receive, Disconnect, ReadEnd, Post,
         WorkerExits, Poll, Swap, Take, Parse, Find, Recv, DropRef, InitMgr, UnInit, Joined, Collect,
         Unlisten, Stop, Stopped, Down, OwnerStep, Destroy
  <1>b. ASSUME pc["worker"] = "exited", lib[h] = "registered"
        PROVE  pc'["worker"] = "exited" /\ lib'[h] = "registered"
    BY <1>2, <1>b, WorkerStays, LibMoves DEF Unknown
  <1>8. h \in todo' => pc'["worker"] = "exited" /\ lib'[h] = "registered"
    <2>1. CASE h \in todo
      BY <1>3, <1>b, <2>1 DEF Alone
    <2>2. CASE h \notin todo
      <3>1. CASE Collect
        BY <1>3, <3>1 DEF Collect, Alone
      <3>2. CASE Stopped
        <4>1. pc["worker"] = "exited" /\ (h \in todo' => lib[h] \in Registered)
          BY <3>2 DEF Stopped
        <4> QED
          BY <1>3, <1>b, <4>1 DEF Registered, Unknown
      <3>3. CASE todo' \subseteq todo
        BY <2>2, <3>3
      <3> QED
        BY <3>1, <3>2, <3>3 DEF Next, Worker, HandleRecvBuff, Owner, Ending, vars,
           Del, Remove, Hook, Release, Accept, Attach, LinkCreate, Read, Receive, Disconnect, ReadEnd, Post,
           WorkerExits, Poll, Swap, Take, Parse, Find, Recv, DropRef, InitMgr, UnInit, Joined,
           Unlisten, Stop, Down, OwnerStep, Destroy
    <2> QED
      BY <2>1, <2>2
  <1>9. at'["owner"] = h =>
            pc'["worker"] = "exited" /\ lib'[h] = "registered" /\ pc'["owner"] = "del"
    <2> SUFFICES ASSUME at'["owner"] = h
                 PROVE  pc'["worker"] = "exited" /\ lib'[h] = "registered" /\ pc'["owner"] = "del"
      OBVIOUS
    <2>1. CASE at["owner"] # h
      BY <1>3, <1>a, <1>b, <2>1, AtMoves DEF Alone
    <2>2. CASE at["owner"] = h
      <3>1. pc["worker"] = "exited" /\ lib[h] = "registered" /\ pc["owner"] = "del"
        BY <1>3, <2>2 DEF Alone
      <3>2. ~Ending("owner")
        <4>1. Ending("owner") => lib'[h] = "gone"
          BY <1>0, <1>a, <2>2, <3>1, EndingFrom DEF ControlTypes
        <4> QED
          BY <1>b, <3>1, <4>1
      <3>3. ~Owner
        BY <1>0, <1>a, <3>1, <3>2, OwnerMoves DEF InitMgr
      <3>4. pc'["owner"] = "del"
        <4>1. CASE Worker
          BY <1>0, <1>a, <3>1, <4>1, WorkerMoves, EndingMoves DEF Moved
        <4>2. CASE HandleRecvBuff
          BY <1>0, <1>a, <3>1, <4>2, RecvMoves, EndingMoves DEF Moved
        <4>3. CASE UNCHANGED vars
          BY <3>1, <4>3 DEF vars
        <4> QED
          BY <3>3, <4>1, <4>2, <4>3 DEF Next
      <3> QED
        BY <1>b, <3>1, <3>4
    <2> QED
      BY <2>1, <2>2
  <1>10. old_map'[h] = <<>> /\ taken'[h] = <<>>
    <2>0. old_map[h] = <<>> /\ taken[h] = <<>>
      BY <1>3 DEF Alone
    <2>1. CASE UNCHANGED <<old_map, taken>>
      BY <2>0, <2>1
    <2>2. CASE Receive
      <3>1. pc["worker"] = "read"
        BY <2>2 DEF Receive, Goto, Enter
      <3>2. at["worker"] # h
        BY <1>3, <3>1 DEF Alone
      <3> QED
        BY <1>0, <2>0, <2>2, <3>2 DEF Receive, Fresh
    <2>3. CASE Swap
      BY <1>0, <2>0, <2>3 DEF Swap, Empty
    <2>4. CASE Take
      BY <1>0, <2>0, <2>4 DEF Take, Fresh
    <2> QED
      BY <2>1, <2>2, <2>3, <2>4 DEF Next, Worker, HandleRecvBuff, Owner, Ending, vars, bufVars,
         Del, Remove, Hook, Release, Accept, Attach, LinkCreate, Read, Disconnect, ReadEnd, Post,
         WorkerExits, Poll, Parse, Find, Recv, DropRef, InitMgr, UnInit, Joined, Collect, Unlisten, Stop,
         Stopped, Down, OwnerStep, Destroy
  <1> QED
    BY <1>4, <1>5, <1>6, <1>7, <1>8, <1>9, <1>10 DEF Alone

LEMMA AnnouncingStep ==
    ASSUME LinkInv, [Next]_vars
    PROVE  Announcing'
  <1>0. ControlTypes /\ Paths /\ Fresh /\ Announcing
    BY DEF LinkInv
  <1>1. ASSUME pc["worker"] \in {"attach", "accepted"}
        PROVE  at["worker"] \in Handles /\ Unknown(at["worker"]) /\ Alone(at["worker"])
    BY <1>0, <1>1 DEF Paths, Threads, Announcing, Unknown, Fresh
  <1>2. ASSUME pc["worker"] \in {"attach", "accepted"}, NEW t \in Threads, at[t] = at["worker"]
        PROVE  ~Del(t)
    <2>1. Del(t) => pc[t] = "del"
      BY DEF Del, Goto, Enter
    <2>2. t = "worker"
      BY <1>1, <1>2, ThreadNames DEF Alone
    <2> QED
      BY <1>2, <2>1, <2>2
  <1>3. CASE pc'["worker"] = pc["worker"] /\ at'["worker"] = at["worker"]
    <2> SUFFICES ASSUME pc["worker"] \in {"attach", "accepted"}
                 PROVE  lib'[at["worker"]] = lib[at["worker"]]
      BY <1>0, <1>3 DEF Announcing
    <2>1. at["worker"] \in Handles /\ lib[at["worker"]] # "unused"
      BY <1>1 DEF Alone
    <2> QED
      BY <1>2, <1>3, <2>1, LibMoves
  <1>4. CASE pc'["worker"] = "attach" /\ pc["worker"] = "idle" /\ Accept(at'["worker"])
    <2>1. /\ lib' = [lib EXCEPT ![at'["worker"]] = "registered"]
          /\ lib[at'["worker"]] = "unused"
      BY <1>4 DEF Accept
    <2>2. at'["worker"] \in Handles
      <3>1. ControlTypes' /\ Paths' /\ "worker" \in Threads
        BY ControlTypesStep, PathsStep DEF Threads
      <3> QED
        BY <1>4, <3>1 DEF Paths
    <2> QED
      BY <1>0, <1>4, <2>1, <2>2 DEF Announcing, ControlTypes
  <1>5. CASE pc'["worker"] = "accepted" /\ pc["worker"] = "attach" /\ Attach
    <2>1. Goto("worker", "attach", "accepted") /\ lib' = [lib EXCEPT ![at["worker"]] = "open"]
      <3>1. Goto("worker", "attach", "idle") => pc'["worker"] = "idle"
        BY <1>0, Stays DEF Threads
      <3> QED
        BY <1>5, <3>1 DEF Attach
    <2>2. at'["worker"] = at["worker"] /\ at["worker"] \in Handles
      BY <1>0, <1>1, <1>5, <2>1, Stays DEF Threads, Loops
    <2> QED
      BY <1>0, <1>5, <2>1, <2>2 DEF Announcing, ControlTypes
  <1>6. CASE pc'["worker"] \notin {"attach", "accepted"}
    BY <1>6 DEF Announcing
  <1> QED
    BY <1>3, <1>4, <1>5, <1>6, WorkerStays

-----------------------------------------------------------------------------
(* The ends of links, and m_link_map. *)

LEMMA EndingsStep ==
    ASSUME LinkInv, [Next]_vars
    PROVE  Endings'
  <1>0. ControlTypes /\ Paths /\ Fresh /\ Announcing /\ Endings /\ Paths'
    BY PathsStep DEF LinkInv
  <1>a. "worker" \in Threads /\ "recv" \in Threads /\ "owner" \in Threads
    BY DEF Threads
  <1>b. \A h \in Handles : lib[h] = "gone" => lib'[h] = "gone"
    BY LibMoves
  <1>c. ASSUME NEW h \in Handles, h \notin link_map, h \in link_map', NEW t \in Threads, at[t] = h
        PROVE  pc[t] = "accepted"
    <2>1. at["worker"] = h /\ pc["worker"] = "accepted"
      BY <1>c, MapMoves
    <2> QED
      BY <1>0, <1>c, <2>1, ThreadNames DEF Fresh, Unknown, Alone
  <1>d. ASSUME NEW t \in Threads, pc'[t] = pc[t], at'[t] = at[t], after'[t] = after[t]
        PROVE  /\ pc'[t] \in EndPlaces /\ ~(t = "worker" /\ Hanging') => lib'[at'[t]] = "gone"
               /\ pc'[t] \in {"hook", "release"} => at'[t] \notin link_map'
               /\ t = "worker" /\ pc'[t] = "del" /\ Hanging' => at'[t] \notin link_map'
    <2>1. pc[t] \in EndPlaces \cup {"del"} => at[t] \in Handles
      BY <1>0 DEF Paths
    <2> QED
      BY <1>0, <1>b, <1>c, <1>d, <2>1 DEF Endings, Hanging, EndPlaces
  <1>1. ASSUME NEW t \in Threads, Ending(t)
        PROVE  /\ pc'[t] \in EndPlaces /\ ~(t = "worker" /\ Hanging') => lib'[at'[t]] = "gone"
               /\ pc'[t] \in {"hook", "release"} => at'[t] \notin link_map'
               /\ t = "worker" /\ pc'[t] = "del" /\ Hanging' => at'[t] \notin link_map'
               /\ Moved(t)
    <2>1. /\ after[t] \notin EndPlaces /\ at[t] \in Handles /\ Moved(t)
          /\ pc[t] = "del" => lib' = [lib EXCEPT ![at[t]] = "gone"]
          /\ pc[t] = "remove" => link_map' = link_map \ {at[t]}
          /\ pc[t] # "remove" => link_map' = link_map
      BY <1>0, <1>1, EndingMoves, EndingFrom DEF ControlTypes, EndPlaces
    <2>2. lib'[at[t]] = "gone" \/ pc[t] # "del"
      BY <1>0, <2>1 DEF ControlTypes
    <2>3. CASE pc[t] = "del"
      BY <1>0, <1>1, <2>1, <2>2, <2>3, EndingMoves, NoZero DEF Endings, Hanging, EndPlaces
    <2>4. CASE pc[t] \in EndPlaces
      BY <1>0, <1>1, <1>b, <2>1, <2>4, EndingMoves, NoZero DEF Endings, Hanging, EndPlaces
    <2> QED
      BY <1>0, <1>1, <2>3, <2>4, EndingMoves DEF EndPlaces
  <1>2. ASSUME Worker, ~Ending("worker")
        PROVE  /\ pc'["worker"] \in EndPlaces /\ ~Hanging' => lib'[at'["worker"]] = "gone"
               /\ pc'["worker"] \notin {"hook", "release"}
               /\ ~(pc'["worker"] = "del" /\ Hanging')
               /\ Moved("worker")
    BY <1>0, <1>2, WorkerMoves DEF Hanging, EndPlaces
  <1>3. ASSUME HandleRecvBuff, ~Ending("recv")
        PROVE  pc'["recv"] \notin EndPlaces /\ Moved("recv")
    BY <1>0, <1>3, RecvMoves DEF EndPlaces
  <1>4. ASSUME Owner, ~Ending("owner"), ~InitMgr
        PROVE  pc'["owner"] \notin EndPlaces /\ Moved("owner")
    BY <1>0, <1>4, OwnerMoves DEF EndPlaces
  <1>5. ASSUME InitMgr
        PROVE  /\ pc'["owner"] = "up" /\ pc'["recv"] = "idle"
               /\ pc'["worker"] = pc["worker"] /\ at'["worker"] = at["worker"]
               /\ after'["worker"] = after["worker"]
    BY <1>0, <1>5 DEF InitMgr, ControlTypes, Threads
  <1>6. UNCHANGED vars => UNCHANGED <<pc, at, after>>
    BY DEF vars
  <1>7. \A t \in Threads :
           /\ pc'[t] \in EndPlaces /\ ~(t = "worker" /\ Hanging') => lib'[at'[t]] = "gone"
           /\ pc'[t] \in {"hook", "release"} => at'[t] \notin link_map'
           /\ t = "worker" /\ pc'[t] = "del" /\ Hanging' => at'[t] \notin link_map'
    <2> SUFFICES ASSUME NEW t \in Threads
                 PROVE  /\ pc'[t] \in EndPlaces /\ ~(t = "worker" /\ Hanging') => lib'[at'[t]] = "gone"
                        /\ pc'[t] \in {"hook", "release"} => at'[t] \notin link_map'
                        /\ t = "worker" /\ pc'[t] = "del" /\ Hanging' => at'[t] \notin link_map'
      OBVIOUS
    <2>1. CASE pc'[t] = pc[t] /\ at'[t] = at[t] /\ after'[t] = after[t]
      BY <1>d, <2>1
    <2>2. CASE Ending(t)
      BY <1>1, <2>2
    <2>3. CASE t = "worker" /\ Worker /\ ~Ending("worker")
      BY <1>2, <2>3
    <2>4. CASE t = "recv" /\ HandleRecvBuff /\ ~Ending("recv")
      BY <1>3, <2>4 DEF EndPlaces
    <2>5. CASE t = "owner" /\ Owner /\ ~Ending("owner") /\ ~InitMgr
      BY <1>4, <2>5 DEF EndPlaces
    <2>6. CASE InitMgr
      BY <1>5, <1>d, <2>6, ThreadNames DEF EndPlaces
    <2>7. CASE UNCHANGED vars
      BY <2>1, <2>7 DEF vars
    <2>8. ASSUME NEW u \in Threads, u # t, Moved(u) PROVE pc'[t] = pc[t] /\ at'[t] = at[t] /\ after'[t] = after[t]
      BY <2>8 DEF Moved
    <2> QED
      BY <1>a, <1>1, <1>2, <1>3, <1>4, <2>1, <2>2, <2>3, <2>4, <2>5, <2>6, <2>7, <2>8, ThreadNames DEF Next
  <1> QED
    BY <1>a, <1>7 DEF Endings

LEMMA MapStep ==
    ASSUME LinkInv, [Next]_vars
    PROVE  MapFollowsLibrary'
  <1>0. ControlTypes /\ Paths /\ Fresh /\ Announcing /\ Endings /\ MapFollowsLibrary
    BY DEF LinkInv
  <1>a. "worker" \in Threads /\ "recv" \in Threads /\ "owner" \in Threads
    BY DEF Threads
  <1> SUFFICES ASSUME NEW h \in Handles
      PROVE  /\ h \in link_map' =>
                    lib'[h] = "open" \/ \E t \in Threads : at'[t] = h /\ pc'[t] = "remove"
             /\ lib'[h] = "open" /\ h \notin link_map' =>
                    at'["worker"] = h /\ pc'["worker"] \in EndPlaces \cup {"del", "accepted"}
    BY DEF MapFollowsLibrary, EndPlaces
  <1>1. /\ h # 0
        /\ h \in link_map => lib[h] = "open" \/ \E t \in Threads : at[t] = h /\ pc[t] = "remove"
        /\ lib[h] = "open" /\ h \notin link_map =>
               at["worker"] = h /\ pc["worker"] \in EndPlaces \cup {"del", "accepted"}
        /\ lib[h] \in {"unused", "registered", "open", "gone"}
    BY <1>0, NoZero DEF MapFollowsLibrary, EndPlaces, ControlTypes
  <1>2. ASSUME NEW t \in Threads, Ending(t), at[t] = h
        PROVE  /\ h \in link_map' => lib'[h] = "open" \/ (at'[t] = h /\ pc'[t] = "remove")
               /\ lib'[h] = "open" /\ h \notin link_map' =>
                    at'["worker"] = h /\ pc'["worker"] \in EndPlaces \cup {"del", "accepted"}
    <2>1. /\ Moved(t)
          /\ Del(t) <=> pc[t] = "del"
          /\ Remove(t) <=> pc[t] = "remove"
          /\ Del(t) => lib' = [lib EXCEPT ![at[t]] = "gone"]
          /\ ~Del(t) => lib' = lib
          /\ Remove(t) => link_map' = link_map \ {at[t]}
          /\ ~Remove(t) => link_map' = link_map
      BY <1>0, <1>2, EndingMoves, EndingFrom
    <2>2. CASE pc[t] = "del"
      <3>1. lib'[h] = "gone" /\ link_map' = link_map
        BY <1>0, <1>2, <2>1, <2>2 DEF ControlTypes
      <3>2. h \in link_map => at'[t] = h /\ pc'[t] = "remove"
        BY <1>0, <1>2, <2>2, EndingMoves DEF Endings, Hanging
      <3> QED
        BY <3>1, <3>2
    <2>3. CASE pc[t] = "remove"
      <3>1. lib' = lib /\ h \notin link_map'
        BY <1>2, <2>1, <2>3
      <3>2. lib[h] = "open" => t = "worker" /\ after["worker"] = "del"
        BY <1>0, <1>2, <2>3 DEF Endings, Hanging, EndPlaces
      <3> QED
        BY <1>0, <1>2, <2>3, <3>1, <3>2, EndingMoves DEF EndPlaces
    <2>4. CASE pc[t] \in {"hook", "release"}
      <3>1. lib' = lib /\ h \notin link_map /\ h \notin link_map'
        BY <1>0, <1>2, <2>1, <2>4 DEF Endings
      <3>2. lib[h] = "open" => t = "worker" /\ after["worker"] = "del"
        BY <1>0, <1>2, <2>4 DEF Endings, Hanging, EndPlaces
      <3> QED
        BY <1>0, <1>2, <2>4, <3>1, <3>2, EndingMoves DEF EndPlaces
    <2> QED
      BY <1>0, <1>2, <2>2, <2>3, <2>4, EndingMoves
  <1>3. CASE lib[h] # "open" /\ lib'[h] # lib[h]
    <2>1. h \notin link_map /\ h \notin link_map' /\ lib'[h] = "open"
              => at'["worker"] = h /\ pc'["worker"] = "accepted"
      BY <1>1, <1>3, LibMoves
    <2>2. CASE lib[h] \in {"unused", "registered"}
      <3>1. h \notin link_map /\ ~(at["worker"] = h /\ pc["worker"] = "accepted")
        BY <1>0, <2>2 DEF Fresh, Unknown, Alone, Announcing
      <3> QED
        BY <2>1, <3>1, MapMoves
    <2>3. CASE lib[h] = "gone"
      BY <1>3, <2>3, LibMoves
    <2> QED
      BY <1>1, <1>3, <2>2, <2>3
  <1>8. CASE LinkCreate /\ at["worker"] = h /\ pc["worker"] = "accepted"
    <2>1. lib'[h] = "open" /\ h \in link_map'
      BY <1>0, <1>8 DEF Announcing, LinkCreate, libVars
    <2> QED
      BY <2>1
  <1>4. ASSUME lib[h] = "open" \/ lib'[h] = lib[h],
               ~(LinkCreate /\ at["worker"] = h /\ pc["worker"] = "accepted"),
               ~\E t \in Threads : Ending(t) /\ at[t] = h
        PROVE  lib'[h] = lib[h] /\ (h \in link_map' <=> h \in link_map)
    BY <1>4, LibMoves, MapMoves DEF Ending
  <1>5. ASSUME NEW t \in Threads, at[t] = h, ~Ending(t),
               \/ pc[t] \in EndPlaces \cup {"del"}
               \/ t = "worker" /\ pc[t] = "accepted" /\ ~LinkCreate
        PROVE  at'[t] = h /\ pc'[t] = pc[t]
    <2>1. ASSUME NEW u \in Threads, u # t, Moved(u) PROVE at'[t] = h /\ pc'[t] = pc[t]
      BY <1>5, <2>1 DEF Moved
    <2>2. ASSUME NEW u \in Threads, Ending(u) PROVE at'[t] = h /\ pc'[t] = pc[t]
      BY <1>0, <1>5, <2>1, <2>2, EndingMoves
    <2>3. ASSUME Worker, ~Ending("worker") PROVE at'[t] = h /\ pc'[t] = pc[t]
      BY <1>0, <1>5, <1>a, <2>1, <2>3, WorkerMoves DEF EndPlaces
    <2>4. ASSUME HandleRecvBuff, ~Ending("recv") PROVE at'[t] = h /\ pc'[t] = pc[t]
      <3>1. pc["recv"] \notin EndPlaces \cup {"del"}
        BY <1>0, <2>4, RecvMoves DEF EndPlaces
      <3> QED
        BY <1>0, <1>5, <1>a, <2>1, <2>4, <3>1, RecvMoves
    <2>5. ASSUME Owner, ~Ending("owner"), ~InitMgr PROVE at'[t] = h /\ pc'[t] = pc[t]
      <3>1. pc["owner"] \notin EndPlaces \cup {"del"}
        BY <1>0, <2>5, OwnerMoves DEF EndPlaces
      <3> QED
        BY <1>0, <1>5, <1>a, <2>1, <2>5, <3>1, OwnerMoves
    <2>6. CASE InitMgr
      BY <1>0, <1>5, <2>6, ThreadNames DEF InitMgr, ControlTypes, EndPlaces
    <2>7. CASE UNCHANGED vars
      BY <1>5, <2>7 DEF vars
    <2> QED
      BY <1>a, <2>2, <2>3, <2>4, <2>5, <2>6, <2>7 DEF Next
  <1>6. CASE \E t \in Threads : Ending(t) /\ at[t] = h
    BY <1>2, <1>6
  <1>7. CASE /\ lib[h] = "open" \/ lib'[h] = lib[h]
             /\ ~(LinkCreate /\ at["worker"] = h /\ pc["worker"] = "accepted")
             /\ ~\E t \in Threads : Ending(t) /\ at[t] = h
    BY <1>1, <1>4, <1>5, <1>7, <1>a DEF EndPlaces
  <1> QED
    BY <1>3, <1>6, <1>7, <1>8

-----------------------------------------------------------------------------
(* The end. *)

LEMMA RecvEndedStep ==
    ASSUME LinkInv, [Next]_vars
    PROVE  RecvEnded'
  <1>0. ControlTypes /\ Paths /\ RecvEnded
    BY DEF LinkInv
  <1>1. ASSUME NEW t \in Threads, Ending(t) PROVE RecvEnded'
    <2>1. CASE t = "recv"
      <3>1. pc["recv"] # "exited"
        BY <1>0, <1>1, <2>1, EndingMoves
      <3> QED
        BY <1>0, <1>1, <2>1, <3>1, EndingMoves DEF RecvEnded, Moved, Threads
    <2>2. CASE t # "recv"
      <3>1. pc'["recv"] = pc["recv"] /\ (t = "worker" => pc'["owner"] = pc["owner"])
        BY <1>0, <1>1, <2>2, EndingMoves DEF Moved, Threads
      <3>2. t = "owner" => pc["owner"] \notin {"none", "up", "join"}
        BY <1>0, <1>1, EndingMoves
      <3> QED
        BY <1>0, <2>2, <3>1, <3>2, ThreadNames DEF RecvEnded
    <2> QED
      BY <2>1, <2>2
  <1>2. ASSUME Worker, ~Ending("worker") PROVE RecvEnded'
    BY <1>0, <1>2, WorkerMoves DEF RecvEnded, Moved, Threads
  <1>3. ASSUME HandleRecvBuff, ~Ending("recv") PROVE RecvEnded'
    BY <1>0, <1>3, RecvMoves DEF RecvEnded, Moved, Threads
  <1>4. ASSUME Owner, ~Ending("owner"), ~InitMgr PROVE RecvEnded'
    <2>1. pc'["recv"] = pc["recv"]
      BY <1>0, <1>4, OwnerMoves DEF Moved, Threads
    <2>2. pc["owner"] = "join" => pc["recv"] = "exited" \/ pc'["owner"] = "join"
      BY <1>0, <1>4, OwnerMoves DEF Owner, UnInit, Joined, Collect, Unlisten, Stop, Stopped, Down,
         OwnerStep, Goto, Enter, Destroy
    <2> QED
      BY <1>0, <1>4, <2>1, <2>2, OwnerMoves DEF RecvEnded
  <1>5. CASE InitMgr
    BY <1>0, <1>5 DEF InitMgr, RecvEnded, ControlTypes, Threads
  <1>6. CASE UNCHANGED vars
    BY <1>0, <1>6 DEF vars, RecvEnded
  <1> QED
    BY <1>1, <1>2, <1>3, <1>4, <1>5, <1>6 DEF Next, Threads

LEMMA EndedStep ==
    ASSUME LinkInv, [Next]_vars
    PROVE  Ended'
  <1>0. ControlTypes /\ Paths /\ Ended /\ RecvEnded /\ RecvEnded'
    BY RecvEndedStep DEF LinkInv
  <1>a. "worker" \in Threads /\ "recv" \in Threads /\ "owner" \in Threads
    BY DEF Threads
  <1>1. CASE ~LastPart /\ ~Stopped
    <2>1. ASSUME NEW t \in Threads, Ending(t) PROVE ~LastPart'
      <3>1. pc["owner"] \notin {"free", "down"} /\ after["owner"] \in {"none", "destroy"}
        BY <1>0, <1>1 DEF LastPart, Paths
      <3>2. CASE t = "owner"
        BY <1>0, <2>1, <3>1, <3>2, EndingMoves DEF LastPart
      <3>3. CASE t # "owner"
        BY <1>0, <1>a, <2>1, <3>1, <3>3, EndingMoves DEF LastPart, Moved
      <3> QED
        BY <3>2, <3>3
    <2>2. (Worker /\ ~Ending("worker")) \/ (HandleRecvBuff /\ ~Ending("recv")) => ~LastPart'
      BY <1>0, <1>a, <1>1, WorkerMoves, RecvMoves DEF LastPart, Moved
    <2>3. ASSUME Owner, ~Ending("owner"), ~InitMgr PROVE ~LastPart'
      <3>1. pc["owner"] = "stop" => pc'["owner"] # "free"
        BY <1>0, <1>1, <2>3 DEF Owner, UnInit, Joined, Collect, Unlisten, Stop, Down,
           OwnerStep, Goto, Enter, Destroy
      <3> QED
        BY <1>0, <1>1, <2>3, <3>1, OwnerMoves DEF LastPart
    <2>4. CASE InitMgr
      BY <1>0, <1>1, <2>4 DEF InitMgr, Ended, LastPart, ControlTypes, Threads
    <2>5. CASE UNCHANGED vars
      BY <1>1, <2>5 DEF vars, Ended, LastPart
    <2> QED
      BY <1>a, <2>1, <2>2, <2>3, <2>4, <2>5 DEF Next, Ended
  <1>2. CASE Stopped
    <2>1. /\ pc["worker"] = "exited" /\ pc["owner"] = "stop" /\ pc'["owner"] = "free"
          /\ todo' = {h \in Handles : lib[h] \in Registered} /\ lib' = lib
          /\ pc'["worker"] = pc["worker"]
      BY <1>0, <1>a, <1>2, Stays DEF Stopped, OwnerStep, libVars
    <2>2. pc'["recv"] = "exited"
      BY <1>0, <2>1 DEF RecvEnded
    <2> QED
      BY <2>1, <2>2 DEF Ended
  <1>3. CASE LastPart /\ ~Stopped
    <2>0. /\ pc["worker"] = "exited" /\ pc["recv"] = "exited"
          /\ \A h \in Handles : lib[h] \in Registered =>
               pc["owner"] # "down" /\ (h \in todo \/ (at["owner"] = h /\ pc["owner"] = "del"))
      BY <1>0, <1>3 DEF Ended
    <2>1. ASSUME Ending("owner") PROVE Ended'
      <3>1. /\ pc'["worker"] = "exited" /\ pc'["recv"] = "exited"
            /\ pc["owner"] \in EndPlaces \cup {"del"} /\ pc'["owner"] # "down"
            /\ todo' = todo
        BY <1>0, <1>a, <2>0, <2>1, EndingMoves DEF Moved, EndPlaces, Ending, Del, Remove, Hook, Release,
           ControlTypes
      <3>2. ASSUME NEW h \in Handles, lib'[h] \in Registered PROVE h \in todo
        <4>1. lib[h] \in Registered /\ ~(at["owner"] = h /\ pc["owner"] = "del")
          BY <1>0, <1>a, <2>1, <3>2, EndingFrom DEF ControlTypes, Registered
        <4> QED
          BY <2>0, <4>1
      <3> QED
        BY <3>1, <3>2 DEF Ended
    <2>2. ASSUME NEW h \in Handles, Destroy(h) PROVE Ended'
      <3>1. lib' = lib /\ todo' = todo \ {h}
        BY <2>2 DEF Destroy, libVars
      <3>2. CASE lib[h] \in Registered
        <4>1. /\ pc'["owner"] = "del" /\ at'["owner"] = h
              /\ pc'["worker"] = "exited" /\ pc'["recv"] = "exited"
              /\ pc["owner"] \in {"destroy", "free"}
          BY <1>0, <1>a, <2>0, <2>2, <3>2, EnterIs DEF Destroy, Loops
        <4> QED
          BY <2>0, <3>1, <4>1 DEF Ended
      <3>3. CASE lib[h] \notin Registered
        <4>1. UNCHANGED <<pc, at, after>> /\ pc["owner"] \in {"destroy", "free"}
          BY <2>2, <3>3 DEF Destroy
        <4> QED
          BY <2>0, <3>1, <3>3, <4>1 DEF Ended
      <3> QED
        BY <3>2, <3>3
    <2>3. CASE Down
      <3>1. todo = {} /\ lib' = lib /\ pc["owner"] = "free" /\ pc'["owner"] = "down"
            /\ pc'["worker"] = "exited" /\ pc'["recv"] = "exited"
        BY <1>0, <1>a, <2>0, <2>3, Stays DEF Down, OwnerStep, libVars
      <3> QED
        BY <2>0, <3>1 DEF Ended
    <2>4. CASE UNCHANGED vars
      BY <1>0, <2>4 DEF vars, libVars, Ended, LastPart
    <2>5. ~Worker /\ ~HandleRecvBuff
      BY <1>0, <1>a, <2>0, WorkerMoves, RecvMoves, EndingMoves DEF Worker, HandleRecvBuff
    <2>6. ASSUME Owner PROVE Ending("owner") \/ Down \/ \E h \in Handles : Destroy(h)
      <3>1. pc["owner"] \in {"free", "down", "del"} \cup EndPlaces
        BY <1>0, <1>3, <1>a DEF LastPart, Paths
      <3> QED
        BY <1>3, <2>6, <3>1 DEF Owner, InitMgr, UnInit, Joined, Collect, Unlisten, Stop, OwnerStep,
           Goto, Enter, EndPlaces
    <2> QED
      BY <2>1, <2>2, <2>3, <2>4, <2>5, <2>6 DEF Next
  <1> QED
    BY <1>1, <1>2, <1>3

-----------------------------------------------------------------------------
(* Calls that come late. *)

LEMMA LateStep ==
    ASSUME LinkInv, [Next]_vars
    PROVE  LateInv' /\ AtMostOneLate'
  <1>0. ControlTypes /\ Paths /\ Fresh /\ Endings /\ LateInv /\ AtMostOneLate
    BY DEF LinkInv
  <1>b. hooked' \subseteq Handles /\ \A h \in Handles : late[h] \in Nat /\ late'[h] \in Nat
    BY ControlTypesStep DEF LinkInv, ControlTypes
  <1>a. "worker" \in Threads /\ "recv" \in Threads /\ "owner" \in Threads
    BY DEF Threads
  <1>1. ASSUME NEW h \in Handles, h \in hooked' PROVE h \notin link_map'
    <2>1. CASE h \in hooked
      <3>1. h \notin link_map /\ ~(at["worker"] = h /\ pc["worker"] = "accepted")
        BY <1>0, <1>1, <2>1 DEF LateInv, Fresh, Unknown, Alone
      <3> QED
        BY <3>1, MapMoves
    <2>2. ASSUME NEW t \in Threads, Hook(t), h = at[t] PROVE h \notin link_map'
      <3>1. pc[t] = "hook" /\ link_map' = link_map
        BY <2>2 DEF Hook, Goto, Enter
      <3> QED
        BY <1>0, <2>2, <3>1 DEF Endings
    <2>3. ASSUME NEW t \in Threads, Hook(t) PROVE h \in hooked \/ h = at[t]
      BY <1>1, <2>3 DEF Hook
    <2>4. CASE hooked' = hooked
      BY <1>1, <2>1, <2>4
    <2> QED
      BY <1>a, <2>1, <2>2, <2>3, <2>4 DEF Next, Worker, HandleRecvBuff, Owner, Ending, vars, histVars,
         Del, Remove, Release, Accept, Attach, LinkCreate, Read, Receive, Disconnect, ReadEnd, Post, WorkerExits, Poll, Swap,
         Take, Parse, Find, Recv, DropRef, InitMgr, UnInit, Joined, Collect, Unlisten, Stop, Stopped, Down,
         OwnerStep, Destroy
  <1>2. hooked \subseteq hooked'
    BY DEF Next, Worker, HandleRecvBuff, Owner, Ending, vars, histVars,
       Del, Remove, Hook, Release, Accept, Attach, LinkCreate, Read, Receive, Disconnect, ReadEnd, Post, WorkerExits, Poll, Swap,
       Take, Parse, Find, Recv, DropRef, InitMgr, UnInit, Joined, Collect, Unlisten, Stop, Stopped, Down,
       OwnerStep, Destroy
  <1>3. CASE Recv
    <2>1. pc["recv"] = "recv" /\ pc'["recv"] # "recv" /\ hooked' = hooked
      BY <1>0, <1>a, <1>3, Stays, EnterIs DEF Recv
    <2>2. ASSUME NEW h \in Handles PROVE late'[h] <= 1 /\ (late'[h] > 0 => h \in hooked')
      BY <1>0, <1>3, <2>1, <2>2 DEF Recv, ControlTypes, LateInv, AtMostOneLate
    <2> QED
      BY <1>1, <1>b, <2>1, <2>2 DEF LateInv, AtMostOneLate
  <1>4. CASE ~Recv
    <2>1. late' = late
      BY <1>4 DEF Next, Worker, HandleRecvBuff, Owner, Ending, vars, histVars,
         Del, Remove, Hook, Release, Accept, Attach, LinkCreate, Read, Receive, Disconnect, ReadEnd, Post, WorkerExits, Poll, Swap,
         Take, Parse, Find, DropRef, InitMgr, UnInit, Joined, Collect, Unlisten, Stop, Stopped, Down,
         OwnerStep, Destroy
    <2>2. ASSUME pc'["recv"] = "recv"
          PROVE  \/ pc["recv"] = "recv" /\ at'["recv"] = at["recv"]
                 \/ at'["recv"] = at["recv"] /\ at["recv"] \in link_map
      <3>1. ASSUME NEW t \in Threads, Ending(t) PROVE pc["recv"] = "recv" /\ at'["recv"] = at["recv"]
        BY <1>0, <1>a, <2>2, <3>1, EndingMoves DEF Moved, ControlTypes
      <3>2. ASSUME Worker, ~Ending("worker") PROVE pc["recv"] = "recv" /\ at'["recv"] = at["recv"]
        BY <1>0, <1>a, <2>2, <3>2, WorkerMoves DEF Moved
      <3>3. ASSUME HandleRecvBuff, ~Ending("recv")
            PROVE  at'["recv"] = at["recv"] /\ at["recv"] \in link_map
        <4>1. pc["recv"] = "find" /\ at'["recv"] = at["recv"]
          BY <1>0, <2>2, <3>3, RecvMoves
        <4>2. Find
          BY <1>a, <1>0, <3>3, <4>1 DEF HandleRecvBuff, Poll, Swap, Take, Parse, Recv, DropRef, Goto, Enter
        <4> QED
          BY <1>0, <1>a, <2>2, <4>1, <4>2, Stays DEF Find
      <3>4. ASSUME Owner, ~Ending("owner"), ~InitMgr PROVE pc["recv"] = "recv" /\ at'["recv"] = at["recv"]
        BY <1>0, <1>a, <2>2, <3>4, OwnerMoves DEF Moved
      <3>5. CASE InitMgr
        BY <1>0, <1>a, <2>2, <3>5 DEF InitMgr, ControlTypes
      <3>6. CASE UNCHANGED vars
        BY <2>2, <3>6 DEF vars
      <3> QED
        BY <1>a, <3>1, <3>2, <3>3, <3>4, <3>5, <3>6 DEF Next
    <2>3. ASSUME NEW h \in Handles, pc'["recv"] = "recv", at'["recv"] = h PROVE late[h] = 0
      <3>1. h \in link_map => h \notin hooked
        BY <1>0 DEF LateInv
      <3> QED
        BY <1>0, <2>2, <2>3, <3>1 DEF LateInv, ControlTypes
    <2> QED
      BY <1>0, <1>1, <1>2, <1>b, <2>1, <2>3 DEF LateInv, AtMostOneLate
  <1> QED
    BY <1>3, <1>4

-----------------------------------------------------------------------------
(* The theorems. *)

LEMMA LinkInvInit == Init => LinkInv
  <1> SUFFICES ASSUME Init PROVE LinkInv
    OBVIOUS
  <1>1. ControlTypes /\ Paths /\ Fresh
    BY NoZero, ThreadNames DEF Init, ControlTypes, Paths, Fresh, Unknown, Alone, EndPlaces, Empty, Threads
  <1>2. RefsArePointers
    BY NoZero DEF Init, RefsArePointers, Pointers, InMap, InCall, InRemove, Calling, Removing, Threads
  <1>3. Announcing /\ Endings /\ MapFollowsLibrary /\ Ended /\ RecvEnded
    BY DEF Init, Announcing, Endings, EndPlaces, Hanging, MapFollowsLibrary, Ended, LastPart, RecvEnded, Threads
  <1>4. LateInv /\ AtMostOneLate
    BY DEF Init, LateInv, AtMostOneLate
  <1> QED
    BY <1>1, <1>2, <1>3, <1>4 DEF LinkInv

LEMMA LinkInvStep == LinkInv /\ [Next]_vars => LinkInv'
  BY ControlTypesStep, PathsStep, FreshStep, AnnouncingStep, RefsStep, EndingsStep, MapStep, EndedStep, RecvEndedStep,
     LateStep DEF LinkInv

(* The strengthened invariant of the link manager is one.                  *)
THEOREM LinkInvariant == Spec => []LinkInv
  BY LinkInvInit, LinkInvStep, PTL DEF Spec

(* The count of a handler (Guard.h, CRefCountPtr) is at all times the      *)
(* number of pointers to it, in m_link_map and in the threads.             *)
THEOREM CountsAreRight == Spec => []RefsArePointers
  <1>1. LinkInv => RefsArePointers
    BY DEF LinkInv
  <1> QED
    BY <1>1, LinkInvariant, PTL

(* No handler is deleted under a call to it, and none is kept when the     *)
(* last pointer to it is gone (link_remove, link_recv_data).               *)
THEOREM HandlersAlive == Spec => []HandlersLive
  <1>1. LinkInv => HandlersLive
    BY Held DEF LinkInv, HandlersLive
  <1> QED
    BY <1>1, LinkInvariant, PTL

(* m_link_map has an entry for every link attached in on_event_accept and  *)
(* for no other, but for links whose ACCEPTED the worker is about to say   *)
(* and those some thread is just ending; a link that could not be attached *)
(* is registered without one.                                              *)
THEOREM MapIsRight == Spec => []MapFollowsLibrary
  <1>1. LinkInv => MapFollowsLibrary
    BY DEF LinkInv
  <1> QED
    BY <1>1, LinkInvariant, PTL

(* A handler that has been told of its end is called at most once more.    *)
THEOREM OneLateCall == Spec => []AtMostOneLate
  <1>1. LinkInv => AtMostOneLate
    BY DEF LinkInv
  <1> QED
    BY <1>1, LinkInvariant, PTL

(* When UnInit and ms_tcp_uninit have returned, m_link_map is empty and    *)
(* every handler and every link has been deleted, however accepts and ends *)
(* interleaved, and links that could not be attached too.                  *)
THEOREM NothingRemains == Spec => []NoHandlerLeft
  <1>1. LinkInv => NoHandlerLeft
    <2> SUFFICES ASSUME LinkInv, pc["owner"] = "down"
                 PROVE  /\ link_map = {} /\ \A h \in Handles : refs[h] = 0
                        /\ \A h \in Handles : lib[h] \notin Registered
      BY DEF NoHandlerLeft
    <2>0. ControlTypes /\ Paths /\ RefsArePointers /\ MapFollowsLibrary /\ Ended
      BY DEF LinkInv
    <2>1. /\ pc["worker"] = "exited" /\ pc["recv"] = "exited"
          /\ \A h \in Handles : lib[h] \notin Registered /\ lib[h] # "open"
      BY <2>0 DEF Ended, LastPart, Registered
    <2>2. after["recv"] # "drop"
      BY <2>0, <2>1 DEF Paths, EndPlaces, Threads
    <2>3. link_map = {}
      BY <2>0, <2>1, ThreadNames DEF MapFollowsLibrary, ControlTypes
    <2>4. ASSUME NEW h \in Handles PROVE refs[h] = 0
      <3>1. ~Calling(h) /\ \A t \in Threads : ~Removing(t, h)
        BY <2>1, <2>2, ThreadNames DEF Calling, Removing
      <3> QED
        BY <2>0, <2>3, <3>1, Held DEF ControlTypes
    <2> QED
      BY <2>1, <2>3, <2>4
  <1> QED
    BY <1>1, LinkInvariant, PTL
-----------------------------------------------------------------------------
(* The bytes of a link, as one stream. *)

(* Reads that cut S from p on into pieces, the i-th after ct[i].           *)
MadeOf(S, p, reads, ct) ==
    /\ reads \in Seq(Seq(Nat)) /\ ct \in [1..(Len(reads) + 1) -> Nat] /\ ct[1] = p
    /\ \A i \in 1..Len(reads) : Shows(S, ct[i], reads[i]) /\ ct[i + 1] = ct[i] + Len(reads[i])
Reads(S, p, reads) == \E ct : MadeOf(S, p, reads, ct)

(* What the peers send is what they mean: packets of those messages, and   *)
(* between them nothing the code would take for a packet (Placed).         *)
Means(s) == \E S, st : Placed(S, st, s.packets, Len(s.packets)) /\ Reads(S, 0, s.reads)
StreamsAreMeant == \A h \in Handles : \A s \in Streams[h] : Means(s)

(* Packets of clean messages one behind the other, cut anywhere, are such. *)
LEMMA CleanMeans ==
    ASSUME NEW s, NEW S, NEW st, Laid(S, st, s.packets, Len(s.packets)), Reads(S, 0, s.reads)
    PROVE  Means(s)
  BY LaidIsPlaced DEF Means

(* The bytes of a link in their order: m_recv_buf_map shows the stream     *)
(* from pos on, then come what handle_recv_buff has swapped out, what      *)
(* m_recv_buf_old_map holds, and the reads still to come.                  *)
Line(S, pos, recv, took, old, w) ==
    /\ Shows(S, pos, recv)
    /\ Shows(S, pos + Len(recv), took)
    /\ Shows(S, pos + Len(recv) + Len(took), old)
    /\ DataStatus = "STATUS_RECV_END" => Reads(S, pos + Len(recv) + Len(took) + Len(old), w)

(* The packet at the head of the buffer is there as a whole.               *)
Whole(st, M, pos, recv) ==
    \E i \in 1..Len(M) : pos = st[i] /\ Len(WritePacket(M[i])) <= Len(recv)

(* What a handler got is some of what was meant, in order and from before  *)
(* pos; or exactly what was meant before pos.                              *)
Chosen(st, M, pos, g) ==
    \E f \in [1..Len(g) -> 1..Len(M)] :
        \A i \in 1..Len(g) :
            /\ g[i] = M[f[i]] /\ st[f[i]] < pos
            /\ \A j \in 1..Len(g) : i < j => f[i] < f[j]
Exact(st, M, pos, g) ==
    \A i \in 1..Len(M) : IF i <= Len(g) THEN st[i] < pos ELSE pos <= st[i]

LEMMA ReadsTail ==
    ASSUME NEW S, NEW p, NEW w, Reads(S, p, w), w # <<>>
    PROVE  Shows(S, p, Head(w)) /\ Reads(S, p + Len(Head(w)), Tail(w))
  <1>1. PICK ct : MadeOf(S, p, w, ct)
    BY DEF Reads
  <1>2. /\ w \in Seq(Seq(Nat)) /\ ct \in [1..(Len(w) + 1) -> Nat] /\ ct[1] = p
        /\ \A i \in 1..Len(w) : Shows(S, ct[i], w[i]) /\ ct[i + 1] = ct[i] + Len(w[i])
    BY <1>1 DEF MadeOf
  <1>3. /\ Len(w) \in Nat /\ Len(w) >= 1 /\ Head(w) = w[1]
        /\ Tail(w) \in Seq(Seq(Nat)) /\ Len(Tail(w)) = Len(w) - 1
        /\ \A i \in 1..Len(Tail(w)) : Tail(w)[i] = w[i + 1]
    BY <1>2
  <1> DEFINE v == Tail(w)
             c2 == [i \in 1..(Len(v) + 1) |-> ct[i + 1]]
  <1>4. Shows(S, p, Head(w)) /\ ct[1 + 1] = p + Len(Head(w))
    <2>1. 1 \in 1..Len(w)
      BY <1>3
    <2> QED
      BY <1>2, <1>3, <2>1
  <1>5. /\ v \in Seq(Seq(Nat)) /\ Len(v) = Len(w) - 1
        /\ \A i \in 1..Len(v) : v[i] = w[i + 1]
    BY <1>3
  <1> HIDE DEF v
  <1>6. ASSUME NEW i \in 1..(Len(v) + 1) PROVE i + 1 \in 1..(Len(w) + 1) /\ ct[i + 1] \in Nat
    <2>1. i + 1 \in 1..(Len(w) + 1)
      BY <1>3, <1>5
    <2> QED
      BY <1>2, <2>1
  <1>7. c2 \in [1..(Len(v) + 1) -> Nat] /\ \A i \in 1..(Len(v) + 1) : c2[i] = ct[i + 1]
    BY <1>6
  <1> HIDE DEF c2
  <1>8. c2[1] = p + Len(Head(w))
    <2>1. 1 \in 1..(Len(v) + 1)
      BY <1>3, <1>5
    <2> QED
      BY <1>4, <1>7, <2>1
  <1>9. ASSUME NEW i \in 1..Len(v)
        PROVE  Shows(S, c2[i], v[i]) /\ c2[i + 1] = c2[i] + Len(v[i])
    <2>1. i + 1 \in 1..Len(w) /\ i \in 1..(Len(v) + 1) /\ i + 1 \in 1..(Len(v) + 1)
      BY <1>3, <1>5
    <2>2. c2[i] = ct[i + 1] /\ c2[i + 1] = ct[i + 1 + 1] /\ v[i] = w[i + 1]
      BY <1>5, <1>7, <2>1
    <2>3. Shows(S, ct[i + 1], w[i + 1]) /\ ct[i + 1 + 1] = ct[i + 1] + Len(w[i + 1])
      BY <1>2, <2>1
    <2> QED
      BY <2>2, <2>3
  <1>10. MadeOf(S, p + Len(Head(w)), v, c2)
    BY <1>5, <1>7, <1>8, <1>9 DEF MadeOf
  <1> QED
    BY <1>4, <1>10 DEF Reads, v

LEMMA LineTypes ==
    ASSUME NEW S, NEW pos, NEW r, NEW t, NEW o, NEW w, Line(S, pos, r, t, o, w)
    PROVE  /\ pos \in Nat /\ r \in Seq(Nat) /\ t \in Seq(Nat) /\ o \in Seq(Nat)
           /\ Len(r) \in Nat /\ Len(t) \in Nat /\ Len(o) \in Nat
  BY LenProperties DEF Line, Shows

(* A read appends to the old map; the old map is swapped out; a buffer     *)
(* swapped out is appended; and what is dealt with is dropped.             *)
LEMMA LineReceived ==
    ASSUME NEW S, NEW pos, NEW r, NEW t, NEW o, NEW w, Line(S, pos, r, t, o, w),
           DataStatus = "STATUS_RECV_END", w # <<>>
    PROVE  Line(S, pos, r, t, o \o Head(w), Tail(w))
  <1>1. /\ Shows(S, pos, r) /\ Shows(S, pos + Len(r), t) /\ Shows(S, pos + Len(r) + Len(t), o)
        /\ Reads(S, pos + Len(r) + Len(t) + Len(o), w)
    BY DEF Line
  <1>2. PICK q : q = pos + Len(r) + Len(t)
    OBVIOUS
  <1>3. Shows(S, q + Len(o), Head(w)) /\ Reads(S, q + Len(o) + Len(Head(w)), Tail(w))
    BY <1>1, <1>2, ReadsTail
  <1>4. /\ Shows(S, q, o \o Head(w)) /\ Len(o \o Head(w)) = Len(o) + Len(Head(w))
        /\ Len(o) \in Nat /\ Len(Head(w)) \in Nat
    BY <1>1, <1>2, <1>3, ShowsJoined
  <1>5. q \in Nat
    BY <1>4 DEF Shows
  <1>6. q + Len(o \o Head(w)) = q + Len(o) + Len(Head(w))
    <2>1. PICK n \in Nat, m \in Nat : n = Len(o) /\ m = Len(Head(w))
      BY <1>4
    <2>2. q + (n + m) = q + n + m
      BY <1>5
    <2> QED
      BY <1>4, <2>1, <2>2
  <1>7. Reads(S, q + Len(o \o Head(w)), Tail(w))
    BY <1>3, <1>6
  <1> QED
    BY <1>1, <1>2, <1>4, <1>7 DEF Line

LEMMA LineSwapped ==
    ASSUME NEW S, NEW pos, NEW r, NEW o, NEW w, Line(S, pos, r, <<>>, o, w)
    PROVE  Line(S, pos, r, o, <<>>, w)
  <1>1. /\ pos \in Nat /\ Len(r) \in Nat /\ Len(o) \in Nat /\ Len(<<>>) = 0
    BY LineTypes, EmptySeq
  <1>2. PICK n \in Nat, m \in Nat : n = Len(r) /\ m = Len(o)
    BY <1>1
  <1>3. /\ Shows(S, pos, r) /\ Shows(S, pos + n + 0, o)
        /\ DataStatus = "STATUS_RECV_END" => Reads(S, pos + n + 0 + m, w)
    BY <1>1, <1>2 DEF Line
  <1>4. pos + n + 0 = pos + n /\ pos + n + m + 0 = pos + n + m
    BY <1>1
  <1>5. /\ Shows(S, pos + n, o)
        /\ DataStatus = "STATUS_RECV_END" => Reads(S, pos + n + m, w)
    BY <1>3, <1>4
  <1>6. Shows(S, pos + n + m, <<>>)
    <2>1. /\ o \in Seq(Nat) /\ pos + n + Len(o) <= Len(S) /\ pos + n + m \in Nat
          /\ pos + n + m + 0 <= Len(S)
      BY <1>1, <1>2, <1>4, <1>5 DEF Shows
    <2>2. <<>> \in Seq(Nat) /\ \A j \in 1..0 : FALSE
      OBVIOUS
    <2> QED
      BY <1>1, <2>1, <2>2 DEF Shows
  <1> QED
    BY <1>1, <1>2, <1>3, <1>4, <1>5, <1>6 DEF Line

LEMMA LineTaken ==
    ASSUME NEW S, NEW pos, NEW r, NEW t, NEW o, NEW w, Line(S, pos, r, t, o, w)
    PROVE  Line(S, pos, r \o t, <<>>, o, w)
  <1>1. pos \in Nat /\ Len(<<>>) = 0 /\ Len(o) \in Nat
    BY LineTypes, EmptySeq
  <1>2. /\ Shows(S, pos, r \o t) /\ Len(r \o t) = Len(r) + Len(t)
        /\ Len(r) \in Nat /\ Len(t) \in Nat
    BY ShowsJoined DEF Line
  <1>3. PICK n \in Nat, m \in Nat, e \in Nat : n = Len(r) /\ m = Len(t) /\ e = Len(o)
    BY <1>1, <1>2
  <1>4. /\ Shows(S, pos + n, t) /\ Shows(S, pos + n + m, o)
        /\ DataStatus = "STATUS_RECV_END" => Reads(S, pos + n + m + e, w)
    BY <1>3 DEF Line
  <1>5. PICK l \in Nat : l = Len(r \o t) /\ pos + l = pos + n + m /\ pos + l + 0 = pos + n + m
                         /\ pos + l + 0 + e = pos + n + m + e
    BY <1>1, <1>2, <1>3
  <1>6. Shows(S, pos + l, <<>>)
    <2>1. pos + l + 0 <= Len(S) /\ pos + l \in Nat
      <3>1. pos + l <= Len(S)
        BY <1>2, <1>5 DEF Shows
      <3> QED
        BY <1>1, <1>5, <3>1
    <2>2. <<>> \in Seq(Nat) /\ \A j \in 1..0 : FALSE
      OBVIOUS
    <2> QED
      BY <1>1, <2>1, <2>2 DEF Shows
  <1>7. /\ Shows(S, pos + l + 0, o)
        /\ DataStatus = "STATUS_RECV_END" => Reads(S, pos + l + 0 + e, w)
    BY <1>4, <1>5
  <1> QED
    BY <1>1, <1>2, <1>3, <1>5, <1>6, <1>7 DEF Line

LEMMA LineDropped ==
    ASSUME NEW S, NEW pos, NEW r, NEW t, NEW o, NEW w, Line(S, pos, r, t, o, w), NEW n \in 0..Len(r)
    PROVE  Line(S, pos + n, Drop(r, n), t, o, w)
  <1>1. pos \in Nat /\ Len(r) \in Nat /\ Shows(S, pos, r)
    BY LineTypes DEF Line
  <1>2. Shows(S, pos + n, Drop(r, n)) /\ Len(Drop(r, n)) = Len(r) - n
    BY <1>1, ShowsDropped
  <1>3. pos + n + Len(Drop(r, n)) = pos + Len(r)
    BY <1>1, <1>2
  <1> QED
    BY <1>2, <1>3 DEF Line
-----------------------------------------------------------------------------
(* What a handler got, and what was meant. *)

LEMMA Lengths ==
    ASSUME NEW S, NEW st, NEW M, NEW k, Placed(S, st, M, k), NEW i \in 1..k
    PROVE  /\ k \in Nat /\ st[i] \in Nat /\ Len(WritePacket(M[i])) \in Nat
           /\ 6 <= Len(WritePacket(M[i])) /\ M[i] \in Message
           /\ \A j \in 1..k : i < j => st[i] + Len(WritePacket(M[i])) <= st[j]
  <1>1. /\ k \in Nat /\ st[i] \in Nat /\ Writable(M[i])
        /\ \A j \in 1..k : i < j => st[i] + Len(WritePacket(M[i])) <= st[j]
    BY DEF Placed, Packed, Spaced
  <1>2. Len(WritePacket(M[i])) \in Nat /\ 6 <= Len(WritePacket(M[i])) /\ M[i] \in Message
    BY <1>1, PacketHead
  <1> QED
    BY <1>1, <1>2

(* The packets lie in their order. *)
LEMMA Ordered ==
    ASSUME NEW S, NEW st, NEW M, NEW k, Placed(S, st, M, k), NEW i \in 1..k, NEW j \in 1..k
    PROVE  i < j <=> st[i] < st[j]
  <1>0. k \in Nat /\ st[i] \in Nat /\ st[j] \in Nat
    BY Lengths
  <1>1. ASSUME i < j PROVE st[i] < st[j]
    <2>1. PICK n \in Nat : n = Len(WritePacket(M[i])) /\ 6 <= n /\ st[i] + n <= st[j]
      BY <1>1, Lengths
    <2> QED
      BY <1>0, <2>1
  <1>2. ASSUME j < i PROVE st[j] < st[i]
    <2>1. PICK n \in Nat : n = Len(WritePacket(M[j])) /\ 6 <= n /\ st[j] + n <= st[i]
      BY <1>2, Lengths
    <2> QED
      BY <1>0, <2>1
  <1>3. i < j \/ j < i \/ i = j
    BY <1>0
  <1> QED
    BY <1>0, <1>1, <1>2, <1>3

LEMMA ChosenLater ==
    ASSUME NEW S, NEW st, NEW M, Placed(S, st, M, Len(M)), NEW pos \in Nat, NEW q \in Nat, pos <= q,
           NEW g, Chosen(st, M, pos, g)
    PROVE  Chosen(st, M, q, g)
  <1>1. PICK f \in [1..Len(g) -> 1..Len(M)] :
            \A i \in 1..Len(g) :
                /\ g[i] = M[f[i]] /\ st[f[i]] < pos
                /\ \A j \in 1..Len(g) : i < j => f[i] < f[j]
    BY DEF Chosen
  <1>2. ASSUME NEW i \in 1..Len(g) PROVE st[f[i]] < q
    <2>1. f[i] \in 1..Len(M)
      BY <1>1
    <2>2. st[f[i]] \in Nat
      BY <2>1, Lengths
    <2>3. st[f[i]] < pos
      BY <1>1
    <2> QED
      BY <2>2, <2>3
  <1> QED
    BY <1>1, <1>2 DEF Chosen

LEMMA ChosenMore ==
    ASSUME NEW S, NEW st, NEW M, Placed(S, st, M, Len(M)), NEW i \in 1..Len(M),
           NEW g \in Seq(Message), Chosen(st, M, st[i], g)
    PROVE  Chosen(st, M, st[i] + Len(WritePacket(M[i])), Append(g, M[i]))
  <1> DEFINE k == Len(M)
             g2 == Append(g, M[i])
             n == Len(g)
  <1>1. PICK f \in [1..n -> 1..k] :
            \A a \in 1..n :
                /\ g[a] = M[f[a]] /\ st[f[a]] < st[i]
                /\ \A b \in 1..n : a < b => f[a] < f[b]
    BY DEF Chosen
  <1>2. M[i] \in Message /\ k \in Nat /\ n \in Nat
    BY Lengths, LenProperties
  <1>3. /\ Len(g2) = n + 1 /\ g2[n + 1] = M[i]
        /\ \A a \in 1..n : g2[a] = g[a]
    BY <1>2
  <1>4. PICK q \in Nat : q = st[i] + Len(WritePacket(M[i])) /\ st[i] < q
    <2>1. PICK l \in Nat : l = Len(WritePacket(M[i])) /\ 6 <= l
      BY Lengths
    <2>2. st[i] \in Nat
      BY Lengths
    <2>3. st[i] + l \in Nat /\ st[i] < st[i] + l
      BY <2>1, <2>2
    <2> QED
      BY <2>1, <2>3
  <1> DEFINE f2 == [a \in 1..(n + 1) |-> IF a = n + 1 THEN i ELSE f[a]]
  <1> HIDE DEF g2, k, n
  <1>5. ASSUME NEW a \in 1..(n + 1), a # n + 1 PROVE a \in 1..n /\ f[a] \in 1..k /\ f[a] < i
    <2>1. a \in 1..n
      BY <1>2, <1>5
    <2>2. f[a] \in 1..k /\ st[f[a]] < st[i]
      BY <1>1, <2>1
    <2> QED
      BY <2>1, <2>2, Ordered DEF k
  <1>6. f2 \in [1..(n + 1) -> 1..k] /\ f2[n + 1] = i /\ \A a \in 1..n : f2[a] = f[a]
    <2>1. n + 1 \in 1..(n + 1) /\ \A a \in 1..n : a \in 1..(n + 1) /\ a # n + 1
      BY <1>2
    <2>2. i \in 1..k
      BY DEF k
    <2> QED
      BY <1>5, <2>1, <2>2
  <1> HIDE DEF f2
  <1>7. ASSUME NEW a \in 1..(n + 1)
        PROVE  /\ g2[a] = M[f2[a]] /\ st[f2[a]] < q
               /\ \A b \in 1..(n + 1) : a < b => f2[a] < f2[b]
    <2>1. CASE a = n + 1
      <3>1. \A b \in 1..(n + 1) : ~(a < b)
        BY <1>2, <2>1
      <3> QED
        BY <1>3, <1>4, <1>6, <2>1, <3>1
    <2>2. CASE a # n + 1
      <3>1. a \in 1..n /\ f[a] \in 1..k /\ f[a] < i /\ f2[a] = f[a]
        BY <1>5, <1>6, <2>2
      <3>2. g2[a] = M[f2[a]]
        BY <1>1, <1>3, <3>1
      <3>3. st[f2[a]] < q
        <4>1. st[f[a]] \in Nat /\ st[i] \in Nat
          BY <3>1, Lengths DEF k
        <4>2. st[f[a]] < st[i]
          BY <1>1, <3>1
        <4> QED
          BY <1>4, <3>1, <4>1, <4>2
      <3>4. ASSUME NEW b \in 1..(n + 1), a < b PROVE f2[a] < f2[b]
        <4>1. CASE b = n + 1
          BY <1>6, <3>1, <4>1
        <4>2. CASE b # n + 1
          <5>1. b \in 1..n /\ f2[b] = f[b]
            BY <1>5, <1>6, <4>2
          <5> QED
            BY <1>1, <3>1, <3>4, <5>1
        <4> QED
          BY <4>1, <4>2
      <3> QED
        BY <3>2, <3>3, <3>4
    <2> QED
      BY <2>1, <2>2
  <1>8. Chosen(st, M, q, g2)
    BY <1>3, <1>6, <1>7 DEF Chosen, k
  <1> QED
    BY <1>4, <1>8 DEF g2

LEMMA ChosenIsPart ==
    ASSUME NEW st, NEW M, NEW pos, NEW g, Chosen(st, M, pos, g)
    PROVE  IsPartOf(g, M)
  BY DEF Chosen, IsPartOf

LEMMA ExactMore ==
    ASSUME NEW S, NEW st, NEW M \in Seq(Message), Placed(S, st, M, Len(M)), NEW i \in 1..Len(M),
           NEW g \in Seq(Message), Exact(st, M, st[i], g), IsPrefixOf(g, M)
    PROVE  /\ Exact(st, M, st[i] + Len(WritePacket(M[i])), Append(g, M[i]))
           /\ IsPrefixOf(Append(g, M[i]), M)
  <1> DEFINE k == Len(M)
             g2 == Append(g, M[i])
             n == Len(g)
  <1>1. M[i] \in Message /\ k \in Nat /\ n \in Nat /\ n <= k
    BY Lengths, LenProperties DEF IsPrefixOf
  <1>2. \A a \in 1..k : IF a <= n THEN st[a] < st[i] ELSE st[i] <= st[a]
    BY DEF Exact
  <1>3. PICK l \in Nat : l = Len(WritePacket(M[i])) /\ 6 <= l
    BY Lengths
  <1>4. \A a \in 1..k : st[a] \in Nat /\ (a < i <=> st[a] < st[i]) /\ (i < a <=> st[i] < st[a])
                        /\ (i < a => st[i] + l <= st[a])
    <2> TAKE a \in 1..k
    <2>1. st[a] \in Nat
      BY Lengths
    <2>2. (a < i <=> st[a] < st[i]) /\ (i < a <=> st[i] < st[a])
      BY Ordered
    <2>3. i < a => st[i] + l <= st[a]
      BY <1>3, Lengths
    <2> QED
      BY <2>1, <2>2, <2>3
  <1>5. /\ g2 \in Seq(Message) /\ Len(g2) = n + 1 /\ g2[n + 1] = M[i]
        /\ \A a \in 1..n : g2[a] = g[a]
    BY <1>1
  <1>6. g = SubSeq(M, 1, n)
    BY DEF IsPrefixOf
  <1>7. i \in 1..k
    OBVIOUS
  <1> HIDE DEF g2, k, n
  <1>8. i = n + 1
    <2>1. ~(i <= n)
      <3>1. st[i] \in Nat
        BY <1>4, <1>7
      <3> QED
        BY <1>2, <1>7, <3>1
    <2>2. ~(n + 1 < i)
      <3>1. SUFFICES ASSUME n + 1 < i PROVE FALSE
        OBVIOUS
      <3>2. n + 1 \in 1..k /\ ~(n + 1 <= n)
        BY <1>1, <1>7, <3>1
      <3>3. st[i] <= st[n + 1] /\ st[n + 1] < st[i] /\ st[n + 1] \in Nat /\ st[i] \in Nat
        BY <1>2, <1>4, <1>7, <3>1, <3>2
      <3> QED
        BY <3>3
    <2> QED
      BY <1>1, <1>7, <2>1, <2>2
  <1>9. ASSUME NEW a \in 1..k
        PROVE  IF a <= n + 1 THEN st[a] < st[i] + l ELSE st[i] + l <= st[a]
    <2>1. st[a] \in Nat /\ st[i] \in Nat
      BY <1>4, <1>7
    <2>2. CASE a <= n
      <3>1. st[a] < st[i] /\ a <= n + 1
        BY <1>1, <1>2, <2>2
      <3> QED
        BY <1>3, <2>1, <3>1
    <2>3. CASE a = n + 1
      BY <1>1, <1>3, <1>8, <2>1, <2>3
    <2>4. CASE n + 1 < a
      <3>1. st[i] + l <= st[a]
        BY <1>4, <1>8, <2>4
      <3> QED
        BY <1>1, <2>4, <3>1
    <2> QED
      BY <1>1, <2>2, <2>3, <2>4
  <1>10. Exact(st, M, st[i] + l, g2)
    BY <1>5, <1>9 DEF Exact, k
  <1>11. g2 = SubSeq(M, 1, n + 1)
    <2> DEFINE t == SubSeq(M, 1, n + 1)
    <2>1. n + 1 <= Len(M)
      BY <1>1, <1>7, <1>8 DEF k
    <2>2. t \in Seq(Message) /\ Len(t) = n + 1 /\ \A a \in 1..(n + 1) : t[a] = M[a]
      BY <1>1, <2>1
    <2>3. \A a \in 1..n : SubSeq(M, 1, n)[a] = M[a]
      BY <1>1, <2>1
    <2> HIDE DEF t
    <2>4. ASSUME NEW a \in 1..(n + 1) PROVE g2[a] = t[a]
      <3>1. CASE a = n + 1
        BY <1>5, <1>8, <2>2, <3>1
      <3>2. CASE a # n + 1
        <4>1. a \in 1..n
          BY <1>1, <3>2
        <4> QED
          BY <1>5, <1>6, <2>2, <2>3, <4>1
      <3> QED
        BY <3>1, <3>2
    <2>5. g2 = t
      BY <1>5, <2>2, <2>4
    <2> QED
      BY <2>5 DEF t
  <1>12. n + 1 <= k
    BY <1>1, <1>7, <1>8
  <1>13. IsPrefixOf(g2, M)
    BY <1>5, <1>11, <1>12 DEF IsPrefixOf, k
  <1> QED
    BY <1>3, <1>10, <1>13 DEF g2
-----------------------------------------------------------------------------
(* The invariant of the streams. *)

Coming(h) == at["worker"] = h /\ pc["worker"] \in {"attach", "accepted"}
Alive(h) == h \in link_map \/ (at["recv"] = h /\ pc["recv"] = "recv") \/ Coming(h)
Holding(h) == at["recv"] = h /\ pc["recv"] \in {"find", "recv"}

(* The buffers of a link show the stream from pos on; its handler got some *)
(* of the packets before pos, and all of them while it can get more and    *)
(* no magic number was cut.                                                *)
Flow(h, S, st, pos) ==
    /\ Placed(S, st, meant[h], Len(meant[h]))
    /\ Line(S, pos, recv_map[h], taken[h], old_map[h], wire[h])
    /\ Chosen(st, meant[h], pos, got[h])
    /\ Holding(h) => Whole(st, meant[h], pos, recv_map[h])
    /\ h \notin cut => /\ IsPrefixOf(got[h], meant[h])
                       /\ Alive(h) => Exact(st, meant[h], pos, got[h])
Flows == \A h \in Handles : lib[h] # "unused" => \E S, st, pos : Flow(h, S, st, pos)

(* handle_recv_buff swaps only when it has taken all of the last swap.     *)
Untaken == pc["recv"] \in {"none", "idle", "swap", "exited"} => taken = Empty
Untouched == \A h \in Handles : lib[h] = "unused" => recv_map[h] = <<>> /\ got[h] = <<>> /\ h \notin cut

(* What the worker is about to hand on is still to be taken off the wire.  *)
Reading == pc["worker"] = "read" => wire[at["worker"]] # <<>>

StreamInv == LinkInv /\ TypeOK /\ Untaken /\ Untouched /\ Reading /\ Flows

Kept(h) ==
    /\ wire'[h] = wire[h] /\ old_map'[h] = old_map[h] /\ taken'[h] = taken[h]
    /\ recv_map'[h] = recv_map[h] /\ meant'[h] = meant[h] /\ got'[h] = got[h]
    /\ h \in cut' <=> h \in cut
    /\ Holding(h)' => Holding(h)
    /\ Alive(h)' => Alive(h)

LEMMA FlowKept ==
    ASSUME NEW h \in Handles, Flows, lib[h] # "unused", Kept(h)
    PROVE  (\E S, st, pos : Flow(h, S, st, pos))'
  <1>1. PICK S, st, pos : Flow(h, S, st, pos)
    BY DEF Flows
  <1>2. Flow(h, S, st, pos)'
    BY <1>1 DEF Flow, Kept
  <1> QED
    BY <1>2

(* A link whose flow is kept, or shown; the others are not used.           *)
LEMMA FlowsKept ==
    ASSUME LinkInv, [Next]_vars, Flows,
           \A h \in Handles : \/ lib[h] # "unused" /\ Kept(h)
                              \/ lib'[h] = "unused"
                              \/ (\E S, st, pos : Flow(h, S, st, pos))'
    PROVE  Flows'
  BY FlowKept DEF Flows

LEMMA LibUsed ==
    ASSUME LinkInv, [Next]_vars, NEW h \in Handles, lib'[h] = "unused"
    PROVE  lib[h] = "unused"
  BY LibMoves

LEMMA LibUnused ==
    ASSUME LinkInv, [Next]_vars, NEW h \in Handles, lib[h] = "unused"
    PROVE  lib'[h] = "unused" \/ Accept(h)
  <1>1. \A t \in Threads : at[t] # h
    BY ThreadNames DEF LinkInv, Fresh, Unknown, Alone
  <1> QED
    BY <1>1, LibMoves DEF Threads

(* A link being accepted has no packets yet; handle_recv_buff does not     *)
(* bring one about.                                                        *)
LEMMA NotComing ==
    ASSUME LinkInv, NEW h \in Handles, Coming(h)
    PROVE  at["recv"] # h /\ lib[h] # "unused" /\ Unknown(h)
  BY DEF LinkInv, Fresh, Alone, Unknown, Coming, Announcing

LEMMA ComingStays ==
    ASSUME LinkInv, [Next]_vars, NEW h \in Handles
    PROVE  /\ Coming(h)' => Coming(h) \/ Accept(h)
           /\ ~Worker => (Coming(h)' <=> Coming(h))
           /\ ~Worker => pc'["worker"] = pc["worker"] /\ at'["worker"] = at["worker"]
  <1>1. h # 0
    BY NoZero
  <1> QED
    BY <1>1, WorkerStays DEF Coming

(* What does not touch the bytes of a link does not disturb its flow. *)
LEMMA RecvStill ==
    ASSUME LinkInv, [Next]_vars, ~Take, ~Parse, ~Find, ~Recv, NEW h \in Handles
    PROVE  /\ Holding(h)' => Holding(h)
           /\ Alive(h)' => Alive(h) \/ Accept(h)
  <1>0. ControlTypes /\ Paths
    BY DEF LinkInv
  <1>a. "worker" \in Threads /\ "recv" \in Threads /\ "owner" \in Threads
    BY DEF Threads
  <1>1. \/ pc'["recv"] = pc["recv"] /\ at'["recv"] = at["recv"]
        \/ pc'["recv"] \notin {"find", "recv"}
    <2>1. CASE Ending("recv")
      BY <1>0, <1>a, <2>1, EndingMoves DEF Paths
    <2>2. CASE Ending("worker") \/ Ending("owner")
      BY <1>0, <1>a, <2>2, EndingMoves DEF Moved
    <2>3. ASSUME Worker, ~Ending("worker") PROVE pc'["recv"] = pc["recv"] /\ at'["recv"] = at["recv"]
      BY <1>0, <1>a, <2>3, WorkerMoves DEF Moved
    <2>4. ASSUME Owner, ~Ending("owner"), ~InitMgr
          PROVE  pc'["recv"] = pc["recv"] /\ at'["recv"] = at["recv"]
      BY <1>0, <1>a, <2>4, OwnerMoves DEF Moved
    <2>5. CASE Poll \/ Swap \/ DropRef
      <3>1. \E p \in {"exited", "swap", "take", "parse"}, f \in {"idle", "swap", "drop"} : Goto("recv", f, p)
        BY <2>5 DEF Poll, Swap, DropRef
      <3> QED
        BY <1>0, <1>a, <3>1, Stays
    <2>6. CASE InitMgr
      BY <1>0, <1>a, <2>6 DEF InitMgr, ControlTypes
    <2>7. CASE UNCHANGED vars
      BY <2>7 DEF vars
    <2> QED
      BY <2>1, <2>2, <2>3, <2>4, <2>5, <2>6, <2>7 DEF Next, HandleRecvBuff
  <1>2. h \in link_map' => h \in link_map \/ Coming(h)
    BY MapMoves DEF Coming
  <1>3. Coming(h)' => Coming(h) \/ Accept(h)
    BY ComingStays
  <1> QED
    BY <1>1, <1>2, <1>3 DEF Holding, Alive

Bytes == <<wire, old_map, taken, recv_map, meant, got, cut>>

LEMMA OtherSteps ==
    ASSUME [Next]_vars, ~Receive, ~\E h \in Handles : Accept(h),
           ~Swap, ~Take, ~Parse, ~Find, ~Recv
    PROVE  UNCHANGED Bytes
  BY DEF Bytes, Next, Worker, HandleRecvBuff, Owner, Ending, vars, bufVars, histVars,
     Del, Remove, Hook, Release, Attach, LinkCreate, Read, Disconnect, ReadEnd, Post, WorkerExits, Poll,
     DropRef, InitMgr, UnInit, Joined, Collect, Unlisten, Stop, Stopped, Down,
     OwnerStep, Destroy

LEMMA SemStep ==
    ASSUME sem \in Nat, thread_break \in BOOLEAN, [Next]_vars
    PROVE  sem' \in Nat /\ thread_break' \in BOOLEAN
  <1>1. ASSUME NEW t \in Threads, Ending(t) PROVE UNCHANGED <<sem, thread_break>>
    BY <1>1 DEF Ending, Del, Remove, Hook, Release, bufVars
  <1>2. ASSUME Worker, ~Ending("worker") PROVE (sem' = sem \/ sem' = sem + 1) /\ thread_break' = thread_break
    BY <1>2 DEF Worker, Accept, Attach, LinkCreate, Read, Receive, Disconnect, ReadEnd, Post, WorkerExits, bufVars
  <1>3. ASSUME HandleRecvBuff, ~Ending("recv")
        PROVE  sem' = sem \/ (sem > 0 /\ sem' = sem - 1)
    BY <1>3 DEF HandleRecvBuff, Poll, Swap, Take, Parse, Find, Recv, DropRef, bufVars
  <1>4. ASSUME HandleRecvBuff, ~Ending("recv") PROVE thread_break' = thread_break
    BY <1>4 DEF HandleRecvBuff, Poll, Swap, Take, Parse, Find, Recv, DropRef, bufVars
  <1>5. ASSUME Owner, ~Ending("owner") PROVE sem' = sem /\ (thread_break' = thread_break \/ thread_break' = TRUE)
    BY <1>5 DEF Owner, InitMgr, UnInit, Joined, Collect, Unlisten, Stop, Stopped, Down,
       OwnerStep, Destroy, bufVars
  <1>6. UNCHANGED vars => UNCHANGED <<sem, thread_break>>
    BY DEF vars, bufVars
  <1>7. sem' = sem \/ sem' = sem + 1 \/ (sem > 0 /\ sem' = sem - 1)
    BY <1>1, <1>2, <1>3, <1>5, <1>6, Zenon DEF Next, Threads
  <1>8. thread_break' = thread_break \/ thread_break' = TRUE
    BY <1>1, <1>2, <1>4, <1>5, <1>6, Zenon DEF Next, Threads
  <1>9. sem' \in Nat
    BY <1>7
  <1> QED
    BY <1>8, <1>9

DataTypes ==
    /\ wire \in [Handles -> Seq(Seq(Cell))]
    /\ old_map \in [Handles -> Seq(Cell)] /\ taken \in [Handles -> Seq(Cell)]
    /\ recv_map \in [Handles -> Seq(Cell)]
    /\ meant \in [Handles -> Seq(Message)] /\ got \in [Handles -> Seq(Message)]
    /\ cut \subseteq Handles

(* What each step has to show. *)
StreamStep == DataTypes' /\ Untaken' /\ Untouched' /\ Flows'

LEMMA ReadingStep ==
    ASSUME StreamInv, [Next]_vars
    PROVE  Reading'
  <1>0. ControlTypes /\ Paths /\ LinkInv /\ Reading /\ "worker" \in Threads
    BY DEF StreamInv, LinkInv, Threads
  <1> SUFFICES ASSUME pc'["worker"] = "read" PROVE wire'[at'["worker"]] # <<>>
    BY DEF Reading
  <1>1. ~Receive /\ ~\E h \in Handles : Accept(h)
    <2>1. Receive => pc'["worker"] \in {"idle", "post"}
      BY <1>0, Stays DEF Receive
    <2>2. ASSUME NEW h \in Handles, Accept(h) PROVE pc'["worker"] = "attach"
      BY <1>0, <2>2, EnterIs DEF Accept
    <2> QED
      BY <2>1, <2>2
  <1>2. wire' = wire
    BY <1>1 DEF Next, Worker, HandleRecvBuff, Owner, Ending, vars,
       Del, Remove, Hook, Release, Attach, LinkCreate, Read, Disconnect, ReadEnd, Post, WorkerExits,
       Poll, Swap, Take, Parse, Find, Recv, DropRef, InitMgr, UnInit, Joined, Collect, Unlisten, Stop,
       Stopped, Down, OwnerStep, Destroy
  <1>3. CASE ~Worker
    <2>1. pc'["worker"] = pc["worker"] /\ at'["worker"] = at["worker"]
      BY <1>0, <1>3, WorkerStays
    <2> QED
      BY <1>0, <1>2, <2>1 DEF Reading
  <1>4. CASE Worker
    <2>1. ASSUME NEW h \in Handles, Read(h) PROVE wire[h] # <<>> /\ at'["worker"] = h
      BY <1>0, <2>1, EnterIs DEF Read, Loops
    <2>2. ~Ending("worker")
      BY <1>0, EndingMoves DEF Paths
    <2>3. \E h \in Handles : Read(h)
      <3>1. pc["worker"] = "idle"
        BY <1>0, <1>4, <2>2, WorkerMoves
      <3>2. ~Attach /\ ~LinkCreate /\ ~Post
        BY <3>1 DEF Attach, LinkCreate, Post, Goto, Enter
      <3>3. ASSUME NEW h \in Handles, Disconnect(h) \/ ReadEnd(h) PROVE FALSE
        <4>1. pc'["worker"] \in {"remove", "del"}
          BY <1>0, <3>3, EnterIs DEF Disconnect, ReadEnd
        <4> QED
          BY <4>1
      <3>4. ~WorkerExits
        <4>1. WorkerExits => pc'["worker"] = "exited"
          BY <1>0, Stays DEF WorkerExits
        <4> QED
          BY <4>1
      <3> QED
        BY <1>1, <1>4, <2>2, <3>2, <3>3, <3>4 DEF Worker
    <2> QED
      BY <1>2, <2>1, <2>3
  <1> QED
    BY <1>3, <1>4

LEMMA OtherStep ==
    ASSUME StreamInv, [Next]_vars, ~Receive, ~\E h \in Handles : Accept(h),
           ~Swap, ~Take, ~Parse, ~Find, ~Recv
    PROVE  StreamStep
  <1>0. LinkInv /\ TypeOK /\ Untaken /\ Untouched /\ Flows /\ ControlTypes /\ Paths
    BY DEF StreamInv, LinkInv
  <1>1. UNCHANGED Bytes
    BY OtherSteps
  <1>2. DataTypes' /\ DataTypes
    BY <1>0, <1>1 DEF TypeOK, DataTypes, Bytes
  <1>3. Untouched'
    BY <1>0, <1>1, LibUsed DEF Untouched, Bytes
  <1>4. pc'["recv"] \in {"none", "idle", "swap", "exited"}
            => pc["recv"] \in {"none", "idle", "swap", "exited"}
    <2>a. "worker" \in Threads /\ "recv" \in Threads /\ "owner" \in Threads
      BY DEF Threads
    <2>1. CASE Ending("recv")
      BY <1>0, <2>a, <2>1, EndingMoves DEF Paths
    <2>2. CASE Ending("worker") \/ Ending("owner")
      BY <1>0, <2>a, <2>2, EndingMoves DEF Moved
    <2>3. ASSUME Worker, ~Ending("worker") PROVE pc'["recv"] = pc["recv"]
      BY <1>0, <2>a, <2>3, WorkerMoves DEF Moved
    <2>4. ASSUME Owner, ~Ending("owner"), ~InitMgr PROVE pc'["recv"] = pc["recv"]
      BY <1>0, <2>a, <2>4, OwnerMoves DEF Moved
    <2>5. CASE Poll
      <3>1. pc["recv"] = "idle"
        BY <2>5 DEF Poll, Goto, Enter
      <3> QED
        BY <3>1
    <2>6. CASE DropRef
      <3>1. Goto("recv", "drop", "parse")
        BY <2>6 DEF DropRef
      <3> QED
        BY <1>0, <2>a, <3>1, Stays
    <2>7. CASE InitMgr
      BY <2>7 DEF InitMgr
    <2>8. CASE UNCHANGED vars
      BY <2>8 DEF vars
    <2> QED
      BY <2>1, <2>2, <2>3, <2>4, <2>5, <2>6, <2>7, <2>8 DEF Next, HandleRecvBuff
  <1>5. Untaken'
    BY <1>0, <1>1, <1>4 DEF Untaken, Bytes, Empty
  <1>6. ASSUME NEW h \in Handles PROVE Kept(h) 
    <2>1. (Holding(h)' => Holding(h)) /\ (Alive(h)' => Alive(h))
      BY <1>0, RecvStill
    <2> QED
      BY <1>1, <2>1 DEF Kept, Bytes
  <1>7. Flows'
    <2>1. ASSUME NEW h \in Handles PROVE lib[h] # "unused" \/ lib'[h] = "unused"
      BY <1>0, LibUnused
    <2> QED
      BY <1>0, <1>6, <2>1, FlowsKept
  <1> QED
    BY <1>2, <1>3, <1>5, <1>7 DEF StreamStep
(* Neither the worker nor the owner moves handle_recv_buff on. *)
LEMMA WorkerStill ==
    ASSUME StreamInv, [Next]_vars, NEW h \in Handles, Accept(h) \/ Receive
    PROVE  /\ pc'["recv"] = pc["recv"] /\ at'["recv"] = at["recv"]
           /\ taken' = taken /\ recv_map' = recv_map /\ got' = got /\ cut' = cut
           /\ link_map' = link_map
           /\ \A g \in Handles : Holding(g)' <=> Holding(g)
  <1>1. ControlTypes /\ Paths /\ Worker /\ "worker" \in Threads /\ "recv" \in Threads
    BY DEF StreamInv, LinkInv, Worker, Threads
  <1>2. pc'["recv"] = pc["recv"] /\ at'["recv"] = at["recv"]
    <2>1. CASE Accept(h)
      <3>1. Enter("worker", "idle", "attach", h, "none")
        BY <2>1 DEF Accept
      <3> QED
        BY <1>1, <3>1, EnterIs
    <2>2. CASE Receive
      <3>1. Goto("worker", "read", "post") \/ Goto("worker", "read", "idle")
        BY <2>2 DEF Receive
      <3> QED
        BY <1>1, <3>1, Stays
    <2> QED
      BY <2>1, <2>2
  <1>3. /\ taken' = taken /\ recv_map' = recv_map /\ got' = got /\ cut' = cut
        /\ link_map' = link_map
    BY DEF Accept, Receive, bufVars, histVars
  <1> QED
    BY <1>2, <1>3 DEF Holding

LEMMA FlowStarts ==
    ASSUME NEW s, Means(s), s.packets \in Seq(Message)
    PROVE  \E S, st : /\ Placed(S, st, s.packets, Len(s.packets))
                      /\ Line(S, 0, <<>>, <<>>, <<>>, s.reads)
                      /\ Chosen(st, s.packets, 0, <<>>) /\ Exact(st, s.packets, 0, <<>>)
                      /\ IsPrefixOf(<<>>, s.packets)
  <1>1. PICK S, st : Placed(S, st, s.packets, Len(s.packets)) /\ Reads(S, 0, s.reads)
    BY DEF Means
  <1> DEFINE M == s.packets
  <1>2. /\ S \in Seq(Nat) /\ Len(S) \in Nat /\ Len(M) \in Nat
        /\ \A i \in 1..Len(M) : st[i] \in Nat
    BY <1>1, LenProperties DEF Placed, Packed, Spaced
  <1> HIDE DEF M
  <1>3. Len(<<>>) = 0 /\ <<>> \in Seq(Nat) /\ 0 + 0 = 0 /\ 0 <= Len(S) /\ \A j \in 1..0 : FALSE
    BY <1>2, EmptySeq
  <1>4. Shows(S, 0, <<>>)
    BY <1>3 DEF Shows
  <1>5. Line(S, 0, <<>>, <<>>, <<>>, s.reads)
    BY <1>1, <1>3, <1>4 DEF Line
  <1>6. Chosen(st, M, 0, <<>>)
    <2>1. [i \in 1..0 |-> 1] \in [1..0 -> 1..Len(M)]
      BY <1>3
    <2> QED
      BY <1>3, <2>1 DEF Chosen
  <1>7. IsPrefixOf(<<>>, M)
    <2>1. M \in Seq(Message)
      BY DEF M
    <2>2. SubSeq(M, 1, 0) = <<>>
      BY <2>1
    <2> QED
      BY <1>2, <1>3, <2>2 DEF IsPrefixOf
  <1>8. Exact(st, M, 0, <<>>)
    <2>1. \A i \in 1..Len(M) : ~(i <= 0) /\ 0 <= st[i]
      BY <1>2
    <2> QED
      BY <1>3, <2>1 DEF Exact
  <1> QED
    BY <1>1, <1>5, <1>6, <1>7, <1>8 DEF M

LEMMA AcceptStep ==
    ASSUME StreamsAreMeant, StreamInv, NEW h \in Handles, Accept(h)
    PROVE  StreamStep
  <1>0. /\ LinkInv /\ TypeOK /\ DataTypes /\ Untaken /\ Untouched /\ Flows /\ ControlTypes /\ Fresh
        /\ [Next]_vars
    BY DEF StreamInv, LinkInv, TypeOK, DataTypes, Next, Worker
  <1>1. /\ pc'["recv"] = pc["recv"] /\ at'["recv"] = at["recv"]
        /\ taken' = taken /\ recv_map' = recv_map /\ got' = got /\ cut' = cut
        /\ \A g \in Handles : Holding(g)' <=> Holding(g)
    BY <1>0, WorkerStill
  <1>2. /\ lib[h] = "unused" /\ old_map' = old_map
        /\ lib' = [lib EXCEPT ![h] = "registered"] /\ link_map' = link_map
        /\ at'["worker"] = h
    BY <1>0, EnterIs DEF Accept, bufVars, Loops, Threads
  <1>3. PICK s \in Streams[h] : wire' = [wire EXCEPT ![h] = s.reads] /\ meant' = [meant EXCEPT ![h] = s.packets]
    BY DEF Accept
  <1>4. s.reads \in Seq(Seq(Cell)) /\ s.packets \in Seq(Message) /\ Means(s)
    BY LinkMgrAssumption DEF Handles, StreamsAreMeant
  <1>5. wire'[h] = s.reads /\ meant'[h] = s.packets
    BY <1>0, <1>3 DEF DataTypes
  <1>6. DataTypes'
    BY <1>0, <1>1, <1>2, <1>3, <1>4 DEF DataTypes
  <1>7. Untaken' /\ Untouched'
    BY <1>0, <1>1, <1>2, LibUsed DEF Untaken, Untouched, Empty
  <1>8. ASSUME NEW g \in Handles, g # h, lib[g] # "unused" PROVE Kept(g)
    <2>1. wire'[g] = wire[g] /\ meant'[g] = meant[g]
      BY <1>0, <1>3, <1>8 DEF DataTypes
    <2>2. Alive(g)' => Alive(g)
      BY <1>1, <1>2, <1>8 DEF Alive, Coming
    <2> QED
      BY <1>1, <1>2, <2>1, <2>2 DEF Kept
  <1>9. /\ old_map'[h] = <<>> /\ taken'[h] = <<>> /\ recv_map'[h] = <<>> /\ got'[h] = <<>>
        /\ ~Holding(h)'
    BY <1>0, <1>1, <1>2 DEF Fresh, Unknown, Alone, Untouched, Holding, Threads
  <1>10. (\E S, st, pos : Flow(h, S, st, pos))'
    <2>1. PICK S, st : /\ Placed(S, st, s.packets, Len(s.packets))
                       /\ Line(S, 0, <<>>, <<>>, <<>>, s.reads)
                       /\ Chosen(st, s.packets, 0, <<>>) /\ Exact(st, s.packets, 0, <<>>)
                       /\ IsPrefixOf(<<>>, s.packets)
      BY <1>4, FlowStarts
    <2>2. Flow(h, S, st, 0)'
      BY <1>5, <1>9, <2>1 DEF Flow
    <2> QED
      BY <2>2
  <1>11. ASSUME NEW g \in Handles, g # h, lib[g] = "unused" PROVE lib'[g] = "unused"
    BY <1>0, <1>2, <1>11 DEF ControlTypes
  <1>12. Flows'
    BY <1>0, <1>8, <1>10, <1>11, FlowsKept
  <1> QED
    BY <1>6, <1>7, <1>12 DEF StreamStep

LEMMA ReceiveStep ==
    ASSUME StreamInv, NEW h \in Handles, h = at["worker"], Receive
    PROVE  StreamStep
  <1>0. /\ LinkInv /\ TypeOK /\ DataTypes /\ Untaken /\ Untouched /\ Flows /\ ControlTypes /\ Fresh
        /\ [Next]_vars
    BY DEF StreamInv, LinkInv, TypeOK, DataTypes, Next, Worker
  <1>1. /\ pc'["recv"] = pc["recv"] /\ at'["recv"] = at["recv"]
        /\ taken' = taken /\ recv_map' = recv_map /\ got' = got /\ cut' = cut
        /\ \A g \in Handles : Holding(g)' <=> Holding(g)
    BY <1>0, WorkerStill
  <1>a. pc["worker"] = "read" /\ lib' = lib /\ link_map' = link_map /\ meant' = meant
        /\ wire' = [wire EXCEPT ![h] = Tail(@)]
    BY DEF Receive, libVars, histVars, Goto, Enter
  <1>b. lib[h] # "unused" /\ wire[h] # <<>>
    BY <1>0, <1>a DEF StreamInv, Reading, Fresh, Unknown, Alone
  <1>2. /\ lib[h] # "unused" /\ lib' = lib /\ link_map' = link_map /\ meant' = meant /\ wire[h] # <<>>
        /\ wire' = [wire EXCEPT ![h] = Tail(@)]
    BY <1>a, <1>b
  <1>c. \A g \in Handles : ~Coming(g)'
    <2>1. pc'["worker"] \in {"idle", "post"}
      BY <1>0, Stays DEF Receive, Threads
    <2> QED
      BY <2>1 DEF Coming
  <1> DEFINE data == Passed(Head(wire[h]))
  <1>3. old_map' = [old_map EXCEPT ![h] = @ \o data]
    BY DEF Receive
  <1>4. wire[h] \in Seq(Seq(Nat)) /\ Head(wire[h]) \in Seq(Nat) /\ Tail(wire[h]) \in Seq(Seq(Nat))
    BY <1>0, <1>2 DEF DataTypes, Cell
  <1>5. data \in Seq(Nat)
    BY <1>4 DEF Passed
  <1>6. old_map[h] \in Seq(Nat)
    BY <1>0 DEF DataTypes, Cell
  <1> HIDE DEF data
  <1>7. old_map' \in [Handles -> Seq(Nat)] /\ wire' \in [Handles -> Seq(Seq(Nat))]
    <2>1. old_map[h] \o data \in Seq(Nat)
      BY <1>5, <1>6
    <2>2. old_map \in [Handles -> Seq(Nat)] /\ wire \in [Handles -> Seq(Seq(Nat))]
      BY <1>0 DEF DataTypes, Cell
    <2> QED
      BY <1>2, <1>3, <1>4, <2>1, <2>2
  <1>8. DataTypes'
    BY <1>0, <1>1, <1>2, <1>7 DEF DataTypes, Cell
  <1>9. Untaken' /\ Untouched'
    BY <1>0, <1>1, <1>2 DEF Untaken, Untouched, Empty
  <1>10. old_map'[h] = old_map[h] \o data /\ wire'[h] = Tail(wire[h])
    <2>1. old_map[h] \o <<>> = old_map[h]
      BY <1>6
    <2> QED
      BY <1>0, <1>2, <1>3, <2>1 DEF DataTypes
  <1>11. ASSUME NEW g \in Handles, g # h PROVE Kept(g)
    <2>1. wire'[g] = wire[g] /\ old_map'[g] = old_map[g]
      BY <1>0, <1>2, <1>3, <1>11 DEF DataTypes
    <2>2. Alive(g)' => Alive(g)
      BY <1>1, <1>2, <1>c DEF Alive
    <2> QED
      BY <1>1, <1>2, <2>1, <2>2 DEF Kept
  <1>12. PICK S, st, pos : Flow(h, S, st, pos)
    BY <1>0, <1>2 DEF Flows
  <1>13. Line(S, pos, recv_map[h], taken[h], old_map[h] \o data, Tail(wire[h]))
    <2>1. Line(S, pos, recv_map[h], taken[h], old_map[h], wire[h])
      BY <1>12 DEF Flow
    <2>2. CASE DataStatus = "STATUS_RECV_END"
      <3>1. data = Head(wire[h])
        BY <2>2 DEF data, Passed
      <3> QED
        BY <1>2, <2>1, <2>2, <3>1, LineReceived
    <2>3. CASE DataStatus # "STATUS_RECV_END"
      <3>1. data = <<>>
        BY <2>3 DEF data, Passed
      <3>2. old_map[h] \o data = old_map[h]
        BY <1>6, <3>1
      <3> QED
        BY <2>1, <2>3, <3>2 DEF Line
    <2> QED
      BY <2>2, <2>3
  <1>14. Flow(h, S, st, pos)'
    <2>1. Alive(h)' => Alive(h)
      BY <1>1, <1>2, <1>c DEF Alive
    <2> QED
      BY <1>1, <1>2, <1>10, <1>12, <1>13, <2>1 DEF Flow
  <1>15. Flows'
    <2>1. \A g \in Handles : lib[g] # "unused" \/ lib'[g] = "unused"
      BY <1>2
    <2> QED
      BY <1>0, <1>11, <1>14, <2>1, FlowsKept
  <1> QED
    BY <1>8, <1>9, <1>15 DEF StreamStep
(* What a step of handle_recv_buff leaves alone. *)
LEMMA RecvComes ==
    ASSUME LinkInv, Swap \/ Take \/ Parse \/ Find \/ Recv
    PROVE  \A h \in Handles : Coming(h)' <=> Coming(h)
  <1>1. ControlTypes /\ Paths /\ HandleRecvBuff /\ "worker" \in Threads /\ "recv" \in Threads
    BY DEF LinkInv, HandleRecvBuff, Threads
  <1>2. pc["recv"] \notin EndPlaces \cup {"del"}
    BY DEF Swap, Take, Parse, Find, Recv, Goto, Enter, EndPlaces
  <1>3. ~Ending("recv")
    BY <1>1, <1>2, EndingMoves DEF EndPlaces
  <1> QED
    BY <1>1, <1>3, RecvMoves DEF Moved, Coming
LEMMA RecvKeeps ==
    ASSUME LinkInv, Swap \/ Take \/ Parse \/ Find
    PROVE  /\ lib' = lib /\ wire' = wire /\ link_map' = link_map
           /\ meant' = meant /\ got' = got
           /\ \A h \in Handles : Coming(h)' <=> Coming(h)
  <1>1. /\ lib' = lib /\ wire' = wire /\ link_map' = link_map
        /\ meant' = meant /\ got' = got
    BY DEF Swap, Take, Parse, Find, libVars, histVars
  <1>2. \A h \in Handles : Coming(h)' <=> Coming(h)
    BY RecvComes DEF HandleRecvBuff
  <1> QED
    BY <1>1, <1>2

LEMMA SwapStep ==
    ASSUME StreamInv, Swap
    PROVE  StreamStep
  <1>0. /\ LinkInv /\ TypeOK /\ DataTypes /\ Untaken /\ Untouched /\ Flows /\ ControlTypes /\ Fresh
        /\ [Next]_vars /\ "recv" \in Threads
    BY DEF StreamInv, LinkInv, TypeOK, DataTypes, Next, HandleRecvBuff, Threads
  <1>1. /\ lib' = lib /\ wire' = wire /\ link_map' = link_map /\ meant' = meant /\ got' = got
        /\ \A g \in Handles : Coming(g)' <=> Coming(g)
        /\ cut' = cut /\ recv_map' = recv_map /\ taken' = old_map /\ old_map' = Empty
    BY <1>0, RecvKeeps DEF Swap, histVars
  <1>2. pc["recv"] = "swap" /\ pc'["recv"] = "take"
    <2>1. Goto("recv", "swap", "take")
      BY DEF Swap
    <2> QED
      BY <1>0, <2>1, Stays
  <1>3. taken = Empty
    BY <1>0, <1>2 DEF Untaken
  <1>4. DataTypes'
    <2>1. <<>> \in Seq(Cell)
      OBVIOUS
    <2> QED
      BY <1>0, <1>1, <2>1 DEF DataTypes, Empty
  <1>5. Untaken' /\ Untouched'
    BY <1>0, <1>1, <1>2 DEF Untaken, Untouched
  <1>6. ASSUME NEW h \in Handles, lib[h] # "unused"
        PROVE  (\E S, st, pos : Flow(h, S, st, pos))'
    <2>1. PICK S, st, pos : Flow(h, S, st, pos)
      BY <1>0, <1>6 DEF Flows
    <2>2. taken[h] = <<>> /\ old_map'[h] = <<>> /\ taken'[h] = old_map[h]
      BY <1>1, <1>3 DEF Empty
    <2>3. Line(S, pos, recv_map[h], old_map[h], <<>>, wire[h])
      BY <2>1, <2>2, LineSwapped DEF Flow
    <2>4. ~Holding(h)' /\ (Alive(h)' => Alive(h))
      BY <1>1, <1>2 DEF Holding, Alive
    <2>5. Flow(h, S, st, pos)'
      BY <1>1, <2>1, <2>2, <2>3, <2>4 DEF Flow
    <2> QED
      BY <2>5
  <1>7. Flows'
    BY <1>1, <1>6 DEF Flows
  <1> QED
    BY <1>4, <1>5, <1>7 DEF StreamStep

LEMMA TakeStep ==
    ASSUME StreamInv, Take
    PROVE  StreamStep
  <1>0. /\ LinkInv /\ TypeOK /\ DataTypes /\ Untaken /\ Untouched /\ Flows /\ ControlTypes /\ Fresh
        /\ [Next]_vars /\ "recv" \in Threads
    BY DEF StreamInv, LinkInv, TypeOK, DataTypes, Next, HandleRecvBuff, Threads
  <1>1. /\ lib' = lib /\ wire' = wire /\ link_map' = link_map /\ meant' = meant /\ got' = got
        /\ \A g \in Handles : Coming(g)' <=> Coming(g)
        /\ cut' = cut /\ old_map' = old_map
    BY <1>0, RecvKeeps DEF Take, histVars
  <1>2. ASSUME NEW g \in Handles PROVE pc'["recv"] \in {"parse", "idle"} => ~Holding(g)' /\ (Alive(g)' => Alive(g))
    BY <1>1 DEF Holding, Alive
  <1>3. CASE taken = Empty /\ Goto("recv", "take", "idle") /\ UNCHANGED <<taken, recv_map>>
    <2>1. pc'["recv"] = "idle"
      BY <1>0, <1>3, Stays
    <2>2. DataTypes' /\ Untaken' /\ Untouched'
      BY <1>0, <1>1, <1>3, <2>1 DEF DataTypes, Untaken, Untouched, Empty
    <2>3. \A h \in Handles : Kept(h)
      BY <1>1, <1>2, <1>3, <2>1 DEF Kept
    <2>4. Flows'
      <3>1. \A g \in Handles : lib[g] # "unused" \/ lib'[g] = "unused"
        BY <1>1
      <3> QED
        BY <1>0, <2>3, <3>1, FlowsKept
    <2> QED
      BY <2>2, <2>4 DEF StreamStep
  <1>4. ASSUME NEW h \in Handles, taken[h] # <<>>,
               recv_map' = [recv_map EXCEPT ![h] = @ \o taken[h]],
               taken' = [taken EXCEPT ![h] = <<>>],
               Enter("recv", "take", "parse", h, "none")
        PROVE  StreamStep
    <2>1. pc'["recv"] = "parse"
      BY <1>0, <1>4, EnterIs
    <2>2. recv_map[h] \in Seq(Cell) /\ taken[h] \in Seq(Cell) /\ <<>> \in Seq(Cell)
      BY <1>0 DEF DataTypes
    <2>3. recv_map[h] \o taken[h] \in Seq(Cell)
      BY <2>2
    <2>4. DataTypes'
      BY <1>0, <1>1, <1>4, <2>2, <2>3 DEF DataTypes
    <2>5. /\ recv_map'[h] = recv_map[h] \o taken[h] /\ taken'[h] = <<>>
          /\ \A g \in Handles \ {h} : recv_map'[g] = recv_map[g] /\ taken'[g] = taken[g]
      BY <1>0, <1>4 DEF DataTypes
    <2>6. lib[h] # "unused"
      BY <1>0, <1>4 DEF Fresh, Unknown, Alone
    <2>7. Untaken' /\ Untouched'
      BY <1>0, <1>1, <2>1, <2>5, <2>6 DEF Untaken, Untouched
    <2>8. ASSUME NEW g \in Handles, g # h PROVE Kept(g)
      BY <1>1, <1>2, <2>1, <2>5, <2>8 DEF Kept
    <2>9. (\E S, st, pos : Flow(h, S, st, pos))'
      <3>1. PICK S, st, pos : Flow(h, S, st, pos)
        BY <1>0, <2>6 DEF Flows
      <3>2. Line(S, pos, recv_map[h] \o taken[h], <<>>, old_map[h], wire[h])
        BY <3>1, LineTaken DEF Flow
      <3>3. Flow(h, S, st, pos)'
        BY <1>1, <1>2, <2>1, <2>5, <3>1, <3>2 DEF Flow
      <3> QED
        BY <3>3
    <2>10. Flows'
      <3>1. \A g \in Handles : lib[g] # "unused" \/ lib'[g] = "unused"
        BY <1>1
      <3> QED
        BY <1>0, <2>8, <2>9, <3>1, FlowsKept
    <2> QED
      BY <2>4, <2>7, <2>10 DEF StreamStep
  <1> QED
    BY <1>3, <1>4 DEF Take

LEMMA ParseStep ==
    ASSUME StreamInv, Parse
    PROVE  StreamStep
  <1>0. /\ LinkInv /\ TypeOK /\ DataTypes /\ Untaken /\ Untouched /\ Flows /\ ControlTypes /\ Fresh
        /\ [Next]_vars /\ "recv" \in Threads /\ Paths
    BY DEF StreamInv, LinkInv, TypeOK, DataTypes, Next, HandleRecvBuff, Threads
  <1>1. /\ lib' = lib /\ wire' = wire /\ link_map' = link_map /\ meant' = meant /\ got' = got
        /\ \A g \in Handles : Coming(g)' <=> Coming(g)
        /\ old_map' = old_map /\ taken' = taken
    BY <1>0, RecvKeeps DEF Parse
  <1>2. PICK h \in Handles : at["recv"] = h /\ pc["recv"] = "parse"
    BY <1>0 DEF Paths, Parse
  <1> DEFINE buf == recv_map[h]
  <1>3. PICK lucky \in BOOLEAN :
            LET rest == Drop(buf, Offset(buf, lucky)) IN
            /\ recv_map' = [recv_map EXCEPT ![h] = rest]
            /\ Goto("recv", "parse", IF rest # <<>> /\ Parses(rest, 0) THEN "find" ELSE "take")
            /\ cut' = IF rest = <<>> /\ buf # <<>> /\ IsCut(buf, Len(buf) - 1) THEN cut \cup {h} ELSE cut
    BY <1>2 DEF Parse
  <1> DEFINE o == Offset(buf, lucky)
             rest == Drop(buf, o)
  <1>4. /\ recv_map' = [recv_map EXCEPT ![h] = rest]
        /\ Goto("recv", "parse", IF rest # <<>> /\ Parses(rest, 0) THEN "find" ELSE "take")
        /\ cut' = IF rest = <<>> /\ buf # <<>> /\ IsCut(buf, Len(buf) - 1) THEN cut \cup {h} ELSE cut
    BY <1>3
  <1>5. buf \in Seq(Nat) /\ Len(buf) \in Nat
    BY <1>0, LenProperties DEF DataTypes, Cell
  <1>6. o \in 0..Len(buf)
    BY <1>5, OffsetIs
  <1>7. rest \in Seq(Nat)
    BY <1>5, <1>6, DropIs
  <1>8. PICK S, st, pos : Flow(h, S, st, pos)
    <2>1. lib[h] # "unused"
      BY <1>0, <1>2 DEF Fresh, Unknown, Alone
    <2> QED
      BY <1>0, <2>1 DEF Flows
  <1>9. /\ Placed(S, st, meant[h], Len(meant[h]))
        /\ Line(S, pos, buf, taken[h], old_map[h], wire[h]) /\ Shows(S, pos, buf)
        /\ Chosen(st, meant[h], pos, got[h])
    BY <1>8 DEF Flow, Line
  <1> DEFINE M == meant[h]
             k == Len(M)
  <1>10. \A i \in 1..k : pos <= st[i] =>
            \/ pos + o <= st[i]
            \/ rest = <<>> /\ buf # <<>> /\ IsCut(buf, Len(buf) - 1)
    BY <1>9, ScanPasses
  <1>11. rest # <<>> /\ Parses(rest, 0) => Whole(st, M, pos + o, rest)
    <2>1. SUFFICES ASSUME rest # <<>>, Parses(rest, 0) PROVE Whole(st, M, pos + o, rest)
      OBVIOUS
    <2>2. \E i \in 1..k : pos + o = st[i] /\ Len(WritePacket(M[i])) <= Len(rest)
      BY <1>9, <2>1, ScanMeets
    <2> QED
      BY <2>2 DEF Whole
  <1> HIDE DEF o
  <1>12. Line(S, pos + o, rest, taken[h], old_map[h], wire[h])
    BY <1>6, <1>9, LineDropped
  <1>13. pos \in Nat /\ pos + o \in Nat /\ pos <= pos + o
    BY <1>6, <1>9 DEF Shows
  <1>14. Chosen(st, M, pos + o, got[h])
    BY <1>9, <1>13, ChosenLater
  <1> HIDE DEF rest
  <1>15. /\ pc'["recv"] \in {"find", "take"} /\ at'["recv"] \in {h, 0}
         /\ pc'["recv"] = "find" => rest # <<>> /\ Parses(rest, 0)
    <2>1. CASE rest # <<>> /\ Parses(rest, 0)
      <3>1. Goto("recv", "parse", "find")
        BY <1>4, <2>1
      <3> QED
        BY <1>0, <1>2, <2>1, <3>1, Stays
    <2>2. CASE ~(rest # <<>> /\ Parses(rest, 0))
      <3>1. Goto("recv", "parse", "take")
        BY <1>4, <2>2
      <3> QED
        BY <1>0, <1>2, <3>1, Stays
    <2> QED
      BY <2>1, <2>2
  <1>16. /\ recv_map'[h] = rest
         /\ \A g \in Handles \ {h} : recv_map'[g] = recv_map[g]
    BY <1>0, <1>4 DEF DataTypes
  <1>17. cut' \subseteq cut \cup {h} /\ cut \subseteq cut'
    BY <1>4
  <1>18. DataTypes'
    BY <1>0, <1>1, <1>4, <1>7, <1>17 DEF DataTypes, Cell
  <1>19. Untaken' /\ Untouched'
    <2>1. lib[h] # "unused"
      BY <1>0, <1>2 DEF Fresh, Unknown, Alone
    <2> QED
      BY <1>0, <1>1, <1>15, <1>16, <1>17, <2>1 DEF Untaken, Untouched
  <1>20. ASSUME NEW g \in Handles, g # h PROVE Kept(g)
    <2>1. ~Holding(g)' /\ (Alive(g)' => Alive(g))
      BY <1>1, <1>15, <1>20, NoZero DEF Holding, Alive
    <2> QED
      BY <1>1, <1>16, <1>17, <1>20, <2>1 DEF Kept
  <1>21. h \notin cut' => /\ IsPrefixOf(got[h], M)
                          /\ Alive(h)' => Exact(st, M, pos + o, got[h])
    <2>1. SUFFICES ASSUME h \notin cut'
                   PROVE  IsPrefixOf(got[h], M) /\ (Alive(h)' => Exact(st, M, pos + o, got[h]))
      OBVIOUS
    <2>2. h \notin cut /\ ~(rest = <<>> /\ buf # <<>> /\ IsCut(buf, Len(buf) - 1))
      BY <1>4, <2>1
    <2>3. IsPrefixOf(got[h], M) /\ (Alive(h) => Exact(st, M, pos, got[h]))
      BY <1>8, <2>2 DEF Flow
    <2>4. Alive(h)' => Alive(h)
      BY <1>1, <1>15 DEF Alive
    <2>5. ASSUME Exact(st, M, pos, got[h]) PROVE Exact(st, M, pos + o, got[h])
      <3>1. ASSUME NEW i \in 1..k
            PROVE  IF i <= Len(got[h]) THEN st[i] < pos + o ELSE pos + o <= st[i]
        <4>1. st[i] \in Nat
          BY <1>9, Lengths
        <4>2. IF i <= Len(got[h]) THEN st[i] < pos ELSE pos <= st[i]
          BY <2>5 DEF Exact
        <4>3. pos <= st[i] => pos + o <= st[i]
          BY <1>10, <2>2
        <4> QED
          BY <1>13, <4>1, <4>2, <4>3
      <3> QED
        BY <3>1 DEF Exact
    <2> QED
      BY <2>3, <2>4, <2>5
  <1>22. Holding(h)' => Whole(st, M, pos + o, rest)
    BY <1>11, <1>15 DEF Holding
  <1>23. PICK q : Flow(h, S, st, q)'
    <2>1. PICK q : q = pos + o
      OBVIOUS
    <2>2. Flow(h, S, st, q)'
      BY <1>1, <1>9, <1>12, <1>14, <1>16, <1>21, <1>22, <2>1 DEF Flow
    <2> QED
      BY <2>2
  <1>24. Flows'
    <2>1. \A g \in Handles : lib[g] # "unused" \/ lib'[g] = "unused"
      BY <1>1
    <2>2. (\E T, s, p : Flow(h, T, s, p))'
      BY <1>23
    <2> QED
      BY <1>0, <1>20, <2>1, <2>2, FlowsKept
  <1> QED
    BY <1>18, <1>19, <1>24 DEF StreamStep
(* The packet at the head is the next to be dealt with. *)
LEMMA HeadIs ==
    ASSUME NEW S, NEW st, NEW M, Placed(S, st, M, Len(M)), NEW pos, NEW buf, Shows(S, pos, buf),
           Whole(st, M, pos, buf)
    PROVE  \E i \in 1..Len(M) :
               /\ pos = st[i] /\ Handed(buf) = M[i] /\ M[i] \in Message
               /\ TotalLen(buf, 0) = Len(WritePacket(M[i])) /\ TotalLen(buf, 0) \in 0..Len(buf)
               /\ pos + TotalLen(buf, 0) \in Nat /\ pos <= pos + TotalLen(buf, 0) /\ pos \in Nat
  <1>1. PICK i \in 1..Len(M) : pos = st[i] /\ Len(WritePacket(M[i])) <= Len(buf)
    BY DEF Whole
  <1>2. PICK n \in Nat : n = Len(WritePacket(M[i])) /\ 6 <= n
    BY Lengths
  <1>3. M[i] \in Message /\ pos \in Nat
    BY <1>1, Lengths
  <1>4. Writable(M[i]) /\ Lies(S, pos, WritePacket(M[i]))
    BY <1>1 DEF Placed, Packed, Spaced
  <1>5. Len(buf) \in Nat /\ 6 <= Len(buf)
    <2>1. Len(buf) \in Nat
      BY LenProperties DEF Shows
    <2> QED
      BY <1>1, <1>2, <2>1
  <1>6. TotalLen(buf, 0) = n /\ Handed(buf) = M[i]
    BY <1>1, <1>2, <1>4, <1>5, PacketThere
  <1>7. n \in 0..Len(buf) /\ pos + n \in Nat /\ pos <= pos + n
    BY <1>1, <1>2, <1>3, <1>5
  <1> QED
    BY <1>1, <1>2, <1>3, <1>6, <1>7

LEMMA FindStep ==
    ASSUME StreamInv, Find
    PROVE  StreamStep
  <1>0. /\ LinkInv /\ TypeOK /\ DataTypes /\ Untaken /\ Untouched /\ Flows /\ ControlTypes /\ Fresh
        /\ [Next]_vars /\ "recv" \in Threads /\ Paths
    BY DEF StreamInv, LinkInv, TypeOK, DataTypes, Next, HandleRecvBuff, Threads
  <1>1. /\ lib' = lib /\ wire' = wire /\ link_map' = link_map /\ meant' = meant /\ got' = got
        /\ \A g \in Handles : Coming(g)' <=> Coming(g)
        /\ old_map' = old_map /\ taken' = taken /\ cut' = cut
    BY <1>0, RecvKeeps DEF Find, histVars
  <1>2. PICK h \in Handles : at["recv"] = h /\ pc["recv"] = "find"
    BY <1>0 DEF Paths, Find, Goto, Enter
  <1>a. lib[h] # "unused"
    BY <1>0, <1>2 DEF Fresh, Unknown, Alone
  <1>3. pc'["recv"] \in {"recv", "parse"} /\ at'["recv"] = h
    <2>1. Goto("recv", "find", "recv") \/ Goto("recv", "find", "parse")
      BY DEF Find
    <2> QED
      BY <1>0, <1>2, <2>1, Stays DEF Loops
  <1>4. ASSUME NEW g \in Handles PROVE (Holding(g)' => Holding(g))
    BY <1>2, <1>3 DEF Holding
  <1>5. Untaken'
    BY <1>3 DEF Untaken
  <1>6. CASE h \in link_map
    <2>1. recv_map' = recv_map
      BY <1>2, <1>6 DEF Find
    <2>2. DataTypes' /\ Untouched'
      BY <1>0, <1>1, <2>1 DEF DataTypes, Untouched
    <2>3. ASSUME NEW g \in Handles PROVE Kept(g)
      <3>1. Alive(g)' => Alive(g)
        BY <1>1, <1>3, <1>6 DEF Alive
      <3> QED
        BY <1>1, <1>4, <2>1, <3>1 DEF Kept
    <2>4. Flows'
      <3>1. \A g \in Handles : lib[g] # "unused" \/ lib'[g] = "unused"
        BY <1>1
      <3> QED
        BY <1>0, <2>3, <3>1, FlowsKept
    <2> QED
      BY <1>5, <2>2, <2>4 DEF StreamStep
  <1>7. CASE h \notin link_map
    <2> DEFINE n == TotalLen(recv_map[h], 0)
    <2>1. recv_map' = [recv_map EXCEPT ![h] = Drop(@, TotalLen(@, 0))] /\ Goto("recv", "find", "parse")
      BY <1>2, <1>7 DEF Find
    <2>2. pc'["recv"] = "parse"
      BY <1>0, <2>1, Stays
    <2>3. PICK S, st, pos : Flow(h, S, st, pos)
      BY <1>0, <1>a DEF Flows
    <2>4. /\ Placed(S, st, meant[h], Len(meant[h]))
          /\ Line(S, pos, recv_map[h], taken[h], old_map[h], wire[h]) /\ Shows(S, pos, recv_map[h])
          /\ Chosen(st, meant[h], pos, got[h]) /\ Whole(st, meant[h], pos, recv_map[h])
      BY <1>2, <2>3 DEF Flow, Line, Holding
    <2>5. PICK i \in 1..Len(meant[h]) : n \in 0..Len(recv_map[h]) /\ pos + n \in Nat /\ pos <= pos + n /\ pos \in Nat
      BY <2>4, HeadIs
    <2>6. /\ recv_map'[h] = Drop(recv_map[h], n)
          /\ \A g \in Handles \ {h} : recv_map'[g] = recv_map[g]
      BY <1>0, <2>1 DEF DataTypes
    <2> HIDE DEF n
    <2>7. Line(S, pos + n, Drop(recv_map[h], n), taken[h], old_map[h], wire[h])
      BY <2>4, <2>5, LineDropped
    <2>8. Drop(recv_map[h], n) \in Seq(Nat)
      BY <2>7, LineTypes
    <2>9. DataTypes' /\ Untouched'
      <3>1. recv_map' \in [Handles -> Seq(Cell)]
        BY <1>0, <2>1, <2>8 DEF DataTypes, Cell, n
      <3> QED
        BY <1>0, <1>1, <1>a, <2>6, <3>1 DEF DataTypes, Untouched
    <2>10. Chosen(st, meant[h], pos + n, got[h])
      BY <2>4, <2>5, ChosenLater
    <2>11. ~Holding(h)' /\ ~Alive(h)'
      <3>1. ~Coming(h)'
        BY <1>0, <1>1, <1>2, NotComing
      <3> QED
        BY <1>1, <1>7, <2>2, <3>1 DEF Holding, Alive
    <2>12. (\E T, s, p : Flow(h, T, s, p))'
      <3>1. PICK q : q = pos + n
        OBVIOUS
      <3>2. Flow(h, S, st, q)'
        BY <1>1, <2>3, <2>4, <2>6, <2>7, <2>10, <2>11, <3>1 DEF Flow
      <3> QED
        BY <3>2
    <2>13. ASSUME NEW g \in Handles, g # h PROVE Kept(g)
      <3>1. Alive(g)' => Alive(g)
        BY <1>1, <2>2 DEF Alive
      <3> QED
        BY <1>1, <1>4, <2>6, <2>13, <3>1 DEF Kept
    <2>14. Flows'
      <3>1. \A g \in Handles : lib[g] # "unused" \/ lib'[g] = "unused"
        BY <1>1
      <3> QED
        BY <1>0, <2>12, <2>13, <3>1, FlowsKept
    <2> QED
      BY <1>5, <2>9, <2>14 DEF StreamStep
  <1> QED
    BY <1>6, <1>7

LEMMA RecvStep ==
    ASSUME StreamInv, Recv
    PROVE  StreamStep
  <1>0. /\ LinkInv /\ TypeOK /\ DataTypes /\ Untaken /\ Untouched /\ Flows /\ ControlTypes /\ Fresh
        /\ [Next]_vars /\ "recv" \in Threads /\ Paths
    BY DEF StreamInv, LinkInv, TypeOK, DataTypes, Next, HandleRecvBuff, Threads
  <1>2. PICK h \in Handles : at["recv"] = h /\ pc["recv"] = "recv"
    BY <1>0 DEF Paths, Recv
  <1>1. /\ lib' = lib /\ wire' = wire /\ link_map' = link_map /\ meant' = meant
        /\ old_map' = old_map /\ taken' = taken /\ cut' = cut
        /\ got' = [got EXCEPT ![h] = Append(@, Handed(recv_map[h]))]
        /\ recv_map' = [recv_map EXCEPT ![h] = Drop(@, TotalLen(@, 0))]
        /\ \A g \in Handles : Coming(g)' <=> Coming(g)
    BY <1>0, <1>2, RecvComes DEF Recv, libVars
  <1>a. lib[h] # "unused"
    BY <1>0, <1>2 DEF Fresh, Unknown, Alone
  <1>3. pc'["recv"] \in {"drop", "del"}
    <2>1. Goto("recv", "recv", "drop") \/ Enter("recv", "recv", "del", h, "drop")
      BY <1>2 DEF Recv
    <2> QED
      BY <1>0, <2>1, Stays, EnterIs
  <1>4. ASSUME NEW g \in Handles PROVE ~Holding(g)' /\ (Alive(g)' => Alive(g))
    BY <1>1, <1>3 DEF Holding, Alive
  <1>5. Untaken'
    BY <1>3 DEF Untaken
  <1> DEFINE n == TotalLen(recv_map[h], 0)
             M == meant[h]
  <1>6. PICK S, st, pos : Flow(h, S, st, pos)
    BY <1>0, <1>a DEF Flows
  <1>7. /\ Placed(S, st, M, Len(M))
        /\ Line(S, pos, recv_map[h], taken[h], old_map[h], wire[h]) /\ Shows(S, pos, recv_map[h])
        /\ Chosen(st, M, pos, got[h]) /\ Whole(st, M, pos, recv_map[h])
        /\ h \notin cut => IsPrefixOf(got[h], M) /\ Exact(st, M, pos, got[h])
    BY <1>2, <1>6 DEF Flow, Line, Holding, Alive
  <1>8. PICK i \in 1..Len(M) :
               /\ pos = st[i] /\ Handed(recv_map[h]) = M[i] /\ M[i] \in Message
               /\ n = Len(WritePacket(M[i])) /\ n \in 0..Len(recv_map[h])
    BY <1>7, HeadIs
  <1>9. got[h] \in Seq(Message) /\ M \in Seq(Message)
    BY <1>0 DEF DataTypes
  <1>10. /\ recv_map'[h] = Drop(recv_map[h], n) /\ got'[h] = Append(got[h], M[i])
         /\ \A g \in Handles \ {h} : recv_map'[g] = recv_map[g] /\ got'[g] = got[g]
    BY <1>0, <1>1, <1>8 DEF DataTypes
  <1>11. recv_map' = [recv_map EXCEPT ![h] = Drop(recv_map[h], n)]
         /\ got' = [got EXCEPT ![h] = Append(got[h], M[i])]
    BY <1>0, <1>1, <1>8 DEF DataTypes
  <1> HIDE DEF n
  <1>12. Line(S, pos + n, Drop(recv_map[h], n), taken[h], old_map[h], wire[h])
    BY <1>7, <1>8, LineDropped
  <1>13. Drop(recv_map[h], n) \in Seq(Nat) /\ Append(got[h], M[i]) \in Seq(Message)
    BY <1>8, <1>9, <1>12, LineTypes
  <1>14. DataTypes' /\ Untouched'
    <2>1. recv_map' \in [Handles -> Seq(Cell)] /\ got' \in [Handles -> Seq(Message)]
      BY <1>0, <1>11, <1>13 DEF DataTypes, Cell
    <2> QED
      BY <1>0, <1>1, <1>a, <1>10, <2>1 DEF DataTypes, Untouched
  <1>15. Chosen(st, M, pos + n, Append(got[h], M[i]))
    BY <1>7, <1>8, <1>9, ChosenMore
  <1>16. h \notin cut => /\ Exact(st, M, pos + n, Append(got[h], M[i]))
                         /\ IsPrefixOf(Append(got[h], M[i]), M)
    BY <1>7, <1>8, <1>9, ExactMore
  <1>17. (\E T, s, p : Flow(h, T, s, p))'
    <2>1. PICK q, g : q = pos + n /\ g = Append(got[h], M[i])
      OBVIOUS
    <2>2. Flow(h, S, st, q)'
      BY <1>1, <1>4, <1>7, <1>10, <1>12, <1>15, <1>16, <2>1 DEF Flow
    <2> QED
      BY <2>2
  <1>18. ASSUME NEW g \in Handles, g # h PROVE Kept(g)
    BY <1>1, <1>4, <1>10, <1>18 DEF Kept
  <1>19. Flows'
    <2>1. \A g \in Handles : lib[g] # "unused" \/ lib'[g] = "unused"
      BY <1>1
    <2> QED
      BY <1>0, <1>17, <1>18, <2>1, FlowsKept
  <1> QED
    BY <1>5, <1>14, <1>19 DEF StreamStep

LEMMA StreamInvStep ==
    ASSUME StreamsAreMeant
    PROVE  StreamInv /\ [Next]_vars => StreamInv'
  <1> SUFFICES ASSUME StreamInv, [Next]_vars PROVE StreamInv'
    OBVIOUS
  <1>1. StreamStep
    <2>1. CASE \E h \in Handles : Accept(h)
      BY <2>1, AcceptStep
    <2>3. CASE Receive
      <3>1. pc["worker"] = "read" /\ Paths
        BY <2>3 DEF Receive, Goto, Enter, StreamInv, LinkInv
      <3>2. at["worker"] \in Handles
        BY <3>1 DEF Paths, Threads
      <3> QED
        BY <2>3, <3>2, ReceiveStep
    <2>2. CASE Swap \/ Take \/ Parse \/ Find \/ Recv
      BY <2>2, SwapStep, TakeStep, ParseStep, FindStep, RecvStep
    <2> QED
      BY <2>1, <2>2, <2>3, OtherStep
  <1>2. LinkInv'
    BY LinkInvStep DEF StreamInv
  <1>3. sem' \in Nat /\ thread_break' \in BOOLEAN
    BY SemStep DEF StreamInv, TypeOK
  <1>4. TypeOK'
    BY <1>1, <1>2, <1>3 DEF TypeOK, StreamStep, DataTypes, LinkInv
  <1>5. Reading'
    BY ReadingStep
  <1> QED
    BY <1>1, <1>2, <1>4, <1>5 DEF StreamInv, StreamStep

LEMMA StreamInvInit == Init => StreamInv
  <1> SUFFICES ASSUME Init PROVE StreamInv
    OBVIOUS
  <1>1. LinkInv
    BY LinkInvInit
  <1>2. <<>> \in Seq(Cell) /\ <<>> \in Seq(Seq(Cell)) /\ <<>> \in Seq(Message)
    OBVIOUS
  <1>3. TypeOK
    BY <1>1, <1>2 DEF Init, LinkInv, TypeOK, Empty
  <1>4. Untaken /\ Untouched /\ Reading /\ Flows
    BY DEF Init, Untaken, Untouched, Reading, Flows, Empty, Threads
  <1> QED
    BY <1>1, <1>3, <1>4 DEF StreamInv

(* The buffers of every link show its stream without a gap, whatever the   *)
(* threads do meanwhile.                                                   *)
THEOREM StreamInvariant == ASSUME StreamsAreMeant PROVE Spec => []StreamInv
  BY StreamInvInit, StreamInvStep, PTL DEF Spec

(* Every variable keeps its type, and what is handed on is a message.      *)
THEOREM TypeCorrect == ASSUME StreamsAreMeant PROVE Spec => []TypeOK
  <1>1. StreamInv => TypeOK
    BY DEF StreamInv
  <1> QED
    BY <1>1, StreamInvariant, PTL

(* A handler gets the packets its peer means, in their order, each once    *)
(* and whole, however the stream is cut into reads and the reads meet the  *)
(* swaps of handle_recv_buff; it misses one only if a magic number was cut *)
(* (handle_recv_buff, parse_data, link_recv_data).                         *)
THEOREM InOrderDelivery == ASSUME StreamsAreMeant PROVE Spec => []PacketsInOrder
  <1>1. StreamInv => PacketsInOrder
    <2> SUFFICES ASSUME StreamInv, NEW h \in Handles
                 PROVE  IF h \in cut THEN IsPartOf(got[h], meant[h]) ELSE IsPrefixOf(got[h], meant[h])
      BY DEF PacketsInOrder
    <2>1. CASE lib[h] # "unused"
      <3>1. PICK S, st, pos : Flow(h, S, st, pos)
        BY <2>1 DEF StreamInv, Flows
      <3>2. IsPartOf(got[h], meant[h])
        BY <3>1, ChosenIsPart DEF Flow
      <3> QED
        BY <3>1, <3>2 DEF Flow
    <2>2. CASE lib[h] = "unused"
      <3>1. got[h] = <<>> /\ h \notin cut /\ meant[h] \in Seq(Message)
        BY <2>2 DEF StreamInv, Untouched, TypeOK
      <3>2. Len(<<>>) = 0 /\ SubSeq(meant[h], 1, 0) = <<>> /\ Len(meant[h]) \in Nat
        BY <3>1
      <3> QED
        BY <3>1, <3>2 DEF IsPrefixOf
    <2> QED
      BY <2>1, <2>2
  <1> QED
    BY <1>1, StreamInvariant, PTL
=============================================================================
