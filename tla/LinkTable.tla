----------------------------- MODULE LinkTable -----------------------------
(***************************************************************************)
(* What an application may rely on of the handles of a link table, told    *)
(* without threads, sockets or events.  A handle is registered, then       *)
(* announced (CREATED or ACCEPTED), then unregistered, and is never used   *)
(* for another link; CLOSED is only ever said of a handle that is gone.    *)
(***************************************************************************)
EXTENDS Naturals

CONSTANT Handles    \* given out in ascending order

VARIABLES phase,    \* of each handle
          told,     \* handles the application has heard of
          closed    \* handles of which it has been told CLOSED

tableVars == <<phase, told, closed>>

TableInit ==
    /\ phase = [h \in Handles |-> "unborn"]
    /\ told = {}
    /\ closed = {}

Register(h) ==
    /\ phase[h] = "unborn"
    /\ \A g \in Handles : g < h => phase[g] # "unborn"
    /\ phase' = [phase EXCEPT ![h] = "registered"]
    /\ UNCHANGED <<told, closed>>

Announce(h) ==
    /\ phase[h] = "registered"
    /\ phase' = [phase EXCEPT ![h] = "announced"]
    /\ told' = told \cup {h}
    /\ UNCHANGED closed

Unregister(h) ==
    /\ phase[h] = "announced"
    /\ phase' = [phase EXCEPT ![h] = "gone"]
    /\ UNCHANGED <<told, closed>>

SayClosed(h) ==
    /\ phase[h] = "gone"
    /\ closed' = closed \cup {h}
    /\ UNCHANGED <<phase, told>>

TableNext == \E h \in Handles : Register(h) \/ Announce(h) \/ Unregister(h) \/ SayClosed(h)

TableSpec == TableInit /\ [][TableNext]_tableVars
=============================================================================
