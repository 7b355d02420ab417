-------------------------- MODULE InventoryContract --------------------------
(***************************************************************************)
(* What InventorySvc promises to those who read it: the snapshot changes as  *)
(* a whole, and shows for each host something that was true of it at some    *)
(* moment of the sync that made the snapshot, or that nothing was seen.      *)
(***************************************************************************)
CONSTANTS
    Hosts,
    States,     \* what a host can be seen to be
    Blind,      \* the one of them that means: nobody sees the host
    Nothing     \* no snapshot yet

VARIABLES
    runs,       \* what each host is
    shown,      \* the snapshot, a function of the hosts, or Nothing
    since,      \* what each host has been since the sync began
    excused     \* the service is being stopped: a host may be missed

view == <<runs, shown, since, excused>>

Init ==
    /\ runs \in [Hosts -> States]
    /\ since = [h \in Hosts |-> {runs[h]}]
    /\ shown = Nothing /\ excused = FALSE

Change(h) ==
    /\ \E s \in States : runs' = [runs EXCEPT ![h] = s]
    /\ since' = [since EXCEPT ![h] = @ \cup {runs'[h]}]
    /\ UNCHANGED <<shown, excused>>

SyncBegins ==
    /\ since' = [h \in Hosts |-> {runs[h]}]
    /\ UNCHANGED <<runs, shown, excused>>

Publish ==
    /\ shown' \in [Hosts -> States]
    /\ \A h \in Hosts : shown'[h] \in since[h] \cup (IF excused THEN {Blind} ELSE {})
    /\ UNCHANGED <<runs, since, excused>>

Stopping == excused' = TRUE /\ UNCHANGED <<runs, shown, since>>

\* The snapshot is kept in memory.
Lost ==
    /\ shown' = Nothing /\ excused' = FALSE
    /\ UNCHANGED <<runs, since>>

Next ==
    \/ \E h \in Hosts : Change(h)
    \/ SyncBegins \/ Publish \/ Stopping \/ Lost

Spec == Init /\ [][Next]_view
==============================================================================
