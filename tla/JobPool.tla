------------------------------- MODULE JobPool -------------------------------
(***************************************************************************)
(* What the reconcile queue promises: accepted jobs are begun in the order   *)
(* of their acceptance, each once, at most Width of them run at a time, and  *)
(* the pool closes only when every accepted job has ended.                  *)
(***************************************************************************)
EXTENDS Naturals, Sequences, FiniteSets

CONSTANTS Jobs, Width

VARIABLES
    backlog,    \* accepted, not begun, in order
    active,     \* begun, not ended
    ended,
    closed

pool == <<backlog, active, ended, closed>>

Init == backlog = << >> /\ active = {} /\ ended = {} /\ closed = FALSE

Known == {backlog[i] : i \in DOMAIN backlog} \cup active \cup ended

Accept(j) ==
    /\ ~closed /\ j \notin Known
    /\ backlog' = Append(backlog, j)
    /\ UNCHANGED <<active, ended, closed>>

Begin ==
    /\ backlog # << >> /\ Cardinality(active) < Width
    /\ active' = active \cup {Head(backlog)}
    /\ backlog' = Tail(backlog)
    /\ UNCHANGED <<ended, closed>>

End(j) ==
    /\ active' = active \ {j} /\ ended' = ended \cup {j}
    /\ UNCHANGED <<backlog, closed>>

Close ==
    /\ backlog = << >> /\ active = {}
    /\ closed' = TRUE
    /\ UNCHANGED <<backlog, active, ended>>

Next ==
    \/ \E j \in Jobs : Accept(j)
    \/ Begin
    \/ \E j \in active : End(j)
    \/ Close

Spec == Init /\ [][Next]_pool
==============================================================================
