-------------------------- MODULE DetectionContract --------------------------
(***************************************************************************)
(* What DriftDetectorSvc promises, without saying how: cycles exclude each  *)
(* other, the service becomes ready only from inside a cycle and stays so,  *)
(* and a (component, FQDN) key is granted, from inside a cycle, at moments  *)
(* at least Cooldown apart.  A new process starts from nothing.             *)
(***************************************************************************)
EXTENDS Integers

CONSTANTS Key, Cooldown

VARIABLES
    busy,       \* a cycle runs
    ready,
    granted,    \* [Key -> the moment of its last grant, or -1]
    now

contract == <<busy, ready, granted, now>>

Nothing == [k \in Key |-> -1]

Init == busy = FALSE /\ ready = FALSE /\ granted = Nothing /\ now = 0

BeginCycle == ~busy /\ busy' = TRUE /\ UNCHANGED <<ready, granted, now>>

EndCycle == busy /\ busy' = FALSE /\ UNCHANGED <<ready, granted, now>>

BecomeReady == busy /\ ready' = TRUE /\ UNCHANGED <<busy, granted, now>>

\* A grant is dated from a moment of the past: the decision, not the reply.
Grant(k) ==
    /\ busy
    /\ \E at \in 0..now :
        /\ granted[k] = -1 \/ at - granted[k] >= Cooldown
        /\ granted' = [granted EXCEPT ![k] = at]
    /\ UNCHANGED <<busy, ready, now>>

NewProcess ==
    /\ busy' = FALSE /\ ready' = FALSE /\ granted' = Nothing
    /\ UNCHANGED now

Pass == now' = now + 1 /\ UNCHANGED <<busy, ready, granted>>

Next ==
    \/ BeginCycle \/ EndCycle \/ BecomeReady \/ NewProcess \/ Pass
    \/ \E k \in Key : Grant(k)

Spec == Init /\ [][Next]_contract
==============================================================================
