---------------------------- MODULE MCAnsibleRuns ----------------------------
(***************************************************************************)
(* Instances of AnsibleRuns for TLC: two jobs for one container and one for  *)
(* another host.                                                            *)
(***************************************************************************)
EXTENDS AnsibleRuns, TLC

CONSTANTS j1, j2, j3, h1, h2

MCTarget    == j1 :> h1 @@ j2 :> h1 @@ j3 :> h2
MCComponent == [j \in Jobs |-> "cadvisor"]
==============================================================================
