------------------------------ MODULE MCPlatform ------------------------------
(***************************************************************************)
(* An instance of Platform for TLC: a host that is to have both components,  *)
(* spelled differently by the two services.                                 *)
(***************************************************************************)
EXTENDS Platform

MCSpelling == {"", "srv-1", "SRV-1", "a.local", "A.local",
               "node_exporter", "cadvisor", "container", "ok", "error"}
MCFold == [s \in MCSpelling |->
            CASE s = "SRV-1" -> "srv-1" [] s = "A.local" -> "a.local" [] OTHER -> s]
MCSourceViews == {Source("ok"), Source("error")}

Want(c) == [name |-> c, enabled |-> TRUE, mode |-> "container"]
MCDesired == <<[id |-> "srv-1", fqdn |-> "a.local",
                workloads |-> <<Want("cadvisor"), Want("node_exporter")>>]>>
MCSeeds == <<[id |-> "SRV-1", fqdn |-> "A.local"]>>
Order == <<"node_exporter", "cadvisor">>
==============================================================================
