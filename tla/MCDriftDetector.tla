--------------------------- MODULE MCDriftDetector ---------------------------
(***************************************************************************)
(* Instances of DriftDetector for TLC.                                      *)
(***************************************************************************)
EXTENDS DriftDetector

CONSTANTS m1, m2, r1

MCSpelling == {"", "srv-1", "SRV-1", "srv-2", "a.local", "A.local", "b.local",
               "node_exporter", "cadvisor", "container", "host", "ok", "error"}
MCFold == [s \in MCSpelling |->
            CASE s = "SRV-1" -> "srv-1" [] s = "A.local" -> "a.local" [] OTHER -> s]

Want(c) == [name |-> c, enabled |-> TRUE, mode |-> "container"]
Both    == <<Want("cadvisor"), Want("node_exporter")>>

Source(status) == [x \in {"cadvisor"} |-> [enabled |-> TRUE, status |-> status]]
MCSourceViews == {Source("ok"), Source("error")}
Host(id, fqdn, status, workloads) ==
    [id |-> id, fqdn |-> fqdn, sources |-> Source(status), workloads |-> workloads]

EnabledCadvisor == <<"cadvisor">>
EnabledExporter == <<"node_exporter">>

------------------------------------------------------------------------------
(* One host, spelled differently by the two services. *)

OneDesired == {[ready |-> TRUE,
                hosts |-> <<[id |-> "srv-1", fqdn |-> "a.local", workloads |-> Both]>>]}
OneActual ==
    {[isPartial |-> TRUE,  hosts |-> <<Host("SRV-1", "A.local", "error", << >>)>>],
     [isPartial |-> FALSE, hosts |-> <<Host("SRV-1", "A.local", "ok", <<"cadvisor">>)>>]}

\* Only cadvisor's drift, for the runs about time and retries.
DownActual ==
    {[isPartial |-> TRUE,  hosts |-> <<Host("srv-1", "a.local", "error", << >>)>>]}

------------------------------------------------------------------------------
(* Two hosts, of which the answers name one or none, or a parser that is not ready. *)

TwoDesired == {[ready |-> TRUE,
                hosts |-> <<[id |-> "srv-1", fqdn |-> "a.local", workloads |-> Both],
                            [id |-> "srv-2", fqdn |-> "b.local", workloads |-> Both]>>],
               [ready |-> FALSE, hosts |-> << >>]}
SomeActual == OneActual \cup {[isPartial |-> FALSE, hosts |-> << >>]}
==============================================================================
