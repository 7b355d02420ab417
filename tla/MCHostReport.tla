----------------------------- MODULE MCHostReport -----------------------------
(***************************************************************************)
(* An instance of HostReport for TLC: the texts, the containers as docker    *)
(* and cAdvisor show them, and the workloads of the desired hosts.           *)
(***************************************************************************)
EXTENDS HostReport

MCSpelling == {"", " ", "srv-1", "SRV-1", "a.local", "A.local", "b.local", "container",
               "node_exporter", "cadvisor", "Cadvisor", "/cadvisor", "ok", "error",
               "disabled", "host", "/", "/docker", "/docker/1", "/docker/2",
               "/system.slice/cadvisor", "1", "2", "docker", "image", "unknown"}
MCFold == [s \in MCSpelling |->
            CASE s = "SRV-1" -> "srv-1" [] s = "A.local" -> "a.local"
              [] s = "Cadvisor" -> "cadvisor" [] s = " " -> "" [] OTHER -> s]
MCTrim == [s \in MCSpelling |-> IF s = " " THEN "" ELSE s]
MCBase == [s \in MCSpelling |->
            CASE s \in {"/", " "} -> "" [] s = "/docker" -> "docker"
              [] s = "/docker/1" -> "1" [] s = "/docker/2" -> "2"
              [] s \in {"/cadvisor", "/system.slice/cadvisor"} -> "cadvisor"
              [] OTHER -> s]

Container(name, aliases, namespace, image) ==
    [name |-> name, aliases |-> aliases, namespace |-> namespace, image |-> image,
     hasStats |-> FALSE]

\* cgroups of the host, one of them of a service with the name of a component.
MCSystem == {[Container("/", << >>, "", "") EXCEPT !.hasStats = TRUE],
             Container("/docker", << >>, " ", ""),
             Container("/system.slice/cadvisor", << >>, "", " ")}

MCDocker ==
    [c \in Components |->
        IF c = Cadvisor
        THEN {Container("/docker/1", aliases, "docker", "image") :
                aliases \in {<<"cadvisor", "1">>, <<" ", "/cadvisor">>, <<"/", "Cadvisor">>}}
        ELSE {Container("/docker/2", <<"node_exporter", "2">>, "docker", "image")}]

MCFailures ==
    {[status |-> "timeout"], [status |-> "500"], Reply([form |-> "other"]),
     Reply(Object([k \in {"error"} |-> Cad!Scalar], Nothing))}

Workload(c, on, mode) == [name |-> c, enabled |-> on, mode |-> mode]

\* The last of them wants a component twice.
MCWorkloadLists ==
    {<<Workload("Cadvisor", TRUE, "container"), Workload("node_exporter", TRUE, "container")>>,
     <<Workload("node_exporter", TRUE, "host"), Workload("cadvisor", FALSE, "container")>>,
     <<Workload("cadvisor", TRUE, "container"), Workload("Cadvisor", FALSE, "container"),
       Workload("node_exporter", TRUE, " ")>>}
==============================================================================
