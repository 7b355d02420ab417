------------------------------ MODULE HostReport ------------------------------
(***************************************************************************)
(* From what runs on a host to the verdict about it: the host's cAdvisor     *)
(* replies in one of its forms, InventorySvc decodes the reply and publishes *)
(* the host, DriftDetectorSvc finds it for a desired host and asks its       *)
(* detectors.  The inventory's answer grows host by host.                    *)
(***************************************************************************)
EXTENDS Detectors, FiniteSets

CONSTANTS
    Trim, Base,         \* as in CadvisorSource
    IncludeSystem,      \* includeSystemWorkloads
    System,             \* cgroups that cAdvisor shows beside the containers of docker
    Docker,             \* a component's container, in every way cAdvisor may show it
    Failures,           \* what may come instead of an answer
    Ids, FQDNs,         \* the names of hosts
    WorkloadLists,      \* what a desired host may want
    MaxHosts            \* bound on the inventory answer

Cad == INSTANCE CadvisorSource WITH Text <- Spelling

------------------------------------------------------------------------------
(* The replies of a host's cAdvisor *)

\* What is left of a container that says nothing of itself.
Nothing == [name |-> Blank, aliases |-> << >>, namespace |-> Blank, image |-> Blank,
            hasStats |-> FALSE]

Array(cs) == [form |-> "array", items |-> cs]
Object(members, self) == [form |-> "object", members |-> members, self |-> self]

\* The map from names to containers, which do not repeat their name.
Map(cs) ==
    Object([k \in {c.name : c \in cs} |-> [(CHOOSE c \in cs : c.name = k) EXCEPT !.name = Blank]],
           Nothing)

Single(c) == Object([k \in {"name"} |-> Cad!Scalar], c)

Reply(body) == [status |-> "200", body |-> body]

\* No answer, another status, no JSON of a known form, or an object that tells of an error.
Fails(r) ==
    \/ r.status # "200"
    \/ r.body.form \notin {"array", "object"}
    \/ r.body.form = "object" /\ r.body.self = Nothing
       /\ \E k \in DOMAIN r.body.members : r.body.members[k] = Cad!Scalar

\* A container has a name; the first of its aliases that names anything is docker's name for
\* it.  Cgroups of the system have neither image nor namespace, if they are not the root.
ASSUME ReportAssumption ==
    /\ Cad!TextAssumption /\ Registered = Components
    /\ \A s \in Components \cup {"ok", "error", "disabled", "unknown", "container"} :
            s \in Spelling \ {Blank} /\ Fold[s] = s
    /\ \A s \in Spelling : Trim[Trim[s]] = Trim[s]
    /\ Trim[Blank] = Blank
    /\ System \subseteq Cad!Containers
    /\ \A c \in System : Trim[c.name] = "/" \/ (Trim[c.image] = Blank /\ Trim[c.namespace] = Blank)
    /\ Docker \in [Components -> SUBSET Cad!Containers]
    /\ \A c \in Components : \A x \in Docker[c] :
        /\ Trim[x.name] # "/" /\ Trim[x.image] # Blank
        /\ \E i \in DOMAIN x.aliases :
            /\ Fold[Base[Trim[x.aliases[i]]]] = c
            /\ \A j \in 1..(i - 1) : Base[Trim[x.aliases[j]]] = Blank
    /\ \A x \in System \cup UNION {Docker[c] : c \in Components} : Trim[x.name] # Blank
    /\ \A x, y \in System : x.name = y.name => x = y
    /\ \A c \in Components : \A x \in Docker[c], y \in System : x.name # y.name
    /\ \A c, d \in Components : \A x \in Docker[c], y \in Docker[d] : c # d => x.name # y.name
    /\ \A r \in Failures : Fails(r)
    /\ Ids \subseteq Spelling /\ FQDNs \subseteq Spelling /\ WorkloadLists \subseteq Seq(Workloads)
    /\ MaxHosts \in Nat

\* The cgroups of the system, and one container of each component.
SeenContainers(components) ==
    {System \cup {shown[c] : c \in components} :
        shown \in {f \in [components -> UNION {Docker[c] : c \in components}] :
                        \A c \in components : f[c] \in Docker[c]}}

Replies(components) ==
    {Reply(Array(cs)) : cs \in SeenContainers(components)} \cup
    {Reply(Map(cs)) : cs \in SeenContainers(components)}

------------------------------------------------------------------------------
(* The inventory answer *)

VARIABLES
    hosts,      \* ActualState.Hosts
    running,    \* the components that run as containers, the same on every host
    reply,      \* what cAdvisor says of them
    sources     \* what InventorySvc publishes of its sources

vars == <<hosts, running, reply, sources>>

Collected == Cad!CollectHost(reply)

Source(on, status) == [x \in {"cadvisor"} |-> [enabled |-> on, status |-> status]]

\* The workloads of a host, in any order.
Listed == {w.name : w \in UNION Collected}
Lists == {s \in [1..Cardinality(UNION Collected) -> Listed] : Range(s) = Listed}

Inventory == [id : Ids, fqdn : FQDNs, sources : {sources}, workloads : Lists]

Desired == [id : Ids, fqdn : FQDNs, workloads : WorkloadLists]

\* A source that was not read is in error, disabled, or not known.
Init ==
    /\ hosts = << >>
    /\ running \in SUBSET Components
    /\ reply \in Replies(running) \cup Failures
    /\ sources \in IF Collected # {} THEN {Source(TRUE, "ok")}
                   ELSE {Source(TRUE, "error"), Source(FALSE, "disabled"), << >>}

Next ==
    /\ Len(hosts) < MaxHosts
    /\ \E h \in Inventory : hosts' = Append(hosts, h)
    /\ UNCHANGED <<running, reply, sources>>

Spec == Init /\ [][Next]_vars

------------------------------------------------------------------------------
(* Properties *)

Same(x, y) == Fold[x] # Blank /\ Fold[x] = Fold[y]

\* Reference definition of the match of indexActualHosts and lookupActualHost: among
\* the hosts of that id, or failing them of that FQDN, the last one.
LookupIsReference ==
    \A d \in Desired :
        LET named   == {i \in DOMAIN hosts : Same(hosts[i].id, d.id)}
            fqdned  == {i \in DOMAIN hosts : Same(hosts[i].fqdn, d.fqdn)}
            matches == IF named # {} THEN named ELSE fqdned
            found   == LookupActualHost(d, hosts)
        IN  IF matches = {} THEN found = 0
            ELSE found \in matches /\ \A i \in matches : i <= found

\* The two detectors tell the truth about a host, and agree about it: when its cAdvisor
\* was read, whatever form its reply had, a wanted component drifts exactly when it has
\* no container running; when it was not, cadvisor has to be bootstrapped, node_exporter
\* is left alone, and what is not wanted in a container never drifts.  Of several
\* workloads of one name the first says what is wanted.
VerdictIsTrue ==
    \A d \in Desired :
        LET i == LookupActualHost(d, hosts)
            drifts(c) == Detect(c, d, hosts[i]) = "drift"
            names(c) == {j \in DOMAIN d.workloads : Same(d.workloads[j].name, c)}
            wanted(c) == \E j \in names(c) :
                            /\ \A k \in names(c) : j <= k
                            /\ d.workloads[j].enabled /\ Same(d.workloads[j].mode, "container")
        IN  i # 0 =>
            IF reply \in Failures
            THEN drifts(Cadvisor) = wanted(Cadvisor) /\ ~drifts(NodeExporter)
            ELSE \A c \in Components : drifts(c) = (wanted(c) /\ c \notin running)

\* cAdvisor's three forms of an answer are read alike: an array of containers as the map
\* that names them, and one container as the array of it alone.  Without the system's
\* cgroups one workload is left of each container.
FormsAgree ==
    \A cs \in SeenContainers(running) :
        /\ Cad!CollectHost(Reply(Array(cs))) = Cad!CollectHost(Reply(Map(cs)))
        /\ \A c \in cs : Cad!CollectHost(Reply(Single(c))) =
                         Cad!CollectHost(Reply(Array({c})))
        /\ \A ws \in Cad!CollectHost(Reply(Array(cs))) :
                ~IncludeSystem => Cardinality(ws) = Cardinality(running)
==============================================================================
