---------------------------- MODULE ManifestMapper ----------------------------
(***************************************************************************)
(* ParserSvc's mapper: from a Structurizr manifest to the desired hosts.     *)
(*                                                                         *)
(* A manifest is a table of its deployment nodes, in which a node names its  *)
(* children.  A property's value is a JSON value: [t |-> its type, v |-> it]. *)
(* A conversion that may fail returns the set of its result: one element, or *)
(* none when the code returns an error.                                      *)
(***************************************************************************)
EXTENDS Integers, SequencesExt

CONSTANTS
    Text,           \* the texts that occur
    Trim, Lower,    \* [Text -> Text]: strings.TrimSpace, strings.ToLower
    Numeral,        \* the decimal numerals of Text, and the number of each: strconv.Atoi
    Decimal,        \* the whole numbers that occur, and the text of each: strconv.FormatInt
    InternalKeys    \* the property keys that begin with "structurizr."

ASSUME TextAssumption ==
    /\ Trim \in [Text -> Text] /\ Lower \in [Text -> Text] /\ {"", "true", "false"} \subseteq Text
    /\ \A s \in Text : Trim[Trim[s]] = Trim[s] /\ Trim[Lower[Trim[s]]] = Lower[Trim[s]]
    /\ \A s \in {"", "true", "false"} : Trim[s] = s /\ Lower[s] = s
    /\ DOMAIN Numeral \subseteq Text /\ \A s \in DOMAIN Numeral : Numeral[s] \in Int
    /\ \A n \in DOMAIN Decimal : n \in Int /\ Decimal[n] \in Text \ {"", "container"}
                                          /\ Lower[Decimal[n]] = Decimal[n]

------------------------------------------------------------------------------
(* Values *)

normalizeString(value) ==
    CASE value.t = "string"                -> {Trim[value.v]}
      [] value.t = "number"                -> {Decimal[value.v]}
      [] value.t = "fraction"              -> {value.v}
      [] value.t = "bool"                  -> {IF value.v THEN "true" ELSE "false"}
      [] value.t = "null"                  -> {""}
      [] value.t = "nested"                -> {}

normalizeBool(value) ==
    CASE value.t = "bool"   -> {value.v}
      [] value.t = "string" ->
            {b \in BOOLEAN : Lower[Trim[value.v]] \in
                                IF b THEN {"true", "1", "yes", "y"} ELSE {"false", "0", "no", "n"}}
      [] value.t = "number" -> {b \in BOOLEAN : value.v = IF b THEN 1 ELSE 0}
      [] OTHER              -> {}

normalizeInt(value) ==
    CASE value.t = "number" -> {value.v}
      [] value.t = "string" -> {Numeral[s] : s \in {Trim[value.v]} \cap DOMAIN Numeral}
      [] OTHER              -> {}

getRequiredString(properties, key) ==
    UNION {normalizeString(properties[k]) \ {""} : k \in {key} \cap DOMAIN properties}

getRequiredBool(properties, key) ==
    UNION {normalizeBool(properties[k]) : k \in {key} \cap DOMAIN properties}

\* Its callers drop the error, and take the empty string that comes with it.
getOptionalString(properties, key) ==
    LET given == UNION {normalizeString(properties[k]) : k \in {key} \cap DOMAIN properties}
    IN  IF given = {} THEN {""} ELSE given

\* A pointer: << >> is nil.  A value that is there but cannot be converted is an error.
optional(properties, key, Convert(_)) ==
    IF key \in DOMAIN properties THEN {<<x>> : x \in Convert(properties[key])} ELSE {<< >>}

NoBlank(text) == IF text = <<"">> THEN << >> ELSE text

------------------------------------------------------------------------------
(* Hosts and workloads *)

HostKeys == {"host_id", "fqdn", "ip", "env", "managed_by", "purpose"}

extractLabels(p, env, managedBy, purpose) ==
    (UNION {{<<k, v>> : v \in normalizeString(p[k]) \ {""}} :
                k \in DOMAIN p \ (HostKeys \cup InternalKeys)})
    \cup {<<"env", env>>, <<"managed_by", managedBy>>, <<"purpose", purpose>>}

\* validator.ValidateHost asks again what getRequiredString has seen to.
mapHost(p) ==
    {[hostID |-> id, fqdn |-> fqdn, ip |-> ip, env |-> env, managedBy |-> by, purpose |-> purpose,
      labels |-> extractLabels(p, env, by, purpose), workloads |-> << >>] :
        id  \in getRequiredString(p, "host_id"), fqdn \in getRequiredString(p, "fqdn"),
        env \in getRequiredString(p, "env"), by \in getRequiredString(p, "managed_by"),
        purpose \in getRequiredString(p, "purpose"), ip \in getOptionalString(p, "ip")}

\* The last of the containers of one id; a container with a blank id has no entry.
buildContainerMap(m) ==
    LET Id(i) == Trim[m.containers[i].id]
        last(id) == CHOOSE i \in DOMAIN m.containers :
                        Id(i) = id /\ \A j \in DOMAIN m.containers : Id(j) = id => j <= i
    IN  [id \in {Id(i) : i \in DOMAIN m.containers} \ {""} |-> Trim[m.containers[last(id)].name]]

ValidateWorkload(w) == Lower[w.deploymentMode] = "container" => w.image # ""

mapWorkload(instance, containerNamesByID) ==
    LET p == instance.properties
        names == {containerNamesByID[id] :
                    id \in {Trim[instance.containerID]} \cap DOMAIN containerNamesByID}
    IN  {w \in {[name |-> name, enabled |-> enabled, deploymentMode |-> mode, image |-> image,
                 version |-> NoBlank(version), port |-> port] :
                    name \in names \ {""}, enabled \in getRequiredBool(p, "enabled"),
                    mode \in getRequiredString(p, "deployment_mode"),
                    image \in getOptionalString(p, "image"),
                    port \in optional(p, "port", normalizeInt),
                    version \in optional(p, "version", normalizeString)} :
            ValidateWorkload(w)}

------------------------------------------------------------------------------
(* The manifest *)

\* Mutation only: deploymentNodes are taken for want of children only.
ChildrenOrNodes(node) == IF node.children = << >> THEN node.deploymentNodes ELSE node.children

ChildNodes(node) == node.children \o node.deploymentNodes

\* A node, and the nodes below it in the order walkDeploymentNode comes to them, whether or
\* not it maps them.
walkDeploymentNode(m) ==
    LET walk[n \in DOMAIN m.nodes] ==
            <<n>> \o FlattenSeq([i \in DOMAIN ChildNodes(m.nodes[n]) |->
                                    walk[ChildNodes(m.nodes[n])[i]]])
    IN  walk

Walk(m) ==
    FlattenSeq([i \in DOMAIN m.deploymentNodes |-> walkDeploymentNode(m)[m.deploymentNodes[i]]])

\* What append adds for the result of a conversion.
Appended(result) == IF result = {} THEN << >> ELSE <<CHOOSE x \in result : TRUE>>

\* What walkDeploymentNode makes of one node: the host with its workloads, in order.
walkedHost(m, n) ==
    LET names == buildContainerMap(m)
        instances == m.nodes[n].containerInstances
    IN  {[host EXCEPT !.workloads =
                FlattenSeq([k \in DOMAIN instances |-> Appended(mapWorkload(instances[k], names))])] :
            host \in mapHost(m.nodes[n].properties)}

\* A warning names the node, and the instance (0: the node itself) that is left out.
walkWarnings(m, n) ==
    LET node == m.nodes[n]
    IN  IF mapHost(node.properties) = {} THEN {<<n, 0>>}
        ELSE {<<n, i>> : i \in {j \in DOMAIN node.containerInstances :
                        mapWorkload(node.containerInstances[j], buildContainerMap(m)) = {}}}

\* The hosts of a manifest and the warnings about it, its nodes taken in this order.
MapManifest(m, order) ==
    [hosts    |-> FlattenSeq([k \in DOMAIN order |-> Appended(walkedHost(m, order[k]))]),
     warnings |-> UNION {walkWarnings(m, n) : n \in Range(order)}]

\* ParseStructurizrManifest: what is no JSON, or JSON without deployment nodes, is broken.
Parses(content) == content.kind = "manifest" /\ content.deploymentNodes # << >>

------------------------------------------------------------------------------
(* What json.Unmarshal can give *)

IsList(s) == s \in Seq(Range(s))

IsValue(value) ==
    \/ value.t = "string" /\ value.v \in Text
    \/ value.t = "number" /\ value.v \in DOMAIN Decimal
    \/ value.t = "fraction" /\ value.v \in Text \ {"", "container"} /\ Lower[value.v] = value.v
    \/ value.t = "bool" /\ value.v \in BOOLEAN
    \/ value.t \in {"null", "nested"}

IsObject(properties) == \A key \in DOMAIN properties : IsValue(properties[key])

\* The nodes right below n, where 0 stands for the manifest.
Below(m, n) ==
    IF n = 0 THEN m.deploymentNodes ELSE m.nodes[n].children \o m.nodes[n].deploymentNodes

\* JSON is a finite tree: its nodes, numbered from the top, are each in one place.
IsTree(m) ==
    LET places == 0..Len(m.nodes)
    IN  /\ IsList(m.nodes)
        /\ \A n \in places : IsList(Below(m, n)) /\ Range(Below(m, n)) \subseteq (n + 1)..Len(m.nodes)
        /\ \A c \in DOMAIN m.nodes : \E n \in places : c \in Range(Below(m, n))
        /\ \A n, k \in places : \A i \in DOMAIN Below(m, n), j \in DOMAIN Below(m, k) :
                Below(m, n)[i] = Below(m, k)[j] => n = k /\ i = j

IsManifest(m) ==
    /\ IsTree(m)
    /\ IsList(m.containers)
    /\ \A c \in Range(m.containers) : c.id \in Text /\ c.name \in Text
    /\ \A node \in Range(m.nodes) :
        /\ IsObject(node.properties) /\ IsList(node.containerInstances)
        /\ \A instance \in Range(node.containerInstances) :
                instance.containerID \in Text /\ IsObject(instance.properties)
==============================================================================
