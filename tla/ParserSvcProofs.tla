--------------------------- MODULE ParserSvcProofs ---------------------------
(***************************************************************************)
(* Theorems about ParserSvc, for any directories, manifests and readers.      *)
(***************************************************************************)
EXTENDS ParserSvc, SequenceFacts

------------------------------------------------------------------------------
(* Conversions *)

LEMMA NormalizedString ==
    ASSUME NEW v, IsValue(v)
    PROVE  /\ normalizeString(v) \subseteq Text
           /\ \A x, y \in normalizeString(v) : x = y
           /\ Filled(v) <=> normalizeString(v) \ {""} # {}
           /\ normalizeString(v) = {} <=> v.t = "nested"
           /\ "container" \in {Lower[x] : x \in normalizeString(v)} =>
                v.t = "string" /\ Lower[Trim[v.v]] = "container"
<1>1. CASE v.t = "string" /\ v.v \in Text
    <2>1. normalizeString(v) = {Trim[v.v]}
        BY <1>1 DEF normalizeString
    <2>2. Trim[v.v] \in Text
        BY <1>1, TextAssumption
    <2>3. Filled(v) <=> Trim[v.v] # ""
        BY <1>1 DEF Filled
    <2> QED
        BY <1>1, <2>1, <2>2, <2>3
<1>2. CASE v.t = "number" /\ v.v \in DOMAIN Decimal
    <2>1. normalizeString(v) = {Decimal[v.v]}
        BY <1>2 DEF normalizeString
    <2>2. Decimal[v.v] \in Text \ {"", "container"} /\ Lower[Decimal[v.v]] = Decimal[v.v]
        BY <1>2, TextAssumption
    <2>3. Filled(v)
        BY <1>2 DEF Filled
    <2> QED
        BY <1>2, <2>1, <2>2, <2>3
<1>3. CASE v.t = "fraction" /\ v.v \in Text \ {"", "container"} /\ Lower[v.v] = v.v
    <2>1. normalizeString(v) = {v.v}
        BY <1>3 DEF normalizeString
    <2>2. Filled(v)
        BY <1>3 DEF Filled
    <2> QED
        BY <1>3, <2>1, <2>2
<1>4. CASE v.t = "bool" /\ v.v \in BOOLEAN
    <2>1. normalizeString(v) = {IF v.v THEN "true" ELSE "false"}
        BY <1>4 DEF normalizeString
    <2>2. Filled(v)
        BY <1>4 DEF Filled
    <2>3. /\ "true" \in Text /\ "false" \in Text
          /\ Lower["true"] = "true" /\ Lower["false"] = "false"
        BY TextAssumption
    <2>4. PICK x \in {"true", "false"} : normalizeString(v) = {x}
        BY <2>1
    <2> QED
        BY <1>4, <2>2, <2>3, <2>4
<1>5. CASE v.t = "null"
    <2>1. normalizeString(v) = {""}
        BY <1>5 DEF normalizeString
    <2>2. ~Filled(v)
        BY <1>5 DEF Filled
    <2>3. "" \in Text /\ Lower[""] = ""
        BY TextAssumption
    <2> QED
        BY <1>5, <2>1, <2>2, <2>3
<1>6. CASE v.t = "nested"
    <2>1. normalizeString(v) = {}
        BY <1>6 DEF normalizeString
    <2>2. ~Filled(v)
        BY <1>6 DEF Filled
    <2> QED
        BY <1>6, <2>1, <2>2
<1> QED
    BY <1>1, <1>2, <1>3, <1>4, <1>5, <1>6 DEF IsValue

LEMMA NormalizedOthers ==
    ASSUME NEW v, IsValue(v)
    PROVE  /\ Boolean(v) <=> normalizeBool(v) # {}
           /\ Integer(v) <=> normalizeInt(v) # {}
<1>1. CASE v.t = "string" /\ v.v \in Text
    <2>1. normalizeBool(v) = {b \in BOOLEAN : Lower[Trim[v.v]] \in
                            IF b THEN {"true", "1", "yes", "y"} ELSE {"false", "0", "no", "n"}}
        BY <1>1 DEF normalizeBool
    <2>2. Boolean(v) <=> Lower[Trim[v.v]] \in
                            {"true", "false", "yes", "no", "y", "n", "1", "0"}
        BY <1>1 DEF Boolean
    <2>3. normalizeBool(v) # {} <=> \/ Lower[Trim[v.v]] \in {"true", "1", "yes", "y"}
                                    \/ Lower[Trim[v.v]] \in {"false", "0", "no", "n"}
        <3>1. \A b \in BOOLEAN : b = TRUE \/ b = FALSE
            OBVIOUS
        <3> QED
            BY <2>1, <3>1
    <2>4. normalizeInt(v) = {Numeral[s] : s \in {Trim[v.v]} \cap DOMAIN Numeral}
        BY <1>1 DEF normalizeInt
    <2>5. Integer(v) <=> Trim[v.v] \in DOMAIN Numeral
        BY <1>1 DEF Integer
    <2> QED
        BY <2>2, <2>3, <2>4, <2>5
<1>2. CASE v.t = "number" /\ v.v \in DOMAIN Decimal
    <2>1. normalizeBool(v) = {b \in BOOLEAN : v.v = IF b THEN 1 ELSE 0}
        BY <1>2 DEF normalizeBool
    <2>2. Boolean(v) <=> v.v \in {0, 1}
        BY <1>2 DEF Boolean
    <2>3. normalizeBool(v) # {} <=> v.v = 1 \/ v.v = 0
        BY <2>1
    <2>4. normalizeInt(v) = {v.v} /\ Integer(v)
        BY <1>2 DEF normalizeInt, Integer
    <2> QED
        BY <2>2, <2>3, <2>4
<1>3. CASE v.t = "bool" /\ v.v \in BOOLEAN
    BY <1>3 DEF normalizeBool, Boolean, normalizeInt, Integer
<1>4. CASE v.t \in {"fraction", "null", "nested"}
    BY <1>4 DEF normalizeBool, Boolean, normalizeInt, Integer
<1> QED
    BY <1>1, <1>2, <1>3, <1>4 DEF IsValue

------------------------------------------------------------------------------
(* What a run of conversions appends *)

\* flat holds, in their order, one result of each conversion that has one.
Collects(flat, results, n, from) ==
    /\ from \in [DOMAIN flat -> 1..n]
    /\ \A p \in DOMAIN flat : flat[p] \in results[from[p]]
    /\ \A p, q \in DOMAIN flat : p < q => from[p] < from[q]
    /\ \A k \in 1..n : results[k] # {} => \E p \in DOMAIN flat : from[p] = k

LEMMA CollectsAll ==
    ASSUME NEW n \in Nat, NEW results, NEW rows, rows = [k \in 1..n |-> Appended(results[k])]
    PROVE  /\ Len(FlattenSeq(rows)) \in Nat /\ DOMAIN FlattenSeq(rows) = 1..Len(FlattenSeq(rows))
           /\ Len(FlattenSeq(rows)) = Cardinality({k \in 1..n : results[k] # {}})
           /\ \E from : Collects(FlattenSeq(rows), results, n, from)
<1> DEFINE T == UNION {results[k] : k \in 1..n}
           flat == FlattenSeq(rows)
<1>1. \A k \in 1..n : /\ results[k] = {} => rows[k] = << >>
                      /\ results[k] # {} => /\ rows[k] = <<CHOOSE x \in results[k] : TRUE>>
                                            /\ (CHOOSE x \in results[k] : TRUE) \in results[k]
    BY DEF Appended
<1>2. \A k \in 1..n : rows[k] \in Seq(T) /\ Len(rows[k]) <= 1
    <2> SUFFICES ASSUME NEW k \in 1..n
                 PROVE  rows[k] \in Seq(T) /\ Len(rows[k]) <= 1
        OBVIOUS
    <2>1. CASE results[k] = {}
        <3>1. rows[k] = << >>
            BY <1>1, <2>1
        <3> HIDE DEF T
        <3>2. << >> \in Seq(T) /\ Len(<< >>) <= 1
            OBVIOUS
        <3> QED
            BY <3>1, <3>2, Zenon
    <2>2. CASE results[k] # {}
        <3>1. PICK x \in T : rows[k] = <<x>>
            BY <1>1, <2>2
        <3> HIDE DEF T
        <3> QED
            BY <3>1
    <2> QED
        BY <2>1, <2>2
<1>3. DOMAIN rows = 1..n
    OBVIOUS
<1>4. rows \in Seq(Seq(T))
    <2> HIDE DEF T
    <2>1. rows \in [1..n -> Seq(T)]
        BY <1>2
    <2> QED
        BY <2>1
<1> HIDE DEF T
<1>5. flat \in Seq(T)
    BY <1>4, FlattenType
<1>6. PICK from : Singles(rows, flat, from)
    BY <1>2, <1>3, <1>4, FlattenSingles
<1>7. Len(flat) = Cardinality({k \in DOMAIN rows : rows[k] # << >>})
    <2> HIDE DEF flat
    <2> QED
        BY <1>4, <1>5, <1>6, SinglesCount
<1>8. {k \in DOMAIN rows : rows[k] # << >>} = {k \in 1..n : results[k] # {}}
    <2>1. \A x : <<x>> # << >>
        OBVIOUS
    <2> QED
        BY <1>1, <1>3, <2>1
<1>9. Collects(flat, results, n, from)
    <2> HIDE DEF flat
    <2>1. \A p \in DOMAIN flat : flat[p] \in results[from[p]]
        <3> SUFFICES ASSUME NEW p \in DOMAIN flat
                     PROVE  flat[p] \in results[from[p]]
            OBVIOUS
        <3>1. from[p] \in 1..n /\ rows[from[p]] = <<flat[p]>>
            BY <1>3, <1>6 DEF Singles
        <3>2. <<flat[p]>> # << >>
            OBVIOUS
        <3>3. results[from[p]] # {}
            BY <1>1, <3>1, <3>2
        <3>4. PICK x \in results[from[p]] : rows[from[p]] = <<x>>
            BY <1>1, <3>1, <3>3
        <3>5. x = flat[p]
            <4>1. \A a, b : <<a>> = <<b>> => a = b
                OBVIOUS
            <4> QED
                BY <3>1, <3>4, <4>1
        <3> QED
            BY <3>4, <3>5
    <2>2. ASSUME NEW k \in 1..n, results[k] # {}
          PROVE  \E p \in DOMAIN flat : from[p] = k
        <3>1. rows[k] # << >>
            <4>1. \A x : <<x>> # << >>
                OBVIOUS
            <4> QED
                BY <1>1, <2>2, <4>1
        <3> QED
            BY <1>3, <1>6, <3>1 DEF Singles
    <2> QED
        BY <1>3, <1>6, <2>1, <2>2 DEF Singles, Collects
<1>10. Len(flat) \in Nat /\ DOMAIN flat = 1..Len(flat)
    <2> HIDE DEF flat
    <2> QED
        BY <1>5
<1> QED
    BY <1>7, <1>8, <1>9, <1>10

------------------------------------------------------------------------------
(* Hosts and workloads *)

LEMMA RequiredString ==
    ASSUME NEW p, IsObject(p), NEW key
    PROVE  /\ getRequiredString(p, key) # {} <=> Says(p, key, Filled)
           /\ \A x \in getRequiredString(p, key) :
                /\ key \in DOMAIN p /\ x \in normalizeString(p[key]) /\ x \in Text /\ x # ""
                /\ \A y \in normalizeString(p[key]) : y = x
<1>1. CASE key \notin DOMAIN p
    BY <1>1 DEF getRequiredString, Says
<1>2. CASE key \in DOMAIN p
    <2>1. IsValue(p[key])
        BY <1>2 DEF IsObject
    <2>2. getRequiredString(p, key) = normalizeString(p[key]) \ {""}
        BY <1>2 DEF getRequiredString
    <2>3. Says(p, key, Filled) <=> Filled(p[key])
        BY <1>2 DEF Says
    <2> QED
        BY <1>2, <2>1, <2>2, <2>3, NormalizedString
<1> QED
    BY <1>1, <1>2

LEMMA OptionalString ==
    ASSUME NEW p, IsObject(p), NEW key
    PROVE  /\ \E x \in Text : getOptionalString(p, key) = {x}
           /\ (\E x \in getOptionalString(p, key) : x # "") <=> Says(p, key, Filled)
<1>1. CASE key \notin DOMAIN p
    <2>1. getOptionalString(p, key) = {""} /\ ~Says(p, key, Filled)
        BY <1>1 DEF getOptionalString, Says
    <2> QED
        BY <2>1, TextAssumption
<1>2. CASE key \in DOMAIN p
    <2>1. IsValue(p[key])
        BY <1>2 DEF IsObject
    <2> DEFINE given == normalizeString(p[key])
    <2>2. getOptionalString(p, key) = IF given = {} THEN {""} ELSE given
        BY <1>2 DEF getOptionalString
    <2>3. Says(p, key, Filled) <=> Filled(p[key])
        BY <1>2 DEF Says
    <2>4. /\ given \subseteq Text /\ \A x, y \in given : x = y
          /\ Filled(p[key]) <=> given \ {""} # {}
        BY <2>1, NormalizedString
    <2> HIDE DEF given
    <2>5. CASE given = {}
        BY <2>2, <2>3, <2>4, <2>5, TextAssumption
    <2>6. CASE given # {}
        <3>1. PICK x \in given : given = {x}
            BY <2>4, <2>6
        <3> QED
            BY <2>2, <2>3, <2>4, <3>1
    <2> QED
        BY <2>5, <2>6
<1> QED
    BY <1>1, <1>2

\* What a host has of its node, besides its workloads.
Declares(h, node) ==
    /\ h.hostID \in Text
    /\ h.hostID = CHOOSE id \in normalizeString(node.properties["host_id"]) : TRUE
    /\ h.fqdn \in normalizeString(node.properties["fqdn"])
    /\ h.env \in normalizeString(node.properties["env"])
    /\ <<"env", h.env>> \in h.labels

LEMMA MappedHost ==
    ASSUME NEW node, IsObject(node.properties)
    PROVE  /\ mapHost(node.properties) # {} <=> ValidNode(node)
           /\ \A h \in mapHost(node.properties) : \A ws :
                /\ Declares([h EXCEPT !.workloads = ws], node)
                /\ [h EXCEPT !.workloads = ws].workloads = ws
<1> DEFINE p == node.properties
           Host(id, fqdn, ip, env, by, purpose) ==
                [hostID |-> id, fqdn |-> fqdn, ip |-> ip, env |-> env, managedBy |-> by,
                 purpose |-> purpose, labels |-> extractLabels(p, env, by, purpose),
                 workloads |-> << >>]
<1>1. mapHost(p) = {Host(id, fqdn, ip, env, by, purpose) :
            id  \in getRequiredString(p, "host_id"), fqdn \in getRequiredString(p, "fqdn"),
            env \in getRequiredString(p, "env"), by \in getRequiredString(p, "managed_by"),
            purpose \in getRequiredString(p, "purpose"), ip \in getOptionalString(p, "ip")}
    BY DEF mapHost
<1>2. getOptionalString(p, "ip") # {}
    BY OptionalString
<1>3. mapHost(p) # {} <=>
            \A key \in {"host_id", "fqdn", "env", "managed_by", "purpose"} :
                getRequiredString(p, key) # {}
    <2> DEFINE Keys == {"host_id", "fqdn", "env", "managed_by", "purpose"}
    <2>1. ASSUME NEW h \in mapHost(p), NEW key \in Keys
          PROVE  getRequiredString(p, key) # {}
        <3> HIDE DEF Host, p
        <3>1. PICK id  \in getRequiredString(p, "host_id"), fqdn \in getRequiredString(p, "fqdn"),
                   env \in getRequiredString(p, "env"), by \in getRequiredString(p, "managed_by"),
                   purpose \in getRequiredString(p, "purpose") : TRUE
            BY <1>1
        <3> QED
            BY <3>1
    <2>2. ASSUME \A key \in Keys : getRequiredString(p, key) # {}
          PROVE  mapHost(p) # {}
        <3> HIDE DEF Host, p
        <3>1. PICK id \in getRequiredString(p, "host_id") : TRUE
            BY <2>2
        <3>2. PICK fqdn \in getRequiredString(p, "fqdn") : TRUE
            BY <2>2
        <3>3. PICK env \in getRequiredString(p, "env") : TRUE
            BY <2>2
        <3>4. PICK by \in getRequiredString(p, "managed_by") : TRUE
            BY <2>2
        <3>5. PICK purpose \in getRequiredString(p, "purpose") : TRUE
            BY <2>2
        <3>6. PICK ip \in getOptionalString(p, "ip") : TRUE
            BY <1>2
        <3>7. Host(id, fqdn, ip, env, by, purpose) \in mapHost(p)
            BY <1>1
        <3> QED
            BY <3>7
    <2> QED
        BY <2>1, <2>2
<1>4. mapHost(p) # {} <=> ValidNode(node)
    BY <1>3, RequiredString DEF ValidNode
<1>5. ASSUME NEW h \in mapHost(p), NEW ws
      PROVE  /\ Declares([h EXCEPT !.workloads = ws], node)
             /\ [h EXCEPT !.workloads = ws].workloads = ws
    <2>1. PICK id  \in getRequiredString(p, "host_id"), fqdn \in getRequiredString(p, "fqdn"),
               env \in getRequiredString(p, "env"), by \in getRequiredString(p, "managed_by"),
               purpose \in getRequiredString(p, "purpose"), ip \in getOptionalString(p, "ip") :
            h = Host(id, fqdn, ip, env, by, purpose)
        BY <1>1
    <2> DEFINE g == [h EXCEPT !.workloads = ws]
    <2>2. /\ g.hostID = id /\ g.fqdn = fqdn /\ g.env = env /\ g.workloads = ws
          /\ g.labels = extractLabels(p, env, by, purpose)
        BY <2>1
    <2>3. <<"env", env>> \in extractLabels(p, env, by, purpose)
        BY DEF extractLabels
    <2>4. /\ id \in normalizeString(p["host_id"]) /\ \A y \in normalizeString(p["host_id"]) : y = id
          /\ id \in Text
          /\ fqdn \in normalizeString(p["fqdn"]) /\ env \in normalizeString(p["env"])
        BY RequiredString
    <2>5. id = CHOOSE x \in normalizeString(p["host_id"]) : TRUE
        BY <2>4
    <2> HIDE DEF g
    <2>6. Declares(g, node)
        BY <2>2, <2>3, <2>4, <2>5 DEF Declares
    <2> QED
        BY <2>2, <2>6 DEF g
<1> QED
    BY <1>4, <1>5

\* The containers of an instance's id, and the name that the map has for it.
SameID(m, id)  == {i \in DOMAIN m.containers : Trim[m.containers[i].id] = Trim[id]}
NamesOf(m, id) == {buildContainerMap(m)[x] : x \in {Trim[id]} \cap DOMAIN buildContainerMap(m)}
Named(m, id)   == /\ Trim[id] # ""
                  /\ \E i \in SameID(m, id) : /\ Trim[m.containers[i].name] # ""
                                              /\ \A j \in SameID(m, id) : j <= i

LEMMA ContainerName ==
    ASSUME NEW m, IsManifest(m), NEW id \in Text
    PROVE  NamesOf(m, id) \ {""} # {} <=> Named(m, id)
<1> DEFINE key == Trim[id]
           names == {i \in DOMAIN m.containers : Trim[m.containers[i].id] = key}
           table == buildContainerMap(m)
           Final(i) == i \in names /\ \A j \in names : j <= i
<1>1. Len(m.containers) \in Nat /\ DOMAIN m.containers = 1..Len(m.containers)
    <2>1. m.containers \in Seq(Range(m.containers))
        BY DEF IsManifest, IsList
    <2> QED
        BY <2>1
<1>2. DOMAIN table = {Trim[m.containers[i].id] : i \in DOMAIN m.containers} \ {""}
    BY DEF buildContainerMap
<1>3. key \in DOMAIN table <=> key # "" /\ names # {}
    BY <1>2
<1>4. ASSUME key \in DOMAIN table
      PROVE  \E i : Final(i) /\ table[key] = Trim[m.containers[i].name]
    <2> DEFINE P(i) == i \in DOMAIN m.containers /\ Trim[m.containers[i].id] = key
                       /\ \A j \in DOMAIN m.containers : Trim[m.containers[j].id] = key => j <= i
    <2>1. table[key] = Trim[m.containers[CHOOSE i \in DOMAIN m.containers :
                            Trim[m.containers[i].id] = key
                            /\ \A j \in DOMAIN m.containers :
                                    Trim[m.containers[j].id] = key => j <= i].name]
        BY <1>2, <1>4 DEF buildContainerMap
    <2>2. names \in SUBSET (1..Len(m.containers)) /\ names # {}
        BY <1>1, <1>3, <1>4
    <2>3. \E i \in names : \A j \in names : i >= j
        <3> HIDE DEF names
        <3> QED
            BY <1>1, <2>2, GreatestExists
    <2>4. \E i \in DOMAIN m.containers : Trim[m.containers[i].id] = key
                            /\ \A j \in DOMAIN m.containers :
                                    Trim[m.containers[j].id] = key => j <= i
        BY <1>1, <2>3
    <2>5. PICK i \in DOMAIN m.containers : /\ Trim[m.containers[i].id] = key
                            /\ \A j \in DOMAIN m.containers :
                                    Trim[m.containers[j].id] = key => j <= i
                            /\ table[key] = Trim[m.containers[i].name]
        <3> HIDE DEF key, table
        <3> QED
            BY <2>1, <2>4
    <2> QED
        BY <2>5
<1>5. \A i, j : Final(i) /\ Final(j) => i = j
    BY <1>1
<1> HIDE DEF table
<1>6. NamesOf(m, id) \ {""} # {} <=> key \in DOMAIN table /\ table[key] # ""
    BY DEF NamesOf, table
<1>7. key \in DOMAIN table /\ table[key] # "" <=>
            key # "" /\ \E i : Final(i) /\ Trim[m.containers[i].name] # ""
    <2> HIDE DEF Final, key
    <2>1. \A i : Final(i) => names # {}
        BY DEF Final
    <2> QED
        BY <1>3, <1>4, <1>5, <2>1
<1>8. Named(m, id) <=> key # "" /\ \E i : Final(i) /\ Trim[m.containers[i].name] # ""
    BY DEF Named, SameID
<1> QED
    BY <1>6, <1>7, <1>8

LEMMA MappedWorkload ==
    ASSUME NEW m, IsManifest(m), NEW instance,
           instance.containerID \in Text, IsObject(instance.properties)
    PROVE  mapWorkload(instance, buildContainerMap(m)) # {} <=> ValidInstance(m, instance)
<1> DEFINE p == instance.properties
           table == buildContainerMap(m)
           names == NamesOf(m, instance.containerID)
           nonblank == names \ {""}
           ports == optional(p, "port", normalizeInt)
           versions == optional(p, "version", normalizeString)
           contained(v) == v.t = "string" /\ Lower[Trim[v.v]] = "container"
           Workload(name, enabled, mode, image, port, version) ==
                [name |-> name, enabled |-> enabled, deploymentMode |-> mode, image |-> image,
                 version |-> NoBlank(version), port |-> port]
           named == Named(m, instance.containerID)
           All == {Workload(name, enabled, mode, image, port, version) :
                    name \in nonblank, enabled \in getRequiredBool(p, "enabled"),
                    mode \in getRequiredString(p, "deployment_mode"),
                    image \in getOptionalString(p, "image"),
                    port \in ports,
                    version \in versions}
<1>0. All = {Workload(name, enabled, mode, image, port, version) :
                name \in nonblank, enabled \in getRequiredBool(p, "enabled"),
                mode \in getRequiredString(p, "deployment_mode"),
                image \in getOptionalString(p, "image"), port \in ports, version \in versions}
    OBVIOUS
<1>1. mapWorkload(instance, table) = {w \in All : ValidateWorkload(w)}
    BY DEF mapWorkload, NamesOf
<1>2. ASSUME NEW name, NEW enabled, NEW mode, NEW image, NEW port, NEW version
      PROVE  ValidateWorkload(Workload(name, enabled, mode, image, port, version)) <=>
                (Lower[mode] = "container" => image # "")
    <2>1. /\ Workload(name, enabled, mode, image, port, version).deploymentMode = mode
          /\ Workload(name, enabled, mode, image, port, version).image = image
        OBVIOUS
    <2>2. \A w : w.deploymentMode = mode /\ w.image = image =>
                    (ValidateWorkload(w) <=> (Lower[mode] = "container" => image # ""))
        BY DEF ValidateWorkload
    <2> HIDE DEF Workload
    <2> QED
        BY <2>1, <2>2
<1>3. nonblank # {} <=> named
    BY ContainerName
<1>4. getRequiredBool(p, "enabled") # {} <=> Says(p, "enabled", Boolean)
    <2>1. CASE "enabled" \notin DOMAIN p
        BY <2>1 DEF getRequiredBool, Says
    <2>2. CASE "enabled" \in DOMAIN p
        <3>1. IsValue(p["enabled"]) /\ getRequiredBool(p, "enabled") = normalizeBool(p["enabled"])
            BY <2>2 DEF IsObject, getRequiredBool
        <3> QED
            BY <2>2, <3>1, NormalizedOthers DEF Says
    <2> QED
        BY <2>1, <2>2
<1>5. ports # {} <=> ("port" \in DOMAIN p => Integer(p["port"]))
    <2>1. CASE "port" \notin DOMAIN p
        BY <2>1 DEF optional
    <2>2. CASE "port" \in DOMAIN p
        <3>1. /\ IsValue(p["port"])
              /\ optional(p, "port", normalizeInt) = {<<x>> : x \in normalizeInt(p["port"])}
            BY <2>2 DEF IsObject, optional
        <3> QED
            BY <2>2, <3>1, NormalizedOthers
    <2> QED
        BY <2>1, <2>2
<1>6. versions # {} <=>
            ("version" \in DOMAIN p => p["version"].t # "nested")
    <2>1. CASE "version" \notin DOMAIN p
        BY <2>1 DEF optional
    <2>2. CASE "version" \in DOMAIN p
        <3>1. /\ IsValue(p["version"])
              /\ optional(p, "version", normalizeString) =
                    {<<x>> : x \in normalizeString(p["version"])}
            BY <2>2 DEF IsObject, optional
        <3>2. normalizeString(p["version"]) = {} <=> p["version"].t = "nested"
            BY <3>1, NormalizedString
        <3> QED
            BY <2>2, <3>1, <3>2
    <2> QED
        BY <2>1, <2>2
<1>7. /\ getRequiredString(p, "deployment_mode") # {} <=> Says(p, "deployment_mode", Filled)
      /\ \A mode \in getRequiredString(p, "deployment_mode") :
            Lower[mode] = "container" <=> Says(p, "deployment_mode", contained)
    <2>1. /\ getRequiredString(p, "deployment_mode") # {} <=> Says(p, "deployment_mode", Filled)
          /\ \A mode \in getRequiredString(p, "deployment_mode") :
                /\ "deployment_mode" \in DOMAIN p
                /\ mode \in normalizeString(p["deployment_mode"])
        BY RequiredString
    <2>2. ASSUME NEW mode \in getRequiredString(p, "deployment_mode")
          PROVE  Lower[mode] = "container" <=> Says(p, "deployment_mode", contained)
        <3> DEFINE v == p["deployment_mode"]
        <3>1. "deployment_mode" \in DOMAIN p /\ IsValue(v) /\ mode \in normalizeString(v)
            BY <2>1 DEF IsObject
        <3>2. Says(p, "deployment_mode", contained) <=> contained(v)
            BY <3>1 DEF Says
        <3>3. Lower[mode] = "container" => contained(v)
            <4> HIDE DEF v
            <4> QED
                BY <3>1, NormalizedString
        <3>4. contained(v) => Lower[mode] = "container"
            <4>1. v.t = "string" => normalizeString(v) = {Trim[v.v]}
                BY DEF normalizeString
            <4> QED
                BY <3>1, <4>1
        <3> QED
            BY <3>2, <3>3, <3>4
    <2> QED
        BY <2>1, <2>2
<1>8. PICK image \in Text : /\ getOptionalString(p, "image") = {image}
                            /\ image # "" <=> Says(p, "image", Filled)
    BY OptionalString
<1>9. ValidInstance(m, instance) <=>
        /\ named
        /\ Says(p, "enabled", Boolean) /\ Says(p, "deployment_mode", Filled)
        /\ Says(p, "deployment_mode", contained) => Says(p, "image", Filled)
        /\ "port" \in DOMAIN p => Integer(p["port"])
        /\ "version" \in DOMAIN p => p["version"].t # "nested"
    BY DEF ValidInstance, Named, SameID
<1> HIDE DEF p, names, nonblank, table, ports, versions, Workload, contained, named, All
<1>10. ASSUME NEW w \in mapWorkload(instance, table)
       PROVE  ValidInstance(m, instance)
    <2>1. PICK name \in nonblank, enabled \in getRequiredBool(p, "enabled"),
               mode \in getRequiredString(p, "deployment_mode"),
               port \in ports,
               version \in versions :
            w = Workload(name, enabled, mode, image, port, version) /\ ValidateWorkload(w)
        <3>1. w \in All /\ ValidateWorkload(w)
            BY <1>1
        <3>2. PICK name \in nonblank, enabled \in getRequiredBool(p, "enabled"),
                   mode \in getRequiredString(p, "deployment_mode"),
                   other \in getOptionalString(p, "image"),
                   port \in ports,
                   version \in versions :
                w = Workload(name, enabled, mode, other, port, version)
            BY <1>0, <3>1
        <3>3. other = image
            BY <1>8
        <3> QED
            BY <3>1, <3>2, <3>3, Zenon
    <2>2. Lower[mode] = "container" => image # ""
        BY <1>2, <2>1
    <2> QED
        BY <1>3, <1>4, <1>5, <1>6, <1>7, <1>8, <1>9, <2>1, <2>2
<1>11. ASSUME ValidInstance(m, instance)
       PROVE  mapWorkload(instance, table) # {}
    <2>1. PICK name \in nonblank : TRUE
        BY <1>3, <1>9, <1>11
    <2>2. PICK enabled \in getRequiredBool(p, "enabled") : TRUE
        BY <1>4, <1>9, <1>11
    <2>3. PICK mode \in getRequiredString(p, "deployment_mode") : TRUE
        BY <1>7, <1>9, <1>11
    <2>4. PICK port \in ports : TRUE
        BY <1>5, <1>9, <1>11
    <2>5. PICK version \in versions : TRUE
        BY <1>6, <1>9, <1>11
    <2>6. Lower[mode] = "container" => image # ""
        BY <1>7, <1>8, <1>9, <1>11, <2>3
    <2>7. ValidateWorkload(Workload(name, enabled, mode, image, port, version))
        BY <1>2, <2>6
    <2>8. Workload(name, enabled, mode, image, port, version) \in All
        <3>1. image \in getOptionalString(p, "image")
            BY <1>8
        <3> QED
            BY <1>0, <3>1
    <2>9. Workload(name, enabled, mode, image, port, version) \in mapWorkload(instance, table)
        BY <1>1, <2>7, <2>8
    <2> QED
        BY <2>9
<1> QED
    BY <1>10, <1>11 DEF table

\* What a host with its workloads has of its node.
DeclaresAll(h, m, n) ==
    /\ Declares(h, m.nodes[n])
    /\ Len(h.workloads) = Cardinality({k \in DOMAIN m.nodes[n].containerInstances :
                                        ValidInstance(m, m.nodes[n].containerInstances[k])})

\* A node of a manifest, and its instances.
LEMMA NodeTypes ==
    ASSUME NEW m, IsManifest(m), NEW n \in DOMAIN m.nodes
    PROVE  LET instances == m.nodes[n].containerInstances
           IN  /\ IsObject(m.nodes[n].properties)
               /\ Len(instances) \in Nat /\ DOMAIN instances = 1..Len(instances)
               /\ \A k \in DOMAIN instances :
                    /\ instances[k].containerID \in Text /\ IsObject(instances[k].properties)
                    /\ mapWorkload(instances[k], buildContainerMap(m)) # {} <=>
                            ValidInstance(m, instances[k])
<1> DEFINE instances == m.nodes[n].containerInstances
<1>1. m.nodes[n] \in Range(m.nodes)
    BY DEF Range
<1>2. /\ IsObject(m.nodes[n].properties) /\ IsList(instances)
      /\ \A instance \in Range(instances) :
                instance.containerID \in Text /\ IsObject(instance.properties)
    BY <1>1 DEF IsManifest
<1> HIDE DEF instances
<1>3. Len(instances) \in Nat /\ DOMAIN instances = 1..Len(instances)
    <2>1. instances \in Seq(Range(instances))
        BY <1>2 DEF IsList
    <2> QED
        BY <2>1
<1>4. \A k \in DOMAIN instances :
            instances[k].containerID \in Text /\ IsObject(instances[k].properties)
    BY <1>2 DEF Range
<1>5. \A k \in DOMAIN instances : mapWorkload(instances[k], buildContainerMap(m)) # {} <=>
                                    ValidInstance(m, instances[k])
    BY <1>4, MappedWorkload
<1> QED
    BY <1>2, <1>3, <1>4, <1>5 DEF instances

LEMMA WalkedHost ==
    ASSUME NEW m, IsManifest(m), NEW n \in DOMAIN m.nodes
    PROVE  /\ walkedHost(m, n) # {} <=> ValidNode(m.nodes[n])
           /\ \A h \in walkedHost(m, n) : DeclaresAll(h, m, n)
<1> DEFINE node == m.nodes[n]
           instances == node.containerInstances
           names == buildContainerMap(m)
           results == [k \in DOMAIN instances |-> mapWorkload(instances[k], names)]
           rows == [k \in DOMAIN instances |-> Appended(mapWorkload(instances[k], names))]
           ws == FlattenSeq(rows)
           l == Len(instances)
<1>1. walkedHost(m, n) = {[host EXCEPT !.workloads = ws] : host \in mapHost(node.properties)}
    BY DEF walkedHost
<1>2. IsObject(node.properties) /\ l \in Nat /\ DOMAIN instances = 1..l
    BY NodeTypes
<1>3. mapHost(node.properties) # {} <=> ValidNode(node)
    BY <1>2, MappedHost
<1>4. Len(ws) = Cardinality({k \in DOMAIN instances : ValidInstance(m, instances[k])})
    <2>1. \A k \in 1..l : results[k] = mapWorkload(instances[k], names)
        BY <1>2
    <2>2. rows = [k \in 1..l |-> Appended(results[k])]
        BY <1>2, <2>1
    <2>3. \A k \in 1..l : results[k] # {} <=> ValidInstance(m, instances[k])
        BY <1>2, <2>1, NodeTypes
    <2> HIDE DEF results, rows, l, instances
    <2>4. Len(FlattenSeq(rows)) = Cardinality({k \in 1..l : results[k] # {}})
        BY <1>2, <2>2, CollectsAll
    <2>5. {k \in 1..l : results[k] # {}} = {k \in DOMAIN instances : ValidInstance(m, instances[k])}
        BY <1>2, <2>3
    <2> QED
        BY <2>4, <2>5
<1> HIDE DEF ws
<1>5. walkedHost(m, n) # {} <=> ValidNode(node)
    BY <1>1, <1>3
<1>6. ASSUME NEW h \in walkedHost(m, n)
      PROVE  DeclaresAll(h, m, n)
    <2>1. PICK host \in mapHost(node.properties) : h = [host EXCEPT !.workloads = ws]
        BY <1>1
    <2>2. Declares(h, node) /\ h.workloads = ws
        BY <1>2, <2>1, MappedHost
    <2> QED
        BY <1>4, <2>2 DEF DeclaresAll
<1> QED
    BY <1>5, <1>6

LEMMA WalkWarnings ==
    ASSUME NEW m, IsManifest(m), NEW n \in DOMAIN m.nodes
    PROVE  /\ <<n, 0>> \in walkWarnings(m, n) <=> ~ValidNode(m.nodes[n])
           /\ \A k \in DOMAIN m.nodes[n].containerInstances :
                ValidNode(m.nodes[n]) =>
                    (<<n, k>> \in walkWarnings(m, n) <=>
                        ~ValidInstance(m, m.nodes[n].containerInstances[k]))
           /\ \A w \in walkWarnings(m, n) : w[1] = n
<1> DEFINE node == m.nodes[n]
           instances == node.containerInstances
           bad == {j \in DOMAIN instances : ~ValidInstance(m, instances[j])}
<1>1. /\ IsObject(node.properties) /\ DOMAIN instances = 1..Len(instances) /\ Len(instances) \in Nat
      /\ \A k \in DOMAIN instances :
            mapWorkload(instances[k], buildContainerMap(m)) # {} <=> ValidInstance(m, instances[k])
    BY NodeTypes
<1>2. mapHost(node.properties) # {} <=> ValidNode(node)
    BY <1>1, MappedHost
<1>3. walkWarnings(m, n) = IF ~ValidNode(node) THEN {<<n, 0>>} ELSE {<<n, i>> : i \in bad}
    BY <1>1, <1>2 DEF walkWarnings
<1>4. 0 \notin bad
    BY <1>1
<1> HIDE DEF bad
<1>5. \A i : <<n, i>> \in {<<n, j>> : j \in bad} <=> i \in bad
    OBVIOUS
<1> QED
    BY <1>3, <1>4, <1>5 DEF bad

------------------------------------------------------------------------------
(* The walk over the nodes of a manifest *)

LEMMA TreeTypes ==
    ASSUME NEW m, IsTree(m)
    PROVE  /\ Len(m.nodes) \in Nat /\ DOMAIN m.nodes = 1..Len(m.nodes)
           /\ \A n \in 0..Len(m.nodes) :
                /\ Len(Below(m, n)) \in Nat /\ DOMAIN Below(m, n) = 1..Len(Below(m, n))
                /\ \A i \in DOMAIN Below(m, n) : Below(m, n)[i] \in (n + 1)..Len(m.nodes)
                /\ Range(Below(m, n)) \subseteq (n + 1)..Len(m.nodes)
<1>1. Len(m.nodes) \in Nat /\ DOMAIN m.nodes = 1..Len(m.nodes)
    <2>1. m.nodes \in Seq(Range(m.nodes))
        BY DEF IsTree, IsList
    <2> QED
        BY <2>1
<1>2. ASSUME NEW n \in 0..Len(m.nodes)
      PROVE  /\ Len(Below(m, n)) \in Nat /\ DOMAIN Below(m, n) = 1..Len(Below(m, n))
             /\ \A i \in DOMAIN Below(m, n) : Below(m, n)[i] \in (n + 1)..Len(m.nodes)
             /\ Range(Below(m, n)) \subseteq (n + 1)..Len(m.nodes)
    <2> DEFINE b == Below(m, n)
    <2>1. b \in Seq(Range(b)) /\ Range(b) \subseteq (n + 1)..Len(m.nodes)
        BY DEF IsTree, IsList
    <2> HIDE DEF b
    <2>2. Len(b) \in Nat /\ DOMAIN b = 1..Len(b)
        BY <2>1
    <2>3. \A i \in DOMAIN b : b[i] \in Range(b)
        BY DEF Range
    <2> QED
        BY <2>1, <2>2, <2>3 DEF b
<1> QED
    BY <1>1, <1>2

\* What a function w says of the subtrees right below n, and of all of them in a row.
Rows(m, w, n)  == [i \in DOMAIN Below(m, n) |-> w[Below(m, n)[i]]]
Under(m, w, n) == FlattenSeq(Rows(m, w, n))

\* w is the walk of the nodes from lo on.
Walks(m, w, lo) ==
    /\ w \in [lo..Len(m.nodes) -> Seq(1..Len(m.nodes))]
    /\ \A n \in lo..Len(m.nodes) : w[n] = <<n>> \o Under(m, w, n)

LEMMA RowsType ==
    ASSUME NEW m, IsTree(m), NEW n \in 0..Len(m.nodes), NEW T, NEW w,
           \A c \in (n + 1)..Len(m.nodes) : w[c] \in Seq(T)
    PROVE  Rows(m, w, n) \in Seq(Seq(T)) /\ Under(m, w, n) \in Seq(T)
<1> DEFINE b == Below(m, n)
           l == Len(b)
<1>1. l \in Nat /\ DOMAIN b = 1..l /\ \A i \in 1..l : b[i] \in (n + 1)..Len(m.nodes)
    BY TreeTypes
<1>2. \A i \in 1..l : w[b[i]] \in Seq(T)
    BY <1>1
<1>3. Rows(m, w, n) = [i \in 1..l |-> w[b[i]]]
    BY <1>1 DEF Rows
<1> HIDE DEF b, l
<1>4. Rows(m, w, n) \in Seq(Seq(T))
    <2>1. [i \in 1..l |-> w[b[i]]] \in [1..l -> Seq(T)]
        BY <1>2
    <2> QED
        BY <1>1, <1>3, <2>1
<1> QED
    BY <1>4, FlattenType DEF Under

LEMMA RowsAgree ==
    ASSUME NEW m, IsTree(m), NEW n \in 0..Len(m.nodes), NEW v, NEW w,
           \A c \in (n + 1)..Len(m.nodes) : v[c] = w[c]
    PROVE  Under(m, v, n) = Under(m, w, n)
<1>1. \A i \in DOMAIN Below(m, n) : v[Below(m, n)[i]] = w[Below(m, n)[i]]
    BY TreeTypes
<1>2. Rows(m, v, n) = Rows(m, w, n)
    BY <1>1 DEF Rows
<1> QED
    BY <1>2 DEF Under

\* The recursion of walkDeploymentNode comes to an end.
LEMMA WalkExists ==
    ASSUME NEW m, IsTree(m)
    PROVE  \E w : Walks(m, w, 1)
<1> DEFINE N == Len(m.nodes)
           Has(k) == \E w : Walks(m, w, N + 1 - k)
           S == {k \in 0..N : Has(k)}
<1>1. N \in Nat
    BY TreeTypes
<1>2. Has(0)
    <2>1. (N + 1 - 0)..N = {}
        BY <1>1
    <2>2. Walks(m, [n \in {} |-> << >>], N + 1 - 0)
        BY <2>1 DEF Walks
    <2> QED
        BY <2>2
<1>3. ASSUME NEW k \in 0..(N - 1), Has(k)
      PROVE  Has(k + 1)
    <2> DEFINE lo == N + 1 - (k + 1)
    <2>1. /\ lo \in 1..N /\ N + 1 - k = lo + 1 /\ (lo..N) = {lo} \cup ((lo + 1)..N)
          /\ lo \notin (lo + 1)..N /\ lo \in 0..N
        <3> HIDE DEF N
        <3> QED
            BY <1>1
    <2>2. PICK w : Walks(m, w, lo + 1)
        BY <1>3, <2>1
    <2> DEFINE first == <<lo>> \o Under(m, w, lo)
               v == [n \in lo..N |-> IF n = lo THEN first ELSE w[n]]
    <2> HIDE DEF lo, N
    <2>3. \A n \in (lo + 1)..N : w[n] \in Seq(1..N) /\ w[n] = <<n>> \o Under(m, w, n)
        BY <2>2 DEF Walks, N
    <2>4. first \in Seq(1..N)
        <3>1. Under(m, w, lo) \in Seq(1..N)
            <4>1. \A c \in (lo + 1)..N : w[c] \in Seq(1..N)
                BY <2>3
            <4> QED
                BY <2>1, <4>1, RowsType DEF N
        <3> QED
            BY <2>1, <3>1
    <2>5. v[lo] = first /\ \A n \in (lo + 1)..N : v[n] = w[n]
        BY <2>1
    <2>6. v \in [lo..N -> Seq(1..N)]
        <3> HIDE DEF first
        <3> QED
            BY <2>1, <2>3, <2>4
    <2> HIDE DEF v, first
    <2>7. \A n \in lo..N : Under(m, v, n) = Under(m, w, n)
        <3> SUFFICES ASSUME NEW n \in lo..N
                     PROVE  Under(m, v, n) = Under(m, w, n)
            OBVIOUS
        <3>1. n \in 0..N /\ \A c \in (n + 1)..N : v[c] = w[c]
            BY <1>1, <2>1, <2>5
        <3> QED
            BY <3>1, RowsAgree DEF N
    <2>8. \A n \in lo..N : v[n] = <<n>> \o Under(m, v, n)
        BY <2>1, <2>3, <2>5, <2>7 DEF first
    <2>9. Walks(m, v, lo)
        BY <2>6, <2>8 DEF Walks, N
    <2> QED
        BY <2>9 DEF lo, N
<1> HIDE DEF Has
<1>4. 0 \in S /\ \A k \in 0..(N - 1) : k \in S => k + 1 \in S
    BY <1>1, <1>2, <1>3
<1> HIDE DEF S, N
<1>5. 0..N \subseteq S
    BY <1>1, <1>4, Ladder
<1>6. Has(N)
    BY <1>1, <1>5 DEF S
<1>7. N + 1 - N = 1
    BY <1>1
<1> QED
    BY <1>6, <1>7 DEF Has

LEMMA WalkIs ==
    ASSUME NEW m, IsTree(m)
    PROVE  /\ \A n \in 1..Len(m.nodes) :
                walkDeploymentNode(m)[n] = <<n>> \o Under(m, walkDeploymentNode(m), n)
           /\ Walk(m) = Under(m, walkDeploymentNode(m), 0)
<1> DEFINE N == Len(m.nodes)
           Is(w) == w = [n \in DOMAIN m.nodes |->
                            <<n>> \o FlattenSeq([i \in DOMAIN ChildNodes(m.nodes[n]) |->
                                                    w[ChildNodes(m.nodes[n])[i]]])]
<1>1. DOMAIN m.nodes = 1..N /\ N \in Nat
    BY TreeTypes
<1>2. \A n \in 1..N : Below(m, n) = ChildNodes(m.nodes[n])
    <2>1. \A n \in 1..N : n # 0
        BY <1>1
    <2> HIDE DEF N
    <2> QED
        BY <2>1, Zenon DEF Below, ChildNodes
<1>3. PICK w : Walks(m, w, 1)
    BY WalkExists
<1>4. Is(w)
    <2>1. w = [n \in 1..N |-> <<n>> \o Under(m, w, n)]
        BY <1>3 DEF Walks
    <2>2. \A n \in 1..N : Under(m, w, n) =
                FlattenSeq([i \in DOMAIN ChildNodes(m.nodes[n]) |-> w[ChildNodes(m.nodes[n])[i]]])
        BY <1>2 DEF Under, Rows
    <2> QED
        BY <1>1, <2>1, <2>2
<1>5. walkDeploymentNode(m) = CHOOSE v : Is(v)
    BY DEF walkDeploymentNode
<1>6. Is(walkDeploymentNode(m))
    <2> HIDE DEF Is
    <2> QED
        BY <1>4, <1>5
<1>7. \A n \in 1..N : walkDeploymentNode(m)[n] = <<n>> \o Under(m, walkDeploymentNode(m), n)
    <2> SUFFICES ASSUME NEW n \in 1..N
                 PROVE  walkDeploymentNode(m)[n] = <<n>> \o Under(m, walkDeploymentNode(m), n)
        OBVIOUS
    <2>1. Under(m, walkDeploymentNode(m), n) =
            FlattenSeq([i \in DOMAIN ChildNodes(m.nodes[n]) |->
                            walkDeploymentNode(m)[ChildNodes(m.nodes[n])[i]]])
        BY <1>2 DEF Under, Rows
    <2> QED
        BY <1>1, <1>6, <2>1
<1>8. Walk(m) = Under(m, walkDeploymentNode(m), 0)
    BY DEF Walk, Under, Rows, Below
<1> QED
    BY <1>7, <1>8

\* A walk from n holds n and what is walked from right below n; nothing above n.
LEMMA WalkFrom ==
    ASSUME NEW m, IsTree(m)
    PROVE  \A n \in 1..Len(m.nodes) :
            /\ walkDeploymentNode(m)[n] \in Seq(n..Len(m.nodes))
            /\ Range(walkDeploymentNode(m)[n]) =
                {n} \cup UNION {Range(walkDeploymentNode(m)[c]) : c \in Range(Below(m, n))}
<1> DEFINE N == Len(m.nodes)
           w == walkDeploymentNode(m)
           S == {n \in 1..N : w[n] \in Seq(n..N)}
<1>1. N \in Nat
    BY TreeTypes
<1>2. \A n \in 1..N : w[n] = <<n>> \o Under(m, w, n)
    BY WalkIs
<1> HIDE DEF w
<1>3. ASSUME NEW n \in 1..N, \A c \in 1..N : n < c => c \in S
      PROVE  /\ Under(m, w, n) \in Seq(n..N) /\ Rows(m, w, n) \in Seq(Seq(n..N))
             /\ w[n] \in Seq(n..N)
    <2>1. \A c \in (n + 1)..N : w[c] \in Seq(n..N)
        <3> SUFFICES ASSUME NEW c \in (n + 1)..N
                     PROVE  w[c] \in Seq(n..N)
            OBVIOUS
        <3>1. c \in 1..N /\ n < c /\ c..N \subseteq n..N
            BY <1>1
        <3>2. w[c] \in Seq(c..N)
            BY <1>3, <3>1
        <3>3. \A i \in 1..Len(w[c]) : w[c][i] \in n..N
            BY <3>1, <3>2
        <3> QED
            BY <3>2, <3>3
    <2>2. n \in 0..N /\ n \in n..N
        BY <1>1
    <2>3. Rows(m, w, n) \in Seq(Seq(n..N)) /\ Under(m, w, n) \in Seq(n..N)
        BY <2>1, <2>2, RowsType
    <2>4. <<n>> \o Under(m, w, n) \in Seq(n..N)
        <3> HIDE DEF N
        <3> QED
            BY <2>2, <2>3, ConsFacts
    <2>5. w[n] = <<n>> \o Under(m, w, n)
        BY <1>2
    <2> QED
        BY <2>3, <2>4, <2>5
<1>4. \A n \in 1..N : (\A c \in 1..N : n < c => c \in S) => n \in S
    BY <1>3
<1>5. 1..N \subseteq S
    <2> HIDE DEF S, N
    <2> QED
        BY <1>1, <1>4, Descent
<1>6. ASSUME NEW n \in 1..N
      PROVE  /\ w[n] \in Seq(n..N)
             /\ Range(w[n]) = {n} \cup UNION {Range(w[c]) : c \in Range(Below(m, n))}
    <2>1. /\ Under(m, w, n) \in Seq(n..N) /\ Rows(m, w, n) \in Seq(Seq(n..N))
          /\ w[n] \in Seq(n..N)
        BY <1>3, <1>5
    <2>2. n \in n..N
        BY <1>1
    <2>3. Range(w[n]) = {n} \cup Range(Under(m, w, n))
        BY <1>2, <2>1, <2>2, ConsFacts
    <2>4. Range(Under(m, w, n)) = UNION {Range(Rows(m, w, n)[i]) : i \in DOMAIN Rows(m, w, n)}
        BY <2>1, FlattenRange DEF Under
    <2>5. UNION {Range(Rows(m, w, n)[i]) : i \in DOMAIN Rows(m, w, n)}
            = UNION {Range(w[c]) : c \in Range(Below(m, n))}
        <3>1. Range(Below(m, n)) = {Below(m, n)[i] : i \in DOMAIN Below(m, n)}
            BY DEF Range
        <3> QED
            BY <3>1 DEF Rows
    <2> QED
        BY <2>1, <2>3, <2>4, <2>5
<1> QED
    BY <1>6 DEF w

LEMMA WalkAll ==
    ASSUME NEW m, IsTree(m)
    PROVE  /\ Walk(m) \in Seq(1..Len(m.nodes))
           /\ Rows(m, walkDeploymentNode(m), 0) \in Seq(Seq(1..Len(m.nodes)))
           /\ Range(Walk(m)) = UNION {Range(walkDeploymentNode(m)[c]) : c \in Range(Below(m, 0))}
<1> DEFINE N == Len(m.nodes)
           w == walkDeploymentNode(m)
<1>1. N \in Nat /\ 0 \in 0..N
    BY TreeTypes
<1>2. \A c \in (0 + 1)..N : w[c] \in Seq(1..N)
    <2> SUFFICES ASSUME NEW c \in 1..N
                 PROVE  w[c] \in Seq(1..N)
        OBVIOUS
    <2>1. w[c] \in Seq(c..N) /\ c..N \subseteq 1..N
        BY <1>1, WalkFrom
    <2> HIDE DEF w
    <2>2. \A i \in 1..Len(w[c]) : w[c][i] \in 1..N
        BY <2>1
    <2> QED
        BY <2>1, <2>2
<1>3. Walk(m) = Under(m, w, 0)
    BY WalkIs
<1> HIDE DEF w
<1>4. Rows(m, w, 0) \in Seq(Seq(1..N)) /\ Under(m, w, 0) \in Seq(1..N)
    BY <1>1, <1>2, RowsType
<1>5. Range(Under(m, w, 0)) = UNION {Range(Rows(m, w, 0)[i]) : i \in DOMAIN Rows(m, w, 0)}
    BY <1>4, FlattenRange DEF Under
<1>6. UNION {Range(Rows(m, w, 0)[i]) : i \in DOMAIN Rows(m, w, 0)}
        = UNION {Range(w[c]) : c \in Range(Below(m, 0))}
    <2>1. Range(Below(m, 0)) = {Below(m, 0)[i] : i \in DOMAIN Below(m, 0)}
        BY DEF Range
    <2> QED
        BY <2>1 DEF Rows
<1> QED
    BY <1>3, <1>4, <1>5, <1>6 DEF w

\* Whoever comes to a node comes to the nodes right below it.
LEMMA WalkGoesDown ==
    ASSUME NEW m, IsTree(m)
    PROVE  \A n \in 1..Len(m.nodes) : \A x \in Range(walkDeploymentNode(m)[n]) :
                Range(Below(m, x)) \subseteq Range(walkDeploymentNode(m)[n])
<1> DEFINE N == Len(m.nodes)
           w == walkDeploymentNode(m)
           Good(n) == \A x \in Range(w[n]) : Range(Below(m, x)) \subseteq Range(w[n])
           S == {n \in 1..N : Good(n)}
<1>1. N \in Nat
    BY TreeTypes
<1>2. \A n \in 1..N : Range(w[n]) = {n} \cup UNION {Range(w[c]) : c \in Range(Below(m, n))}
    BY WalkFrom
<1>3. \A n \in 1..N : Range(Below(m, n)) \subseteq (n + 1)..N
    BY <1>1, TreeTypes
<1> HIDE DEF w
<1>4. ASSUME NEW n \in 1..N, \A c \in 1..N : n < c => c \in S
      PROVE  Good(n)
    <2>1. \A c \in Range(Below(m, n)) : c \in 1..N /\ Good(c) /\ c \in Range(w[c])
        <3> SUFFICES ASSUME NEW c \in Range(Below(m, n))
                     PROVE  c \in 1..N /\ Good(c) /\ c \in Range(w[c])
            OBVIOUS
        <3>1. c \in 1..N /\ n < c
            BY <1>1, <1>3
        <3> QED
            BY <1>2, <1>4, <3>1
    <2> SUFFICES ASSUME NEW x \in Range(w[n])
                 PROVE  Range(Below(m, x)) \subseteq Range(w[n])
        OBVIOUS
    <2> HIDE DEF Good
    <2>0. Range(w[n]) = {n} \cup UNION {Range(w[c]) : c \in Range(Below(m, n))}
        BY <1>2
    <2>2. CASE x = n
        <3>1. \A c \in Range(Below(m, n)) : c \in Range(w[n])
            BY <2>0, <2>1
        <3> QED
            BY <2>2, <3>1
    <2>3. CASE x # n
        <3>1. PICK c \in Range(Below(m, n)) : x \in Range(w[c])
            BY <2>0, <2>3
        <3>2. Range(Below(m, x)) \subseteq Range(w[c])
            BY <2>1, <3>1 DEF Good
        <3> QED
            BY <2>0, <3>1, <3>2
    <2> QED
        BY <2>2, <2>3
<1> HIDE DEF Good
<1>5. \A n \in 1..N : (\A c \in 1..N : n < c => c \in S) => n \in S
    BY <1>4
<1> HIDE DEF S, N
<1>6. 1..N \subseteq S
    BY <1>1, <1>5, Descent
<1> QED
    BY <1>6 DEF S, N, Good, w

\* Whoever comes to a node has been where it is listed, or started with it.
LEMMA WalkCameFrom ==
    ASSUME NEW m, IsTree(m)
    PROVE  \A n \in 1..Len(m.nodes) : \A x \in Range(walkDeploymentNode(m)[n]) \ {n} :
                \E p \in Range(walkDeploymentNode(m)[n]) : x \in Range(Below(m, p))
<1> DEFINE N == Len(m.nodes)
           w == walkDeploymentNode(m)
           Good(n) == \A x \in Range(w[n]) \ {n} : \E p \in Range(w[n]) : x \in Range(Below(m, p))
           S == {n \in 1..N : Good(n)}
<1>1. N \in Nat
    BY TreeTypes
<1>2. \A n \in 1..N : Range(w[n]) = {n} \cup UNION {Range(w[c]) : c \in Range(Below(m, n))}
    BY WalkFrom
<1>3. \A n \in 1..N : Range(Below(m, n)) \subseteq (n + 1)..N
    BY <1>1, TreeTypes
<1> HIDE DEF w
<1>4. ASSUME NEW n \in 1..N, \A c \in 1..N : n < c => c \in S
      PROVE  Good(n)
    <2> SUFFICES ASSUME NEW x \in Range(w[n]) \ {n}
                 PROVE  \E p \in Range(w[n]) : x \in Range(Below(m, p))
        OBVIOUS
    <2>1. PICK c \in Range(Below(m, n)) : x \in Range(w[c])
        BY <1>2
    <2>2. c \in 1..N /\ n < c
        BY <1>1, <1>3
    <2>3. Good(c)
        BY <1>4, <2>2
    <2>4. CASE x = c
        BY <1>2, <2>1, <2>4
    <2>5. CASE x # c
        <3>1. PICK p \in Range(w[c]) : x \in Range(Below(m, p))
            BY <2>1, <2>3, <2>5
        <3> QED
            BY <1>2, <2>1, <3>1
    <2> QED
        BY <2>4, <2>5
<1> HIDE DEF Good
<1>5. \A n \in 1..N : (\A c \in 1..N : n < c => c \in S) => n \in S
    BY <1>4
<1> HIDE DEF S, N
<1>6. 1..N \subseteq S
    BY <1>1, <1>5, Descent
<1> QED
    BY <1>6 DEF S, N, Good, w

LEMMA OnePlace ==
    ASSUME NEW m, IsTree(m)
    PROVE  /\ \A x \in 1..Len(m.nodes) : \E p \in 0..Len(m.nodes) : x \in Range(Below(m, p)) /\ p < x
           /\ \A p, q \in 0..Len(m.nodes) : \A x : x \in Range(Below(m, p)) /\ x \in Range(Below(m, q)) => p = q
           /\ \A p \in 0..Len(m.nodes) : Once(Below(m, p))
<1> DEFINE N == Len(m.nodes)
<1>1. N \in Nat /\ DOMAIN m.nodes = 1..N
    BY TreeTypes
<1>2. /\ \A x \in 1..N : \E p \in 0..N : x \in Range(Below(m, p))
      /\ \A p, q \in 0..N : \A i \in DOMAIN Below(m, p), j \in DOMAIN Below(m, q) :
            Below(m, p)[i] = Below(m, q)[j] => p = q /\ i = j
    BY <1>1 DEF IsTree
<1>3. \A p \in 0..N : Range(Below(m, p)) \subseteq (p + 1)..N
    BY TreeTypes
<1> HIDE DEF N
<1>4. ASSUME NEW x \in 1..N
      PROVE  \E p \in 0..N : x \in Range(Below(m, p)) /\ p < x
    <2>1. PICK p \in 0..N : x \in Range(Below(m, p))
        BY <1>2
    <2>2. x \in (p + 1)..N
        BY <1>3, <2>1
    <2>3. p < x
        BY <1>1, <2>2
    <2> QED
        BY <2>1, <2>3
<1>5. \A p, q \in 0..N : \A x : x \in Range(Below(m, p)) /\ x \in Range(Below(m, q)) => p = q
    BY <1>2 DEF Range
<1>6. \A p \in 0..N : Once(Below(m, p))
    BY <1>2 DEF Once
<1> QED
    BY <1>4, <1>5, <1>6 DEF N

\* Each node of a manifest is walked: none is forgotten.
THEOREM WalkCovers ==
    ASSUME NEW m, IsTree(m)
    PROVE  Range(Walk(m)) = DOMAIN m.nodes
<1> DEFINE N == Len(m.nodes)
           w == walkDeploymentNode(m)
           Missing == {x \in 1..N : x \notin Range(Walk(m))}
<1>1. N \in Nat /\ DOMAIN m.nodes = 1..N
    BY TreeTypes
<1>2. Range(Walk(m)) \subseteq 1..N
    <2>1. Walk(m) \in Seq(1..N)
        BY WalkAll
    <2> QED
        BY <2>1 DEF Range
<1>3. Range(Walk(m)) = UNION {Range(w[c]) : c \in Range(Below(m, 0))}
    BY WalkAll
<1>4. \A c \in Range(Below(m, 0)) : c \in 1..N /\ c \in Range(w[c])
    <2>1. 0 \in 0..N
        BY <1>1
    <2>2. Range(Below(m, 0)) \subseteq 1..N
        BY <2>1, TreeTypes
    <2>3. \A c \in 1..N : c \in Range(w[c])
        <3>1. \A c \in 1..N : Range(w[c]) = {c} \cup UNION {Range(w[x]) : x \in Range(Below(m, c))}
            BY WalkFrom
        <3> QED
            BY <3>1
    <2> QED
        BY <2>2, <2>3
<1>5. ASSUME Missing # {}
      PROVE  FALSE
    <2>1. PICK x \in Missing : \A y \in Missing : x <= y
        <3>1. Missing \in SUBSET Nat
            BY <1>1
        <3> HIDE DEF Missing
        <3> QED
            BY <1>5, <3>1, LeastExists
    <2>2. PICK p \in 0..N : x \in Range(Below(m, p)) /\ p < x
        BY OnePlace
    <2>3. CASE p = 0
        BY <1>3, <1>4, <2>2, <2>3
    <2>4. CASE p # 0
        <3>1. p \in 1..N /\ p \notin Missing
            BY <1>1, <2>1, <2>2, <2>4
        <3>2. PICK c \in Range(Below(m, 0)) : p \in Range(w[c])
            BY <1>3, <3>1
        <3>3. x \in Range(w[c])
            BY <1>4, <2>2, <3>2, WalkGoesDown
        <3> QED
            BY <1>3, <3>2, <3>3
    <2> QED
        BY <2>3, <2>4
<1> QED
    BY <1>1, <1>2, <1>5

\* Two nodes of one list have no node below them in common.
LEMMA SiblingsApart ==
    ASSUME NEW m, IsTree(m), NEW n \in 0..Len(m.nodes),
           NEW a \in Range(Below(m, n)), NEW b \in Range(Below(m, n)), a # b
    PROVE  Range(walkDeploymentNode(m)[a]) \cap Range(walkDeploymentNode(m)[b]) = {}
<1> DEFINE N == Len(m.nodes)
           w == walkDeploymentNode(m)
           Common == Range(w[a]) \cap Range(w[b])
<1>1. N \in Nat /\ n \in 0..N /\ a \in (n + 1)..N /\ b \in (n + 1)..N
    BY TreeTypes
<1>2. a \in 1..N /\ b \in 1..N /\ n < a /\ n < b
    BY <1>1
<1>3. /\ \A x \in Range(w[a]) : x \in 1..N /\ n < x
      /\ \A x \in Range(w[b]) : x \in 1..N /\ n < x
    <2>1. w[a] \in Seq(a..N) /\ w[b] \in Seq(b..N)
        BY <1>2, WalkFrom
    <2> HIDE DEF w, N
    <2>2. Range(w[a]) \subseteq a..N /\ Range(w[b]) \subseteq b..N
        BY <2>1, RangeType
    <2> QED
        BY <1>1, <1>2, <2>2
<1>4. /\ \A x \in Range(w[a]) \ {a} : \E p \in Range(w[a]) : x \in Range(Below(m, p))
      /\ \A x \in Range(w[b]) \ {b} : \E p \in Range(w[b]) : x \in Range(Below(m, p))
    BY <1>2, WalkCameFrom
<1>5. \A p, q \in 0..N : \A x : x \in Range(Below(m, p)) /\ x \in Range(Below(m, q)) => p = q
    BY OnePlace
<1>6. \A p \in 0..N : \A x \in Range(Below(m, p)) : p < x
    <2>1. \A p \in 0..N : Range(Below(m, p)) \subseteq (p + 1)..N
        BY TreeTypes
    <2> QED
        BY <1>1, <2>1
<1> HIDE DEF w, N
<1>7. ASSUME Common # {}
      PROVE  FALSE
    <2>1. PICK x \in Common : \A y \in Common : x <= y
        <3>1. Common \in SUBSET Nat
            BY <1>3
        <3> HIDE DEF Common
        <3> QED
            BY <1>7, <3>1, LeastExists
    <2>2. x # a
        <3> SUFFICES ASSUME x = a
                     PROVE  FALSE
            OBVIOUS
        <3>1. PICK p \in Range(w[b]) : a \in Range(Below(m, p))
            BY <1>4, <2>1
        <3>2. p \in 0..N /\ n < p
            BY <1>3, <3>1
        <3>3. p = n
            BY <1>1, <1>5, <3>1, <3>2
        <3> QED
            BY <1>1, <3>2, <3>3
    <2>3. x # b
        <3> SUFFICES ASSUME x = b
                     PROVE  FALSE
            OBVIOUS
        <3>1. PICK p \in Range(w[a]) : b \in Range(Below(m, p))
            BY <1>4, <2>1
        <3>2. p \in 0..N /\ n < p
            BY <1>3, <3>1
        <3>3. p = n
            BY <1>1, <1>5, <3>1, <3>2
        <3> QED
            BY <1>1, <3>2, <3>3
    <2>4. PICK p \in Range(w[a]) : x \in Range(Below(m, p))
        BY <1>4, <2>1, <2>2
    <2>5. PICK q \in Range(w[b]) : x \in Range(Below(m, q))
        BY <1>4, <2>1, <2>3
    <2>6. p \in 0..N /\ q \in 0..N
        BY <1>3, <2>4, <2>5
    <2>7. p = q
        BY <1>5, <2>4, <2>5, <2>6
    <2>8. p \in Common /\ p < x
        BY <1>6, <2>4, <2>5, <2>6, <2>7
    <2>9. x <= p /\ x \in Nat /\ p \in Nat
        BY <1>3, <2>1, <2>6, <2>8
    <2> QED
        BY <2>8, <2>9
<1> QED
    BY <1>7 DEF w

LEMMA UnderOnce ==
    ASSUME NEW m, IsTree(m), NEW n \in 0..Len(m.nodes),
           NEW T, Rows(m, walkDeploymentNode(m), n) \in Seq(Seq(T)),
           \A c \in Range(Below(m, n)) : Once(walkDeploymentNode(m)[c])
    PROVE  Once(Under(m, walkDeploymentNode(m), n))
<1> DEFINE w == walkDeploymentNode(m)
           b == Below(m, n)
           rows == Rows(m, w, n)
<1>1. Once(b) /\ \A i \in DOMAIN b : b[i] \in Range(b)
    BY OnePlace DEF Range
<1>2. DOMAIN rows = DOMAIN b /\ \A i \in DOMAIN b : rows[i] = w[b[i]]
    BY DEF Rows
<1>3. \A i \in DOMAIN rows : Once(rows[i])
    BY <1>1, <1>2
<1>4. ASSUME NEW i \in DOMAIN rows, NEW k \in DOMAIN rows, i # k
      PROVE  Range(rows[i]) \cap Range(rows[k]) = {}
    <2>1. b[i] # b[k] /\ b[i] \in Range(b) /\ b[k] \in Range(b)
        BY <1>1, <1>2, <1>4 DEF Once
    <2> HIDE DEF b
    <2>2. \A x, y \in Range(b) : x # y => Range(w[x]) \cap Range(w[y]) = {}
        BY SiblingsApart DEF b
    <2> HIDE DEF w, rows
    <2> QED
        BY <1>2, <2>1, <2>2
<1> HIDE DEF rows
<1>5. rows \in Seq(Seq(T))
    BY DEF rows
<1>6. Once(FlattenSeq(rows))
    BY <1>3, <1>4, <1>5, FlattenOnce
<1> QED
    BY <1>6 DEF Under, rows

\* Each node of a manifest is walked once: no host comes from one node twice.
THEOREM WalkOnce ==
    ASSUME NEW m, IsTree(m)
    PROVE  Once(Walk(m))
<1> DEFINE N == Len(m.nodes)
           w == walkDeploymentNode(m)
           S == {n \in 1..N : Once(w[n])}
<1>1. N \in Nat /\ 0 \in 0..N
    BY TreeTypes
<1>2. \A n \in 1..N : w[n] = <<n>> \o Under(m, w, n)
    BY WalkIs
<1>3. \A n \in 0..N : Range(Below(m, n)) \subseteq (n + 1)..N
    BY TreeTypes
<1>4. ASSUME NEW n \in 1..N, \A c \in 1..N : n < c => c \in S
      PROVE  n \in S
    <2>1. n \in 0..N /\ \A c \in (n + 1)..N : c \in 1..N /\ c \in S
        BY <1>1, <1>4
    <2>2. \A c \in (n + 1)..N : w[c] \in Seq((n + 1)..N)
        <3> SUFFICES ASSUME NEW c \in (n + 1)..N
                     PROVE  w[c] \in Seq((n + 1)..N)
            OBVIOUS
        <3>1. w[c] \in Seq(c..N) /\ c..N \subseteq (n + 1)..N
            BY <1>1, <2>1, WalkFrom
        <3> HIDE DEF w
        <3>2. \A i \in 1..Len(w[c]) : w[c][i] \in (n + 1)..N
            BY <3>1
        <3> QED
            BY <3>1, <3>2
    <2>3. Rows(m, w, n) \in Seq(Seq((n + 1)..N)) /\ Under(m, w, n) \in Seq((n + 1)..N)
        BY <2>1, <2>2, RowsType
    <2>4. Once(Under(m, w, n))
        <3>1. \A c \in Range(Below(m, n)) : Once(w[c])
            BY <1>3, <2>1
        <3> QED
            BY <2>1, <2>3, <3>1, UnderOnce
    <2> HIDE DEF w
    <2>5. Under(m, w, n) \in Seq(Nat) /\ n \in Nat
        <3>1. (n + 1)..N \subseteq Nat
            BY <1>1
        <3>2. \A i \in 1..Len(Under(m, w, n)) : Under(m, w, n)[i] \in Nat
            BY <2>3, <3>1
        <3> QED
            BY <1>1, <2>3, <3>2
    <2>6. n \notin Range(Under(m, w, n))
        <3>1. Range(Under(m, w, n)) \subseteq (n + 1)..N
            BY <2>3 DEF Range
        <3>2. n \notin (n + 1)..N
            BY <1>1
        <3> QED
            BY <3>1, <3>2
    <2>7. Once(<<n>> \o Under(m, w, n))
        BY <2>4, <2>5, <2>6, ConsFacts
    <2> QED
        BY <1>2, <2>7
<1>5. 1..N \subseteq S
    <2> HIDE DEF S, N
    <2>1. \A n \in 1..N : (\A c \in 1..N : n < c => c \in S) => n \in S
        BY <1>4
    <2> QED
        BY <1>1, <2>1, Descent
<1>6. \A c \in Range(Below(m, 0)) : Once(w[c])
    <2>1. Range(Below(m, 0)) \subseteq 1..N
        BY <1>1, <1>3
    <2> QED
        BY <1>5, <2>1
<1>7. Rows(m, w, 0) \in Seq(Seq(1..N)) /\ Walk(m) = Under(m, w, 0)
    BY WalkAll, WalkIs
<1> QED
    BY <1>1, <1>6, <1>7, UnderOnce

------------------------------------------------------------------------------
(* What a manifest is mapped to *)

\* The hosts are those of the valid nodes, in the order of the walk.
MappedFrom(m, hosts, from) ==
    /\ from \in [DOMAIN hosts -> DOMAIN Walk(m)]
    /\ \A p \in DOMAIN hosts : DeclaresAll(hosts[p], m, Walk(m)[from[p]])
    /\ \A p, q \in DOMAIN hosts : p < q => from[p] < from[q]
    /\ \A p \in DOMAIN hosts : ValidNode(m.nodes[Walk(m)[from[p]]])
    /\ \A n \in DOMAIN m.nodes : ValidNode(m.nodes[n]) =>
            \E p \in DOMAIN hosts : Walk(m)[from[p]] = n

LEMMA MappedManifest ==
    ASSUME NEW m, IsManifest(m)
    PROVE  LET result == MapManifest(m, Walk(m))
           IN  /\ Len(result.hosts) \in Nat /\ DOMAIN result.hosts = 1..Len(result.hosts)
               /\ \E from : MappedFrom(m, result.hosts, from)
               /\ \A n \in DOMAIN m.nodes : \A k :
                    <<n, k>> \in result.warnings <=> <<n, k>> \in walkWarnings(m, n)
<1> DEFINE order == Walk(m)
           result == MapManifest(m, order)
           l == Len(order)
           found == [k \in 1..l |-> walkedHost(m, order[k])]
           rows == [k \in 1..l |-> Appended(found[k])]
           hosts == FlattenSeq(rows)
<1>1. IsTree(m)
    BY DEF IsManifest
<1>2. /\ l \in Nat /\ DOMAIN order = 1..l
      /\ \A k \in 1..l : order[k] \in DOMAIN m.nodes
      /\ \A n \in DOMAIN m.nodes : \E k \in 1..l : order[k] = n
    <2>1. order \in Seq(1..Len(m.nodes)) /\ Range(order) = DOMAIN m.nodes
        BY <1>1, WalkAll, WalkCovers
    <2> HIDE DEF order
    <2>2. l \in Nat /\ DOMAIN order = 1..l
        BY <2>1
    <2> QED
        BY <2>1, <2>2 DEF Range
<1>3. rows = [k \in DOMAIN order |-> Appended(walkedHost(m, order[k]))]
    <2> HIDE DEF order
    <2> QED
        BY <1>2
<1>4. result.hosts = hosts /\ result.warnings = UNION {walkWarnings(m, n) : n \in DOMAIN m.nodes}
    <2>1. Range(order) = DOMAIN m.nodes
        BY <1>1, WalkCovers
    <2> HIDE DEF order, rows
    <2> QED
        BY <1>3, <2>1 DEF MapManifest
<1>5. \A k \in 1..l : /\ found[k] # {} <=> ValidNode(m.nodes[order[k]])
                      /\ \A h \in found[k] : DeclaresAll(h, m, order[k])
    <2> HIDE DEF order
    <2> QED
        BY <1>2, WalkedHost
<1> HIDE DEF order, result, found
<1>6. /\ Len(hosts) \in Nat /\ DOMAIN hosts = 1..Len(hosts)
      /\ \E from : Collects(hosts, found, l, from)
    <2>1. rows = [k \in 1..l |-> Appended(found[k])]
        OBVIOUS
    <2> HIDE DEF rows, l
    <2>2. /\ Len(FlattenSeq(rows)) \in Nat
          /\ DOMAIN FlattenSeq(rows) = 1..Len(FlattenSeq(rows))
        BY <1>2, <2>1, CollectsAll
    <2>3. \E from : Collects(FlattenSeq(rows), found, l, from)
        BY <1>2, <2>1, CollectsAll
    <2> QED
        BY <2>2, <2>3
<1> HIDE DEF rows, hosts
<1>7. Len(hosts) \in Nat /\ DOMAIN hosts = 1..Len(hosts)
    BY <1>6
<1>8. PICK from : Collects(hosts, found, l, from)
    BY <1>6
<1>9. MappedFrom(m, hosts, from)
    <2>1. /\ from \in [DOMAIN hosts -> 1..l]
          /\ \A p \in DOMAIN hosts : from[p] \in 1..l /\ hosts[p] \in found[from[p]]
          /\ \A p, q \in DOMAIN hosts : p < q => from[p] < from[q]
          /\ \A k \in 1..l : found[k] # {} => \E p \in DOMAIN hosts : from[p] = k
        BY <1>8 DEF Collects
    <2>2. \A p \in DOMAIN hosts : /\ DeclaresAll(hosts[p], m, order[from[p]])
                                  /\ ValidNode(m.nodes[order[from[p]]])
        BY <1>5, <2>1
    <2>3. ASSUME NEW n \in DOMAIN m.nodes, ValidNode(m.nodes[n])
          PROVE  \E p \in DOMAIN hosts : order[from[p]] = n
        <3>1. PICK k \in 1..l : order[k] = n
            BY <1>2
        <3>2. found[k] # {}
            BY <1>5, <2>3, <3>1
        <3> QED
            BY <2>1, <3>1, <3>2
    <2> QED
        BY <1>2, <2>1, <2>2, <2>3 DEF MappedFrom, order
<1>10. ASSUME NEW n \in DOMAIN m.nodes, NEW k
       PROVE  <<n, k>> \in result.warnings <=> <<n, k>> \in walkWarnings(m, n)
    <2>1. ASSUME NEW x \in DOMAIN m.nodes, <<n, k>> \in walkWarnings(m, x)
          PROVE  x = n
        BY <2>1, WalkWarnings
    <2> QED
        BY <1>4, <2>1
<1> QED
    BY <1>4, <1>7, <1>9, <1>10 DEF order, result

\* The last host of an id.
LastOfID(hosts, id) == Max({q \in 1..Len(hosts) : hosts[q].hostID = id})

LEMMA LastOfIDIsLast ==
    ASSUME NEW hosts, Len(hosts) \in Nat, NEW i \in 1..Len(hosts), NEW id, hosts[i].hostID = id
    PROVE  /\ LastOfID(hosts, id) \in 1..Len(hosts) /\ hosts[LastOfID(hosts, id)].hostID = id
           /\ \A q \in 1..Len(hosts) : hosts[q].hostID = id => q <= LastOfID(hosts, id)
<1> DEFINE I == {q \in 1..Len(hosts) : hosts[q].hostID = id}
<1>1. I \in SUBSET (1..Len(hosts)) /\ I # {}
    OBVIOUS
<1>2. Max(I) \in I /\ \A q \in I : q <= Max(I)
    <2> HIDE DEF I
    <2> QED
        BY <1>1, MaxIsGreatest
<1> QED
    BY <1>2 DEF LastOfID

LEMMA SelectedLast ==
    ASSUME NEW hosts, Len(hosts) \in Nat, NEW id, \E i \in 1..Len(hosts) : hosts[i].hostID = id
    PROVE  SelectLastInSeq(hosts, LAMBDA h : h.hostID = id) = LastOfID(hosts, id)
<1>1. {q \in 1..Len(hosts) : hosts[q].hostID = id} # {}
    OBVIOUS
<1> QED
    BY <1>1 DEF SelectLastInSeq, LastOfID

\* The hosts by id, after those of a file have come.
IDsOf(hosts) == {hosts[p].hostID : p \in DOMAIN hosts}

LastOfIDs(hosts) == [id \in IDsOf(hosts) |-> hosts[LastOfID(hosts, id)]]

LEMMA LastOfIDsIs ==
    ASSUME NEW hosts, Len(hosts) \in Nat, DOMAIN hosts = 1..Len(hosts), NEW id \in IDsOf(hosts)
    PROVE  \E q \in DOMAIN hosts :
                /\ hosts[q].hostID = id /\ LastOfIDs(hosts)[id] = hosts[q]
                /\ \A k \in DOMAIN hosts : hosts[k].hostID = id => k <= q
<1>1. PICK p \in 1..Len(hosts) : hosts[p].hostID = id
    BY DEF IDsOf
<1>2. LastOfIDs(hosts)[id] = hosts[LastOfID(hosts, id)]
    BY DEF LastOfIDs
<1> QED
    BY <1>1, <1>2, LastOfIDIsLast

LEMMA MergedOld ==
    ASSUME NEW byID, NEW hosts, Len(hosts) \in Nat, DOMAIN hosts = 1..Len(hosts)
    PROVE  /\ DOMAIN Merge(byID, hosts) = DOMAIN byID \cup IDsOf(hosts)
           /\ \A id \in DOMAIN byID : id \notin IDsOf(hosts) => Merge(byID, hosts)[id] = byID[id]
<1>1. {h.hostID : h \in ToSet(hosts)} = IDsOf(hosts)
    BY DEF ToSet, IDsOf
<1> QED
    BY <1>1 DEF Merge

LEMMA MergedNew ==
    ASSUME NEW byID, NEW hosts, Len(hosts) \in Nat, DOMAIN hosts = 1..Len(hosts)
    PROVE  \A id \in IDsOf(hosts) : Merge(byID, hosts)[id] = LastOfIDs(hosts)[id]
<1>1. {h.hostID : h \in ToSet(hosts)} = IDsOf(hosts)
    BY DEF ToSet, IDsOf
<1>2. ASSUME NEW id \in IDsOf(hosts)
      PROVE  hosts[SelectLastInSeq(hosts, LAMBDA h : h.hostID = id)] = LastOfIDs(hosts)[id]
    <2>1. \E i \in 1..Len(hosts) : hosts[i].hostID = id
        BY DEF IDsOf
    <2> QED
        BY <2>1, SelectedLast DEF LastOfIDs
<1>3. Merge(byID, hosts) = [id \in DOMAIN byID \cup IDsOf(hosts) |->
                                IF id \in IDsOf(hosts) THEN LastOfIDs(hosts)[id] ELSE byID[id]]
    BY <1>1, <1>2 DEF Merge
<1> QED
    BY <1>3

LEMMA Replaced ==
    ASSUME NEW byID, NEW hosts, Len(hosts) \in Nat, DOMAIN hosts = 1..Len(hosts)
    PROVE  /\ Duplicates(byID, hosts) \subseteq IDsOf(hosts)
           /\ \A p \in DOMAIN hosts : hosts[p].hostID \in DOMAIN byID =>
                hosts[p].hostID \in Duplicates(byID, hosts)
           /\ \A p, q \in DOMAIN hosts : p # q /\ hosts[p].hostID = hosts[q].hostID =>
                hosts[p].hostID \in Duplicates(byID, hosts)
<1> DEFINE again == {j \in DOMAIN hosts : hosts[j].hostID \in DOMAIN byID \/
                            \E k \in 1..(j - 1) : hosts[k].hostID = hosts[j].hostID}
<1>1. Duplicates(byID, hosts) = {hosts[i].hostID : i \in again}
    <2> DEFINE id == [i \in DOMAIN hosts |-> hosts[i].hostID]
    <2>1. \A i \in DOMAIN hosts : id[i] = hosts[i].hostID
        OBVIOUS
    <2>2. Duplicates(byID, hosts) =
            {id[i] : i \in {j \in DOMAIN hosts : id[j] \in DOMAIN byID \/
                                             \E k \in 1..(j - 1) : id[k] = id[j]}}
        BY DEF Duplicates
    <2>3. \A j \in DOMAIN hosts : \A k \in 1..(j - 1) : k \in DOMAIN hosts
        OBVIOUS
    <2> HIDE DEF id
    <2>4. {j \in DOMAIN hosts : id[j] \in DOMAIN byID \/ \E k \in 1..(j - 1) : id[k] = id[j]} = again
        BY <2>1, <2>3
    <2> HIDE DEF again
    <2>5. again \subseteq DOMAIN hosts
        BY DEF again
    <2> QED
        BY <2>1, <2>2, <2>4, <2>5
<1>2. \A p, q \in DOMAIN hosts : p < q => p \in 1..(q - 1)
    OBVIOUS
<1>3. \A p, q \in DOMAIN hosts : p < q \/ q < p \/ p = q
    OBVIOUS
<1>4. \A p, q \in DOMAIN hosts : p < q /\ hosts[p].hostID = hosts[q].hostID => q \in again
    BY <1>2
<1>5. \A p \in DOMAIN hosts : hosts[p].hostID \in DOMAIN byID => p \in again
    OBVIOUS
<1>6. again \subseteq DOMAIN hosts
    OBVIOUS
<1> HIDE DEF again
<1> QED
    BY <1>1, <1>3, <1>4, <1>5, <1>6 DEF IDsOf

------------------------------------------------------------------------------
(* The inductive invariant *)

FilesOK ==
    /\ jsonFiles \in Seq(JSONNames)
    /\ \A i, j \in DOMAIN jsonFiles : i < j => Precedes(jsonFiles[i], jsonFiles[j])
    /\ ignored \in 0..Cardinality(Names)
    /\ read \in Seq(Contents) /\ at \in 1..(Len(jsonFiles) + 1) /\ Len(read) = at - 1

CountsOK ==
    /\ loadedFiles = Cardinality({i \in DOMAIN read : Parses(read[i])})
    /\ loadedFiles \in Nat /\ brokenFiles \in Nat /\ loadedFiles + brokenFiles = at - 1

\* d is the last valid declaration of its id.
IsLast(d) == \A e \in ValidOnes \ {d} : IdOf(e) = IdOf(d) => Before(e, d)

HostsOK ==
    /\ IsFiniteSet(DOMAIN hostsByID)
    /\ \A d \in ValidOnes : IdOf(d) \in DOMAIN hostsByID
    /\ \A id \in DOMAIN hostsByID : \E d \in ValidOnes :
            IdOf(d) = id /\ IsLast(d) /\ DeclaresAll(hostsByID[id], read[d[1]], d[2])

ReplacedOK ==
    /\ replaced \subseteq DOMAIN hostsByID
    /\ \A d, e \in ValidOnes : d # e /\ IdOf(d) = IdOf(e) => IdOf(d) \in replaced

WarningsOK ==
    /\ \A w \in warnings : w[1] \in 1..(at - 1)
    /\ \A d \in Declarations : \A k :
            <<d[1], <<d[2], k>>>> \in warnings <=> <<d[2], k>> \in walkWarnings(read[d[1]], d[2])

\* What is served: the hosts by id, as a list and by the index.
Published ==
    /\ at \notin DOMAIN jsonFiles
    /\ Len(snapshot.hosts) = Cardinality(DOMAIN hostsByID)
    /\ DOMAIN snapshot.hosts = 1..Len(snapshot.hosts)
    /\ \A i, j \in DOMAIN snapshot.hosts :
            i < j => Precedes(snapshot.hosts[i].hostID, snapshot.hosts[j].hostID)
    /\ \A i \in DOMAIN snapshot.hosts :
            /\ snapshot.hosts[i].hostID \in DOMAIN hostsByID
            /\ snapshot.hosts[i] = hostsByID[snapshot.hosts[i].hostID]
    /\ \A id \in DOMAIN hostsByID : \E i \in DOMAIN snapshot.hosts : snapshot.hosts[i].hostID = id
    /\ DOMAIN index = DOMAIN hostsByID /\ \A id \in DOMAIN index : index[id] = hostsByID[id]
    /\ snapshot.metadata.filesTotal = Len(jsonFiles) + ignored
    /\ snapshot.metadata.filesIgnored = ignored
    /\ snapshot.metadata.filesLoaded = loadedFiles
    /\ snapshot.metadata.filesBroken = brokenFiles
    /\ snapshot.metadata.hostsTotal = Len(snapshot.hosts)
    /\ ready = (loadedFiles > 0)

StoreOK ==
    /\ phase \in {"down", "loading", "loaded", "serving", "stopping"}
    /\ IF Stored THEN Published ELSE snapshot = NewStore /\ index = NoHosts /\ ready = FALSE

\* What a request has been told so far is what the store holds.
Truthful(a) ==
    \/ a.op = "none"
    \/ /\ Serving /\ a.op = "reading" /\ a.to = "list"
       /\ a.hosts = Select(snapshot.hosts, a.query)
    \/ /\ Serving /\ a.op = "reading" /\ a.to = "host"
       /\ a.query \in DOMAIN index /\ a.hosts = <<index[a.query]>>
    \/ Serving /\ a.op = "asking" /\ a.metadata = snapshot.metadata
    \/ /\ Serving /\ a.op = "answered" /\ a.to = "all" /\ a.code = 200
       /\ a.hosts = snapshot.hosts /\ a.metadata = snapshot.metadata
    \/ /\ Serving /\ a.op = "answered" /\ a.to = "list" /\ a.code = 200
       /\ a.hosts = Select(snapshot.hosts, a.query) /\ a.metadata = snapshot.metadata
    \/ /\ Serving /\ a.op = "answered" /\ a.to = "host" /\ a.code = 200
       /\ a.query \in DOMAIN index /\ a.hosts = <<index[a.query]>>
       /\ a.metadata = snapshot.metadata
    \/ /\ Serving /\ a.op = "answered" /\ a.to = "host" /\ a.code = 404
       /\ a.query \notin DOMAIN index
    \/ /\ Serving /\ a.op = "answered" /\ a.to = "readyz" /\ a.code = IF ready THEN 200 ELSE 503
       /\ a.metadata = snapshot.metadata

CallsOK ==
    /\ call = [r \in Clients |-> call[r]]
    /\ \A r \in Clients : Truthful(call[r])

WorldOK == disk \in [Names -> Contents] /\ edits \in 0..MaxEdits

IInv == /\ WorldOK /\ FilesOK /\ CountsOK /\ HostsOK /\ ReplacedOK /\ WarningsOK
        /\ StoreOK /\ CallsOK

------------------------------------------------------------------------------
(* Nothing has been read *)

LEMMA NothingParsed == Cardinality({i \in DOMAIN << >> : Parses(<< >>[i])}) = 0
<1>1. {i \in DOMAIN << >> : Parses(<< >>[i])} = {}
    OBVIOUS
<1> QED
    BY <1>1, FS_EmptySet

LEMMA NamesCount == Cardinality(Names) \in Nat
BY ParserAssumption, FS_CardinalityType

LEMMA InitHolds == Init => IInv
<1> SUFFICES ASSUME Init
             PROVE  IInv
    OBVIOUS
<1> USE DEF Init
<1>1. Declarations = {} /\ ValidOnes = {}
    <2>1. {j \in DOMAIN read : Parses(read[j])} = {}
        OBVIOUS
    <2>2. Declarations = {}
        BY <2>1 DEF Declarations
    <2> QED
        BY <2>2 DEF ValidOnes
<1>2. WorldOK
    <2>1. disk \in [Names -> {disk[f] : f \in Names}] /\ {disk[f] : f \in Names} \subseteq Contents
        BY ParserAssumption DEF Contents
    <2>2. disk \in [Names -> Contents]
        BY <2>1
    <2> QED
        BY <2>2, ParserAssumption DEF WorldOK
<1>3. FilesOK
    BY NamesCount DEF FilesOK
<1>4. CountsOK
    BY NothingParsed DEF CountsOK
<1>5. HostsOK
    <2>1. DOMAIN hostsByID = {}
        BY DEF NoHosts
    <2> QED
        BY <1>1, <2>1, FS_EmptySet DEF HostsOK
<1>6. ReplacedOK /\ WarningsOK
    BY <1>1 DEF ReplacedOK, WarningsOK
<1>7. StoreOK
    BY DEF StoreOK, Stored
<1>8. CallsOK
    BY DEF CallsOK, Truthful, NoCall
<1> QED
    BY <1>2, <1>3, <1>4, <1>5, <1>6, <1>7, <1>8 DEF IInv

LEMMA FreshHolds ==
    ASSUME Fresh, jsonFiles' \in Seq(JSONNames), ignored' \in 0..Cardinality(Names),
           \A i, j \in DOMAIN jsonFiles' : i < j => Precedes(jsonFiles[i], jsonFiles[j])'
    PROVE  FilesOK' /\ CountsOK' /\ HostsOK' /\ ReplacedOK' /\ WarningsOK'
<1> USE DEF Fresh
<1>1. Declarations' = {} /\ ValidOnes' = {}
    <2>1. {j \in DOMAIN read' : Parses(read'[j])} = {}
        OBVIOUS
    <2>2. Declarations' = {}
        BY <2>1 DEF Declarations
    <2> QED
        BY <2>2 DEF ValidOnes
<1>2. FilesOK'
    BY DEF FilesOK
<1>3. CountsOK'
    BY NothingParsed DEF CountsOK
<1>4. HostsOK'
    <2>1. DOMAIN hostsByID' = {}
        BY DEF NoHosts
    <2> QED
        BY <1>1, <2>1, FS_EmptySet DEF HostsOK
<1>5. ReplacedOK' /\ WarningsOK'
    BY <1>1 DEF ReplacedOK, WarningsOK
<1> QED
    BY <1>2, <1>3, <1>4, <1>5

LEMMA LoadingKept ==
    ASSUME IInv, UNCHANGED loading
    PROVE  FilesOK' /\ CountsOK' /\ HostsOK' /\ ReplacedOK' /\ WarningsOK'
<1> USE DEF loading, IInv
<1>1. Declarations' = Declarations /\ \A d : NodeOf(d)' = NodeOf(d)
    BY DEF Declarations, NodeOf
<1>2. ValidOnes' = ValidOnes /\ \A d : IdOf(d)' = IdOf(d)
    BY <1>1 DEF ValidOnes, IdOf
<1>3. \A d : IsLast(d)' <=> IsLast(d)
    <2>1. \A d, e : Before(d, e)' <=> Before(d, e)
        BY DEF Before
    <2> QED
        BY <1>2, <2>1 DEF IsLast
<1>4. FilesOK' /\ CountsOK'
    BY DEF FilesOK, CountsOK
<1>5. HostsOK'
    BY <1>2, <1>3 DEF HostsOK
<1>6. ReplacedOK'
    BY <1>2 DEF ReplacedOK
<1>7. WarningsOK'
    BY <1>1 DEF WarningsOK
<1> QED
    BY <1>4, <1>5, <1>6, <1>7

------------------------------------------------------------------------------
(* One more file is read *)

LEMMA ParsedIsManifest ==
    ASSUME NEW c \in Contents, Parses(c)
    PROVE  IsManifest(c)
BY ParserAssumption DEF Parses

\* The declarations that the file at adds.
New(c) == {<<at, n>> : n \in {k \in DOMAIN c.nodes : Parses(c)}}

LEMMA ReadMore ==
    ASSUME IInv, NEW c \in Contents, read' = Append(read, c)
    PROVE  /\ DOMAIN read = 1..(at - 1) /\ DOMAIN read' = 1..at /\ at \in Nat
           /\ read'[at] = c /\ \A i \in 1..(at - 1) : read'[i] = read[i]
           /\ Declarations' = Declarations \cup New(c)
           /\ ValidOnes' = ValidOnes \cup {d \in New(c) : ValidNode(c.nodes[d[2]])}
           /\ \A d \in Declarations : /\ d[1] \in 1..(at - 1) /\ Parses(read[d[1]])
                                      /\ d[2] \in DOMAIN read[d[1]].nodes
                                      /\ NodeOf(d)' = NodeOf(d) /\ IdOf(d)' = IdOf(d)
           /\ \A d \in New(c) : d[1] = at /\ d[2] \in DOMAIN c.nodes /\ d = <<at, d[2]>>
                                /\ Parses(c) /\ NodeOf(d)' = c.nodes[d[2]]
<1>1. /\ DOMAIN read = 1..(at - 1) /\ DOMAIN read' = 1..at /\ at \in Nat
      /\ read'[at] = c /\ \A i \in 1..(at - 1) : read'[i] = read[i]
    <2>1. read \in Seq(Contents) /\ at \in Nat /\ Len(read) = at - 1
        BY DEF IInv, FilesOK
    <2>2. /\ Append(read, c)[Len(read) + 1] = c
          /\ \A i \in 1..Len(read) : Append(read, c)[i] = read[i]
          /\ DOMAIN Append(read, c) = 1..(Len(read) + 1) /\ DOMAIN read = 1..Len(read)
        BY <2>1
    <2>3. Len(read) + 1 = at
        BY <2>1
    <2> QED
        BY <2>1, <2>2, <2>3
<1>2. \A d \in Declarations : /\ d[1] \in 1..(at - 1) /\ Parses(read[d[1]])
                              /\ d[2] \in DOMAIN read[d[1]].nodes
    BY <1>1 DEF Declarations
<1>3. \A d \in New(c) : d[1] = at /\ d[2] \in DOMAIN c.nodes /\ Parses(c) /\ d = <<at, d[2]>>
    BY DEF New
<1>4. /\ \A d \in Declarations : NodeOf(d)' = NodeOf(d) /\ IdOf(d)' = IdOf(d)
      /\ \A d \in New(c) : NodeOf(d)' = c.nodes[d[2]]
    <2>1. \A d \in Declarations : NodeOf(d)' = NodeOf(d)
        BY <1>1, <1>2 DEF NodeOf
    <2>2. \A d \in Declarations : IdOf(d)' = IdOf(d)
        BY <2>1 DEF IdOf
    <2>3. \A d \in New(c) : NodeOf(d)' = c.nodes[d[2]]
        BY <1>1, <1>3 DEF NodeOf
    <2> QED
        BY <2>1, <2>2, <2>3
<1>5. Declarations' = Declarations \cup New(c)
    <2>1. Declarations' = UNION {{<<i, n>> : n \in DOMAIN read'[i].nodes} :
                                    i \in {j \in DOMAIN read' : Parses(read'[j])}}
        BY DEF Declarations
    <2>2. Declarations = UNION {{<<i, n>> : n \in DOMAIN read[i].nodes} :
                                    i \in {j \in DOMAIN read : Parses(read[j])}}
        BY DEF Declarations
    <2>3. ASSUME NEW i \in DOMAIN read', Parses(read'[i]), NEW n \in DOMAIN read'[i].nodes
          PROVE  <<i, n>> \in Declarations \cup New(c)
        <3>1. CASE i = at
            BY <1>1, <2>3, <3>1 DEF New
        <3>2. CASE i # at
            <4>1. i \in DOMAIN read /\ read'[i] = read[i]
                BY <1>1, <3>2
            <4> QED
                BY <2>2, <2>3, <4>1
        <3> QED
            BY <3>1, <3>2
    <2>4. Declarations' \subseteq Declarations \cup New(c)
        BY <2>1, <2>3
    <2>5. ASSUME NEW i \in DOMAIN read, Parses(read[i]), NEW n \in DOMAIN read[i].nodes
          PROVE  <<i, n>> \in Declarations'
        <3>1. i \in DOMAIN read' /\ read'[i] = read[i]
            BY <1>1
        <3> QED
            BY <2>1, <2>5, <3>1
    <2>6. Declarations \subseteq Declarations'
        BY <2>2, <2>5
    <2>7. New(c) \subseteq Declarations'
        <3> SUFFICES ASSUME NEW n \in DOMAIN c.nodes, Parses(c)
                     PROVE  <<at, n>> \in Declarations'
            BY DEF New
        <3>1. at \in DOMAIN read' /\ read'[at] = c
            BY <1>1
        <3> QED
            BY <2>1, <3>1
    <2> QED
        BY <2>4, <2>6, <2>7
<1>6. ValidOnes' = ValidOnes \cup {d \in New(c) : ValidNode(c.nodes[d[2]])}
    BY <1>4, <1>5 DEF ValidOnes
<1> QED
    BY <1>1, <1>2, <1>3, <1>4, <1>5, <1>6

\* Of two declarations of different files, that of the file read later is the later one.
LEMMA FilesInOrder ==
    ASSUME IInv, at \in DOMAIN jsonFiles, jsonFiles' = jsonFiles,
           NEW c \in Contents, read' = Append(read, c)
    PROVE  /\ \A d, e \in Declarations : Before(d, e)' <=> Before(d, e)
           /\ \A d \in Declarations, e \in New(c) : Before(d, e)'
<1>1. /\ at \in Nat /\ \A i \in 1..(at - 1) : read'[i] = read[i]
      /\ \A d \in Declarations : d[1] \in 1..(at - 1)
      /\ \A e \in New(c) : e[1] = at
    BY ReadMore
<1>2. ASSUME NEW d \in Declarations, NEW e \in Declarations
      PROVE  Before(d, e)' <=> Before(d, e)
    <2>1. read'[d[1]] = read[d[1]]
        BY <1>1
    <2>2. jsonFiles' = jsonFiles
        OBVIOUS
    <2>3. Walk(read[d[1]])' = Walk(read[d[1]])
        BY <2>1
    <2>4. Precedes(jsonFiles[d[1]], jsonFiles[e[1]])' <=> Precedes(jsonFiles[d[1]], jsonFiles[e[1]])
        BY <2>2 DEF Precedes
    <2> HIDE DEF Precedes
    <2> QED
        BY <2>3, <2>4 DEF Before
<1>3. ASSUME NEW d \in Declarations, NEW e \in New(c)
      PROVE  Before(d, e)'
    <2>1. d[1] \in DOMAIN jsonFiles /\ d[1] < at /\ e[1] = at /\ d[1] # e[1]
        <3>1. jsonFiles \in Seq(JSONNames) /\ at \in DOMAIN jsonFiles
            BY DEF IInv, FilesOK
        <3> QED
            BY <1>1, <3>1
    <2>2. Precedes(jsonFiles[d[1]], jsonFiles[at])
        BY <2>1 DEF IInv, FilesOK
    <2> QED
        BY <2>1, <2>2 DEF Before, Precedes
<1> QED
    BY <1>2, <1>3

LEMMA CountMore ==
    ASSUME IInv, NEW c \in Contents, read' = Append(read, c), at' = at + 1,
           \/ ~Parses(c) /\ brokenFiles' = brokenFiles + 1 /\ loadedFiles' = loadedFiles
           \/ Parses(c) /\ brokenFiles' = brokenFiles /\ loadedFiles' = loadedFiles + 1
    PROVE  CountsOK'
<1> DEFINE Parsed == {i \in DOMAIN read : Parses(read[i])}
<1>1. /\ DOMAIN read = 1..(at - 1) /\ DOMAIN read' = 1..at /\ at \in Nat
      /\ read'[at] = c /\ \A i \in 1..(at - 1) : read'[i] = read[i]
    BY ReadMore
<1>2. IsFiniteSet(Parsed) /\ Cardinality(Parsed) = loadedFiles /\ at \notin Parsed
    <2>1. at - 1 \in Nat
        BY DEF IInv, FilesOK
    <2>2. IsFiniteSet(1..(at - 1))
        BY <2>1, UpTo
    <2>3. Parsed \in SUBSET (1..(at - 1))
        BY <1>1
    <2>4. IsFiniteSet(Parsed)
        BY <2>2, <2>3, FS_Subset
    <2> QED
        BY <1>1, <2>4 DEF IInv, CountsOK
<1>3. {i \in DOMAIN read' : Parses(read'[i])} = IF Parses(c) THEN Parsed \cup {at} ELSE Parsed
    BY <1>1
<1>4. /\ loadedFiles \in Nat /\ brokenFiles \in Nat /\ loadedFiles + brokenFiles = at - 1
    BY DEF IInv, CountsOK
<1> HIDE DEF Parsed
<1>5. Cardinality(Parsed \cup {at}) = loadedFiles + 1
    <2>1. IsFiniteSet(Parsed) /\ at \notin Parsed /\ Cardinality(Parsed) = loadedFiles
        BY <1>2
    <2>2. Cardinality(Parsed \cup {at}) = Cardinality(Parsed) + 1
        BY <2>1, FS_AddElement
    <2> QED
        BY <2>1, <2>2
<1>6. loadedFiles' = Cardinality({i \in DOMAIN read' : Parses(read'[i])})
    <2>1. Cardinality(Parsed) = loadedFiles
        BY <1>2
    <2>2. CASE Parses(c)
        BY <1>3, <1>5, <2>2
    <2>3. CASE ~Parses(c)
        BY <1>3, <2>1, <2>3
    <2> QED
        BY <2>2, <2>3
<1>7. loadedFiles' \in Nat /\ brokenFiles' \in Nat /\ loadedFiles' + brokenFiles' = at' - 1
    BY <1>1, <1>4
<1> QED
    BY <1>6, <1>7 DEF CountsOK

LEMMA FilesMore ==
    ASSUME IInv, at \in DOMAIN jsonFiles, NEW c \in Contents, read' = Append(read, c),
           at' = at + 1, UNCHANGED <<jsonFiles, ignored>>
    PROVE  FilesOK'
<1>1. /\ jsonFiles \in Seq(JSONNames) /\ read \in Seq(Contents) /\ Len(read) = at - 1 /\ at \in Nat
    BY DEF IInv, FilesOK
<1>2. read' \in Seq(Contents) /\ Len(read') = at' - 1
    BY <1>1
<1>3. at' \in 1..(Len(jsonFiles) + 1)
    BY <1>1
<1> QED
    BY <1>2, <1>3 DEF IInv, FilesOK, Precedes

\* As long as nobody is served, nobody has been told anything.
LEMMA NobodyAsks ==
    ASSUME IInv, ~Serving, UNCHANGED call
    PROVE  CallsOK'
<1>1. \A r \in Clients : call[r].op = "none"
    BY DEF IInv, CallsOK, Truthful
<1> QED
    BY <1>1 DEF IInv, CallsOK, Truthful

LEMMA StillLoading ==
    ASSUME IInv, phase = "loading", UNCHANGED <<phase, store, call>>
    PROVE  StoreOK' /\ CallsOK'
<1>1. CallsOK'
    BY NobodyAsks DEF Serving
<1>2. StoreOK'
    BY DEF IInv, StoreOK, Stored, store
<1> QED
    BY <1>1, <1>2

LEMMA NextContent ==
    ASSUME IInv, at \in DOMAIN jsonFiles
    PROVE  disk[jsonFiles[at]] \in Contents
<1>1. jsonFiles[at] \in Names
    BY ParserAssumption DEF IInv, FilesOK
<1> QED
    BY <1>1 DEF IInv, WorldOK

LEMMA SkipFileHolds == ASSUME IInv, SkipFile PROVE IInv'
<1> USE DEF SkipFile
<1>0. PICK c : c = disk[jsonFiles[at]]
    OBVIOUS
<1>1. /\ c \in Contents /\ ~Parses(c) /\ read' = Append(read, c) /\ at' = at + 1
      /\ at \in DOMAIN jsonFiles /\ jsonFiles' = jsonFiles /\ ignored' = ignored
    BY <1>0, NextContent
<1>2. FilesOK'
    BY <1>1, FilesMore
<1>3. CountsOK'
    BY <1>1, CountMore
<1>4. /\ Declarations' = Declarations /\ ValidOnes' = ValidOnes
      /\ \A d \in Declarations : read'[d[1]] = read[d[1]] /\ IdOf(d)' = IdOf(d)
    <2>1. New(c) = {}
        BY <1>1 DEF New
    <2> QED
        BY <1>1, <2>1, ReadMore
<1>5. ValidOnes \subseteq Declarations
    BY DEF ValidOnes
<1>6. \A d \in ValidOnes : IsLast(d)' <=> IsLast(d)
    <2>1. \A d, e \in Declarations : Before(d, e)' <=> Before(d, e)
        BY <1>1, FilesInOrder
    <2> QED
        BY <1>4, <1>5, <2>1 DEF IsLast
<1>7. HostsOK'
    <2>1. hostsByID' = hostsByID
        OBVIOUS
    <2>2. IsFiniteSet(DOMAIN hostsByID)
        BY DEF IInv, HostsOK
    <2>3. \A d \in ValidOnes : IdOf(d)' \in DOMAIN hostsByID
        BY <1>4, <1>5 DEF IInv, HostsOK
    <2>4. ASSUME NEW id \in DOMAIN hostsByID
          PROVE  \E d \in ValidOnes : /\ IdOf(d)' = id /\ IsLast(d)'
                                      /\ DeclaresAll(hostsByID[id], read'[d[1]], d[2])
        <3>1. PICK d \in ValidOnes : /\ IdOf(d) = id /\ IsLast(d)
                                     /\ DeclaresAll(hostsByID[id], read[d[1]], d[2])
            BY DEF IInv, HostsOK
        <3> QED
            BY <1>4, <1>5, <1>6, <3>1
    <2> QED
        BY <1>4, <2>1, <2>2, <2>3, <2>4 DEF HostsOK
<1>8. ReplacedOK'
    BY <1>4, <1>5 DEF IInv, ReplacedOK
<1>9. WarningsOK'
    <2>1. \A w \in warnings : w[1] \in 1..at
        BY DEF IInv, FilesOK, WarningsOK
    <2>2. at' - 1 = at /\ warnings' = warnings
        BY <1>1 DEF IInv, FilesOK
    <2> QED
        BY <1>1, <1>4, <2>1, <2>2 DEF IInv, WarningsOK
<1>10. WorldOK'
    BY DEF IInv, WorldOK, world
<1>11. StoreOK' /\ CallsOK'
    BY StillLoading
<1> QED
    BY <1>2, <1>3, <1>7, <1>8, <1>9, <1>10, <1>11 DEF IInv

\* The image of 1..n is finite.
LEMMA FiniteImage ==
    ASSUME NEW n \in Nat, NEW f, DOMAIN f = 1..n
    PROVE  IsFiniteSet({f[i] : i \in 1..n})
<1> DEFINE S == {f[i] : i \in 1..n}
           g == [i \in 1..n |-> f[i]]
<1>1. g \in Surjection(1..n, S)
    BY DEF Surjection
<1>2. IsFiniteSet(1..n)
    BY UpTo
<1> HIDE DEF g, S
<1>3. IsFiniteSet(S)
    BY <1>1, <1>2, FS_Surjection
<1> QED
    BY <1>3 DEF S

\* Where the hosts of the file at come from.
Loaded(c, hosts, from) ==
    /\ c \in Contents /\ Parses(c)
    /\ Len(hosts) \in Nat /\ DOMAIN hosts = 1..Len(hosts) /\ MappedFrom(c, hosts, from)

\* The declaration of each of them.
Origin(c, hosts, from) == [p \in DOMAIN hosts |-> <<at, Walk(c)[from[p]]>>]

LEMMA Origins ==
    ASSUME IInv, at \in DOMAIN jsonFiles, jsonFiles' = jsonFiles,
           NEW c, NEW hosts, NEW from, Loaded(c, hosts, from), read' = Append(read, c),
           NEW D, D = Origin(c, hosts, from)
    PROVE  /\ DOMAIN D = DOMAIN hosts
           /\ \A p \in DOMAIN hosts :
                /\ D[p] \in New(c) /\ D[p] \in ValidOnes' /\ IdOf(D[p])' = hosts[p].hostID
                /\ DeclaresAll(hosts[p], read'[D[p][1]], D[p][2])
           /\ \A p, q \in DOMAIN hosts : p < q => Before(D[p], D[q])'
           /\ \A d \in ValidOnes' : d \in ValidOnes \/ \E p \in DOMAIN hosts : d = D[p]
<1>2. /\ at \in Nat /\ read'[at] = c
      /\ ValidOnes' = ValidOnes \cup {d \in New(c) : ValidNode(c.nodes[d[2]])}
      /\ \A d \in New(c) : d[1] = at /\ d[2] \in DOMAIN c.nodes /\ d = <<at, d[2]>>
                           /\ NodeOf(d)' = c.nodes[d[2]]
    BY ReadMore DEF Loaded
<1>3. IsTree(c)
    BY ParsedIsManifest DEF Loaded, IsManifest
<1>4. PICK order : order = Walk(c)
    OBVIOUS
<1>5. \A k \in DOMAIN order : order[k] \in DOMAIN c.nodes
    <2>1. Range(order) = DOMAIN c.nodes
        BY <1>3, <1>4, WalkCovers
    <2> QED
        BY <2>1 DEF Range
<1>6. /\ from \in [DOMAIN hosts -> DOMAIN order]
      /\ \A p \in DOMAIN hosts : /\ DeclaresAll(hosts[p], c, order[from[p]])
                                 /\ ValidNode(c.nodes[order[from[p]]])
      /\ \A p, q \in DOMAIN hosts : p < q => from[p] < from[q]
      /\ \A n \in DOMAIN c.nodes : ValidNode(c.nodes[n]) =>
            \E p \in DOMAIN hosts : order[from[p]] = n
    BY <1>4 DEF Loaded, MappedFrom
<1>7. /\ DOMAIN D = DOMAIN hosts
      /\ \A p \in DOMAIN hosts : D[p] = <<at, order[from[p]]>> /\ from[p] \in DOMAIN order
    BY <1>4, <1>6 DEF Origin
<1>8. ASSUME NEW p \in DOMAIN hosts
      PROVE  /\ D[p] \in New(c) /\ D[p] \in ValidOnes' /\ IdOf(D[p])' = hosts[p].hostID
             /\ DeclaresAll(hosts[p], read'[D[p][1]], D[p][2])
    <2>1. D[p][1] = at /\ D[p][2] = order[from[p]] /\ D[p][2] \in DOMAIN c.nodes
        BY <1>5, <1>7
    <2>2. D[p] \in New(c)
        BY <1>5, <1>7 DEF New, Loaded
    <2>3. D[p] \in ValidOnes'
        BY <1>2, <1>6, <2>1, <2>2
    <2>4. NodeOf(D[p])' = c.nodes[order[from[p]]]
        BY <1>2, <2>1, <2>2
    <2>5. Declares(hosts[p], c.nodes[order[from[p]]])
        BY <1>6 DEF DeclaresAll
    <2>6. IdOf(D[p])' = hosts[p].hostID
        BY <2>4, <2>5 DEF IdOf, Declares
    <2> QED
        BY <1>2, <1>6, <2>1, <2>2, <2>3, <2>6
<1>9. ASSUME NEW p \in DOMAIN hosts, NEW q \in DOMAIN hosts, p < q
      PROVE  Before(D[p], D[q])'
    <2>1. /\ D[p][1] = at /\ D[q][1] = at
          /\ D[p][2] = order[from[p]] /\ D[q][2] = order[from[q]]
          /\ from[p] < from[q] /\ from[p] \in DOMAIN order /\ from[q] \in DOMAIN order
        BY <1>6, <1>7, <1>9
    <2>2. Walk(read'[D[p][1]]) = order
        BY <1>2, <1>4, <2>1
    <2> QED
        BY <2>1, <2>2 DEF Before
<1>10. ASSUME NEW d \in ValidOnes', d \notin ValidOnes
       PROVE  \E p \in DOMAIN hosts : d = D[p]
    <2>1. d \in New(c) /\ ValidNode(c.nodes[d[2]]) /\ d[2] \in DOMAIN c.nodes /\ d = <<at, d[2]>>
        BY <1>2, <1>10
    <2>2. PICK p \in DOMAIN hosts : order[from[p]] = d[2]
        BY <1>6, <2>1
    <2> QED
        BY <1>7, <2>1, <2>2
<1> QED
    BY <1>7, <1>8, <1>9, <1>10

LEMMA LoadFileHolds == ASSUME IInv, LoadFile PROVE IInv'
<1>0. PICK c : c = disk[jsonFiles[at]]
    OBVIOUS
<1>1. PICK result : /\ result = MapManifest(c, Walk(c))
                    /\ warnings' = warnings \cup {<<at, w>> : w \in result.warnings}
                    /\ replaced' = replaced \cup Duplicates(hostsByID, result.hosts)
                    /\ hostsByID' = Merge(hostsByID, result.hosts)
    BY <1>0 DEF LoadFile
<1>2. /\ c \in Contents /\ Parses(c) /\ read' = Append(read, c) /\ at' = at + 1
      /\ at \in DOMAIN jsonFiles /\ jsonFiles' = jsonFiles /\ ignored' = ignored
      /\ loadedFiles' = loadedFiles + 1 /\ brokenFiles' = brokenFiles
    BY <1>0, NextContent DEF LoadFile
<1>3. IsManifest(c)
    BY <1>2, ParsedIsManifest
<1>4. FilesOK' /\ CountsOK'
    BY <1>2, FilesMore, CountMore
<1>5. PICK hosts : hosts = result.hosts
    OBVIOUS
<1>6. PICK from : Loaded(c, hosts, from)
    BY <1>1, <1>2, <1>3, <1>5, MappedManifest DEF Loaded
<1>7. Len(hosts) \in Nat /\ DOMAIN hosts = 1..Len(hosts)
    BY <1>6 DEF Loaded
<1>d. PICK D : D = Origin(c, hosts, from)
    OBVIOUS
<1>8. /\ DOMAIN D = DOMAIN hosts
      /\ \A p \in DOMAIN hosts :
            /\ D[p] \in New(c) /\ D[p] \in ValidOnes' /\ IdOf(D[p])' = hosts[p].hostID
            /\ DeclaresAll(hosts[p], read'[D[p][1]], D[p][2])
      /\ \A p, q \in DOMAIN hosts : p < q => Before(D[p], D[q])'
      /\ \A d \in ValidOnes' : d \in ValidOnes \/ \E p \in DOMAIN hosts : d = D[p]
    <2>1. IInv /\ at \in DOMAIN jsonFiles /\ jsonFiles' = jsonFiles /\ read' = Append(read, c)
        BY <1>2
    <2>2. \A p \in DOMAIN hosts : DeclaresAll(hosts[p], read'[D[p][1]], D[p][2])
        BY <1>6, <1>d, <2>1, Origins
    <2>3. \A p \in DOMAIN hosts : D[p] \in New(c) /\ D[p] \in ValidOnes'
        BY <1>6, <1>d, <2>1, Origins
    <2>4. \A p \in DOMAIN hosts : IdOf(D[p])' = hosts[p].hostID
        BY <1>6, <1>d, <2>1, Origins
    <2>5. \A p, q \in DOMAIN hosts : p < q => Before(D[p], D[q])'
        BY <1>6, <1>d, <2>1, Origins
    <2>6. \A d \in ValidOnes' : d \in ValidOnes \/ \E p \in DOMAIN hosts : d = D[p]
        BY <1>6, <1>d, <2>1, Origins
    <2>7. DOMAIN D = DOMAIN hosts
        BY <1>6, <1>d, <2>1, Origins
    <2> QED
        BY <2>2, <2>3, <2>4, <2>5, <2>6, <2>7
<1>9. /\ \A d \in ValidOnes : /\ d \in ValidOnes' /\ d \in Declarations
                              /\ IdOf(d)' = IdOf(d) /\ read'[d[1]] = read[d[1]]
      /\ \A d, e \in Declarations : Before(d, e)' <=> Before(d, e)
      /\ \A d \in Declarations, e \in New(c) : Before(d, e)'
    BY <1>2, ReadMore, FilesInOrder DEF ValidOnes
<1>10. /\ DOMAIN hostsByID' = DOMAIN hostsByID \cup IDsOf(hosts)
       /\ \A id \in DOMAIN hostsByID : id \notin IDsOf(hosts) => hostsByID'[id] = hostsByID[id]
       /\ \A id \in IDsOf(hosts) : hostsByID'[id] = LastOfIDs(hosts)[id]
    <2>1. hostsByID' = Merge(hostsByID, hosts)
        BY <1>1, <1>5
    <2>2. /\ DOMAIN Merge(hostsByID, hosts) = DOMAIN hostsByID \cup IDsOf(hosts)
          /\ \A id \in DOMAIN hostsByID : id \notin IDsOf(hosts) =>
                Merge(hostsByID, hosts)[id] = hostsByID[id]
        BY <1>7, MergedOld
    <2>3. \A id \in IDsOf(hosts) : Merge(hostsByID, hosts)[id] = LastOfIDs(hosts)[id]
        BY <1>7, MergedNew
    <2> QED
        BY <2>1, <2>2, <2>3
<1>11. HostsOK'
    <2>2. IsFiniteSet(DOMAIN hostsByID')
        <3> DEFINE ids == [p \in 1..Len(hosts) |-> hosts[p].hostID]
        <3>1. IsFiniteSet({ids[p] : p \in 1..Len(hosts)})
            BY <1>7, FiniteImage
        <3>2. {ids[p] : p \in 1..Len(hosts)} = IDsOf(hosts)
            BY <1>7 DEF IDsOf
        <3>3. IsFiniteSet(IDsOf(hosts))
            BY <3>1, <3>2
        <3>4. IsFiniteSet(DOMAIN hostsByID)
            BY DEF IInv, HostsOK
        <3>5. IsFiniteSet(DOMAIN hostsByID \cup IDsOf(hosts))
            BY <3>3, <3>4, FS_Union, Zenon
        <3> QED
            BY <1>10, <3>5
    <2>3. ASSUME NEW d \in ValidOnes'
          PROVE  IdOf(d)' \in DOMAIN hostsByID'
        <3>1. CASE d \in ValidOnes
            BY <1>9, <1>10, <3>1 DEF IInv, HostsOK
        <3>2. CASE \E p \in DOMAIN hosts : d = D[p]
            BY <1>8, <1>10, <3>2 DEF IDsOf
        <3> QED
            BY <1>8, <3>1, <3>2
    <2>4. ASSUME NEW id \in DOMAIN hostsByID'
          PROVE  \E d \in ValidOnes' : /\ IdOf(d)' = id /\ IsLast(d)'
                                       /\ DeclaresAll(hostsByID'[id], read'[d[1]], d[2])
        <3>1. CASE \E p \in DOMAIN hosts : hosts[p].hostID = id
            <4>1. PICK q \in DOMAIN hosts :
                    /\ hosts[q].hostID = id /\ hostsByID'[id] = hosts[q]
                    /\ \A k \in DOMAIN hosts : hosts[k].hostID = id => k <= q
                <5>1. id \in IDsOf(hosts)
                    BY <3>1 DEF IDsOf
                <5> QED
                    BY <1>7, <1>10, <5>1, LastOfIDsIs
            <4>2. PICK d : d = D[q]
                OBVIOUS
            <4>3. /\ d \in ValidOnes' /\ d \in New(c) /\ IdOf(d)' = id
                  /\ DeclaresAll(hostsByID'[id], read'[d[1]], d[2])
                BY <1>8, <4>1, <4>2
            <4>4. ASSUME NEW e \in ValidOnes' \ {d}, IdOf(e)' = id
                  PROVE  Before(e, d)'
                <5>1. CASE e \in ValidOnes
                    BY <1>9, <4>3, <5>1
                <5>2. CASE \E p \in DOMAIN hosts : e = D[p]
                    <6>1. PICK p \in DOMAIN hosts : e = D[p]
                        BY <5>2
                    <6>2. p # q /\ p <= q /\ p \in Int /\ q \in Int
                        BY <1>7, <1>8, <4>1, <4>2, <4>4, <6>1
                    <6> QED
                        BY <1>8, <4>2, <6>1, <6>2
                <5> QED
                    BY <1>8, <5>1, <5>2
            <4> QED
                BY <4>3, <4>4 DEF IsLast
        <3>2. CASE \A p \in DOMAIN hosts : hosts[p].hostID # id
            <4>1. id \in DOMAIN hostsByID /\ hostsByID'[id] = hostsByID[id]
                BY <1>10, <3>2 DEF IDsOf
            <4>2. PICK d \in ValidOnes : /\ IdOf(d) = id /\ IsLast(d)
                                         /\ DeclaresAll(hostsByID[id], read[d[1]], d[2])
                BY <4>1 DEF IInv, HostsOK
            <4>3. ASSUME NEW e \in ValidOnes' \ {d}, IdOf(e)' = id
                  PROVE  Before(e, d)'
                <5>1. e \in ValidOnes
                    BY <1>8, <3>2, <4>3
                <5> QED
                    BY <1>9, <4>2, <4>3, <5>1 DEF IsLast
            <4>4. IsLast(d)'
                BY <1>9, <4>2, <4>3 DEF IsLast
            <4> QED
                BY <1>9, <4>1, <4>2, <4>4
        <3> QED
            BY <3>1, <3>2
    <2> QED
        BY <2>2, <2>3, <2>4 DEF HostsOK
<1>12. ReplacedOK'
    <2>1. /\ Duplicates(hostsByID, hosts) \subseteq IDsOf(hosts)
          /\ \A p \in DOMAIN hosts : hosts[p].hostID \in DOMAIN hostsByID =>
                hosts[p].hostID \in Duplicates(hostsByID, hosts)
          /\ \A p, q \in DOMAIN hosts : p # q /\ hosts[p].hostID = hosts[q].hostID =>
                hosts[p].hostID \in Duplicates(hostsByID, hosts)
        BY <1>7, Replaced
    <2>2. replaced' = replaced \cup Duplicates(hostsByID, hosts)
        BY <1>1, <1>5
    <2>3. replaced' \subseteq DOMAIN hostsByID'
        <3>1. DOMAIN hostsByID' = DOMAIN hostsByID \cup IDsOf(hosts)
            BY <1>10
        <3>2. replaced \subseteq DOMAIN hostsByID
            BY DEF IInv, ReplacedOK
        <3> QED
            BY <2>1, <2>2, <3>1, <3>2
    <2>4. ASSUME NEW d \in ValidOnes', NEW p \in DOMAIN hosts, d # D[p], IdOf(d)' = IdOf(D[p])'
          PROVE  IdOf(d)' \in Duplicates(hostsByID, hosts)
        <3>1. CASE d \in ValidOnes
            <4>1. IdOf(d) \in DOMAIN hostsByID
                BY <3>1 DEF IInv, HostsOK
            <4> QED
                BY <1>8, <1>9, <2>1, <2>4, <3>1, <4>1
        <3>2. CASE \E q \in DOMAIN hosts : d = D[q]
            BY <1>8, <2>1, <2>4, <3>2
        <3> QED
            BY <1>8, <3>1, <3>2
    <2>5. ASSUME NEW d \in ValidOnes', NEW e \in ValidOnes', d # e, IdOf(d)' = IdOf(e)'
          PROVE  IdOf(d)' \in replaced'
        <3>1. CASE d \in ValidOnes /\ e \in ValidOnes
            BY <1>9, <2>2, <2>5, <3>1 DEF IInv, ReplacedOK
        <3>2. CASE \E p \in DOMAIN hosts : e = D[p]
            BY <2>2, <2>4, <2>5, <3>2
        <3>3. CASE \E p \in DOMAIN hosts : d = D[p]
            BY <2>2, <2>4, <2>5, <3>3
        <3> QED
            BY <1>8, <3>1, <3>2, <3>3
    <2> QED
        BY <2>3, <2>5 DEF ReplacedOK
<1>13. WarningsOK'
    <2>1. /\ at \in Nat /\ at' - 1 = at /\ read'[at] = c
          /\ Declarations' = Declarations \cup New(c)
          /\ \A d \in Declarations : d[1] \in 1..(at - 1) /\ read'[d[1]] = read[d[1]]
          /\ \A d \in New(c) : d[1] = at /\ d[2] \in DOMAIN c.nodes
        BY <1>2, ReadMore
    <2>2. PICK told : told = result.warnings
        OBVIOUS
    <2>3. /\ warnings' = warnings \cup {<<at, w>> : w \in told}
          /\ \A n \in DOMAIN c.nodes : \A k : <<n, k>> \in told <=> <<n, k>> \in walkWarnings(c, n)
        BY <1>1, <1>3, <2>2, MappedManifest
    <2>4. \A w \in warnings : w[1] \in 1..(at - 1)
        BY DEF IInv, WarningsOK
    <2>5. \A w \in warnings' : w[1] \in 1..at
        <3>1. \A w \in {<<at, x>> : x \in told} : w[1] = at
            OBVIOUS
        <3>2. warnings' = warnings \cup {<<at, x>> : x \in told}
            BY <2>3
        <3>3. at \in 1..at /\ \A i \in 1..(at - 1) : i \in 1..at
            BY <1>2, <2>1 DEF IInv, FilesOK
        <3> QED
            BY <2>4, <3>1, <3>2, <3>3
    <2>6. ASSUME NEW d \in Declarations, NEW k
          PROVE  <<d[1], <<d[2], k>>>> \in warnings' <=> <<d[2], k>> \in walkWarnings(read'[d[1]], d[2])
        <3>1. d[1] # at
            BY <2>1
        <3>2. <<d[1], <<d[2], k>>>> \in warnings' <=> <<d[1], <<d[2], k>>>> \in warnings
            BY <2>3, <3>1
        <3> QED
            BY <2>1, <3>2 DEF IInv, WarningsOK
    <2>7. ASSUME NEW d \in New(c), NEW k
          PROVE  <<d[1], <<d[2], k>>>> \in warnings' <=> <<d[2], k>> \in walkWarnings(read'[d[1]], d[2])
        <3>1. <<at, <<d[2], k>>>> \notin warnings
            BY <2>1, <2>4
        <3>2. <<at, <<d[2], k>>>> \in warnings' <=> <<d[2], k>> \in told
            BY <2>3, <3>1
        <3> QED
            BY <2>1, <2>3, <3>2
    <2> QED
        BY <2>1, <2>5, <2>6, <2>7 DEF WarningsOK
<1>14. WorldOK'
    BY DEF LoadFile, IInv, WorldOK, world
<1>15. StoreOK' /\ CallsOK'
    BY StillLoading DEF LoadFile
<1> QED
    BY <1>4, <1>11, <1>12, <1>13, <1>14, <1>15 DEF IInv

------------------------------------------------------------------------------
(* The store is filled, and served *)

LEMMA KeysAreIDs ==
    ASSUME IInv, NEW id \in DOMAIN hostsByID
    PROVE  hostsByID[id].hostID = id /\ id \in Text
<1>1. PICK d \in ValidOnes : IdOf(d) = id /\ DeclaresAll(hostsByID[id], read[d[1]], d[2])
    BY DEF IInv, HostsOK
<1> QED
    BY <1>1 DEF DeclaresAll, Declares, IdOf, NodeOf

LEMMA CountersOf ==
    ASSUME NEW hosts
    PROVE  /\ Metadata(hosts).filesTotal = Len(jsonFiles) + ignored
           /\ Metadata(hosts).filesIgnored = ignored
           /\ Metadata(hosts).filesLoaded = loadedFiles
           /\ Metadata(hosts).filesBroken = brokenFiles
           /\ Metadata(hosts).hostsTotal = Len(hosts)
<1> DEFINE total == FoldLeft(LAMBDA n, h : n + Len(h.workloads), 0, hosts)
<1>1. Metadata(hosts) =
        [filesTotal |-> Len(jsonFiles) + ignored, filesLoaded |-> loadedFiles,
         filesBroken |-> brokenFiles, filesIgnored |-> ignored, hostsTotal |-> Len(hosts),
         workloadsTotal |-> total]
    BY DEF Metadata
<1> HIDE DEF total
<1> QED
    BY <1>1

LEMMA StoredOnce ==
    ASSUME IInv, at \notin DOMAIN jsonFiles, UNCHANGED loading,
           NEW ids \in Sorted(DOMAIN hostsByID),
           Replace([i \in DOMAIN ids |-> hostsByID[ids[i]]]), ready' = (loadedFiles > 0)
    PROVE  Published'
<1> DEFINE K == DOMAIN hostsByID
           n == Cardinality(K)
           hosts == [i \in DOMAIN ids |-> hostsByID[ids[i]]]
<1>1. n \in Nat
    BY FS_CardinalityType DEF IInv, HostsOK
<1>2. /\ DOMAIN ids = 1..n /\ \A i \in 1..n : ids[i] \in K
      /\ \A id \in K : \E i \in 1..n : ids[i] = id
      /\ \A i, j \in 1..n : i < j => Precedes(ids[i], ids[j])
    BY DEF Sorted, Range
<1>3. /\ DOMAIN hosts = 1..n
      /\ \A i \in 1..n : hosts[i] = hostsByID[ids[i]] /\ hosts[i].hostID = ids[i]
    BY <1>2, KeysAreIDs
<1>4. Len(hosts) = n
    <2>1. hosts \in Seq({hosts[i] : i \in 1..n})
        BY <1>1, <1>3
    <2> HIDE DEF hosts
    <2> QED
        BY <1>1, <1>3, <2>1
<1>5. PICK list : list = hosts
    OBVIOUS
<1>6. snapshot' = [hosts |-> list, metadata |-> Metadata(list)]
    BY <1>5 DEF Replace
<1>7. index' = [id \in {h.hostID : h \in ToSet(list)} |->
                    list[SelectLastInSeq(list, LAMBDA h : h.hostID = id)]]
    BY <1>5 DEF Replace
<1> HIDE DEF hosts
<1>8. /\ Len(list) = n /\ DOMAIN list = 1..n
      /\ \A i \in 1..n : list[i] = hostsByID[ids[i]] /\ list[i].hostID = ids[i]
    BY <1>3, <1>4, <1>5
<1>9. IDsOf(list) = K
    <2>1. \A i \in DOMAIN list : list[i].hostID \in K
        BY <1>2, <1>8
    <2>2. \A id \in K : \E i \in DOMAIN list : list[i].hostID = id
        BY <1>2, <1>8
    <2> QED
        BY <2>1, <2>2 DEF IDsOf
<1>10. DOMAIN index' = K /\ \A id \in K : index'[id] = hostsByID[id]
    <2>1. {h.hostID : h \in ToSet(list)} = K
        BY <1>9 DEF ToSet, IDsOf
    <2>2. DOMAIN index' = K
        BY <1>7, <2>1
    <2>3. ASSUME NEW id \in K
          PROVE  index'[id] = hostsByID[id]
        <3>1. index'[id] = list[SelectLastInSeq(list, LAMBDA h : h.hostID = id)]
            BY <1>7, <2>1
        <3>2. PICK i \in 1..n : list[i].hostID = id
            BY <1>2, <1>8
        <3>3. SelectLastInSeq(list, LAMBDA h : h.hostID = id) = LastOfID(list, id)
            <4>1. Len(list) \in Nat /\ \E k \in 1..Len(list) : list[k].hostID = id
                BY <1>1, <1>8, <3>2
            <4> QED
                BY <4>1, SelectedLast
        <3>4. LastOfID(list, id) \in 1..n /\ list[LastOfID(list, id)].hostID = id
            BY <1>1, <1>8, <3>2, LastOfIDIsLast
        <3> QED
            BY <1>8, <3>1, <3>3, <3>4
    <2> QED
        BY <2>2, <2>3
<1>11. /\ hostsByID' = hostsByID /\ at' = at /\ jsonFiles' = jsonFiles /\ ignored' = ignored
       /\ loadedFiles' = loadedFiles /\ brokenFiles' = brokenFiles
    BY DEF loading
<1>12. snapshot.hosts' = list
    BY <1>6
<1>13. /\ snapshot.metadata.filesTotal' = Len(jsonFiles) + ignored
       /\ snapshot.metadata.filesIgnored' = ignored
       /\ snapshot.metadata.filesLoaded' = loadedFiles
       /\ snapshot.metadata.filesBroken' = brokenFiles
       /\ snapshot.metadata.hostsTotal' = Len(list)
    <2>1. snapshot'.metadata = Metadata(list)
        BY <1>6
    <2> QED
        BY <2>1, CountersOf
<1>14. \A i \in 1..n : list[i].hostID \in K /\ list[i] = hostsByID[list[i].hostID]
    BY <1>2, <1>8
<1>15. \A id \in K : \E i \in 1..n : list[i].hostID = id
    BY <1>2, <1>8
<1>16. \A i, j \in 1..n : i < j => Precedes(list[i].hostID, list[j].hostID)
    BY <1>2, <1>8
<1>17. \A i, j \in 1..n : i < j => Precedes(list[i].hostID, list[j].hostID)'
    BY <1>16 DEF Precedes
<1> QED
    BY <1>8, <1>10, <1>11, <1>12, <1>13, <1>14, <1>15, <1>17 DEF Published

LEMMA PublishHolds == ASSUME IInv, Publish PROVE IInv'
<1>1. /\ phase = "loading" /\ at \notin DOMAIN jsonFiles /\ ready' = (loadedFiles > 0)
      /\ phase' = "loaded" /\ UNCHANGED <<world, loading, call>>
    BY DEF Publish
<1>2. PICK ids \in Sorted(DOMAIN hostsByID) :
            Replace([i \in DOMAIN ids |-> hostsByID[ids[i]]])
    BY DEF Publish
<1>3. Published'
    BY <1>1, <1>2, StoredOnce
<1>4. StoreOK'
    BY <1>1, <1>3 DEF StoreOK, Stored
<1>5. FilesOK' /\ CountsOK' /\ HostsOK' /\ ReplacedOK' /\ WarningsOK'
    BY <1>1, LoadingKept
<1>6. CallsOK'
    BY <1>1, NobodyAsks DEF Serving
<1>7. WorldOK'
    BY <1>1 DEF IInv, WorldOK, world
<1> QED
    BY <1>4, <1>5, <1>6, <1>7 DEF IInv

LEMMA ServeHolds == ASSUME IInv, Serve PROVE IInv'
<1>1. /\ phase = "loaded" /\ phase' = "serving" /\ UNCHANGED <<world, loading, store, call>>
    BY DEF Serve
<1>2. FilesOK' /\ CountsOK' /\ HostsOK' /\ ReplacedOK' /\ WarningsOK'
    BY <1>1, LoadingKept
<1>3. StoreOK'
    <2>1. Published
        BY <1>1 DEF IInv, StoreOK, Stored
    <2>2. Published'
        BY <1>1, <2>1 DEF Published, Precedes, loading, store
    <2> QED
        BY <1>1, <2>2 DEF StoreOK, Stored
<1>4. CallsOK'
    BY <1>1, NobodyAsks DEF Serving
<1>5. WorldOK'
    BY <1>1 DEF IInv, WorldOK, world
<1> QED
    BY <1>2, <1>3, <1>4, <1>5 DEF IInv

------------------------------------------------------------------------------
(* The readers, the end and the world *)

LEMMA StoreKept ==
    ASSUME IInv, UNCHANGED <<loading, store>>, Stored' <=> Stored,
           phase' \in {"down", "loading", "loaded", "serving", "stopping"}
    PROVE  StoreOK'
<1>1. Stored' <=> Stored
    OBVIOUS
<1>2. ASSUME Stored
      PROVE  Published'
    BY <1>2 DEF IInv, StoreOK, Published, Precedes, loading, store
<1> QED
    BY <1>1, <1>2 DEF IInv, StoreOK, store

LEMMA TruthfulKept ==
    ASSUME Serving' <=> Serving, UNCHANGED store, NEW a
    PROVE  Truthful(a)' <=> Truthful(a)
<1>1. \A h, q : matches(h, q)' <=> matches(h, q)
    BY DEF matches
<1>2. \A q : Select(snapshot.hosts, q)' = Select(snapshot.hosts, q)
    BY DEF store, Select
<1>3. snapshot' = snapshot /\ index' = index /\ ready' = ready
    BY DEF store
<1> QED
    BY <1>2, <1>3 DEF Truthful

\* A request is told something that is true.
LEMMA Told ==
    ASSUME IInv, UNCHANGED <<world, phase, loading, store>>,
           NEW r \in Clients, NEW a, Truthful(a), call' = [call EXCEPT ![r] = a]
    PROVE  IInv'
<1>1. FilesOK' /\ CountsOK' /\ HostsOK' /\ ReplacedOK' /\ WarningsOK'
    BY LoadingKept
<1>2. StoreOK'
    <2>1. /\ UNCHANGED <<loading, store>> /\ (Stored' <=> Stored)
          /\ phase' \in {"down", "loading", "loaded", "serving", "stopping"}
        BY DEF IInv, StoreOK, Stored
    <2> QED
        BY <2>1, StoreKept
<1>3. CallsOK'
    <2>1. call = [c \in Clients |-> call[c]] /\ \A c \in Clients : Truthful(call[c])
        BY DEF IInv, CallsOK
    <2>2. \A b : Truthful(b)' <=> Truthful(b)
        BY TruthfulKept DEF Serving
    <2>3. \A c \in Clients : call'[c] = IF c = r THEN a ELSE call[c]
        BY <2>1
    <2>4. call' = [c \in Clients |-> call'[c]]
        BY <2>1
    <2>5. ASSUME NEW c \in Clients
          PROVE  Truthful(call[c])'
        <3>1. Truthful(call'[c])
            BY <2>1, <2>3
        <3>2. PICK b : b = call'[c]
            OBVIOUS
        <3>3. Truthful(b)'
            BY <2>2, <3>1, <3>2
        <3> QED
            BY <3>2, <3>3
    <2> QED
        BY <2>4, <2>5 DEF CallsOK
<1>4. WorldOK'
    BY DEF IInv, WorldOK, world
<1> QED
    BY <1>1, <1>2, <1>3, <1>4 DEF IInv

LEMMA RequestHolds == ASSUME IInv, NEW r \in Clients, Request(r) PROVE IInv'
<1>1. CASE GetDesiredState(r)
    <2>1. PICK a : a = [op |-> "answered", to |-> "all", code |-> 200,
                        hosts |-> snapshot.hosts, metadata |-> snapshot.metadata]
        OBVIOUS
    <2>2. /\ UNCHANGED <<world, phase, loading, store>> /\ call' = [call EXCEPT ![r] = a]
          /\ Serving
        BY <1>1, <2>1 DEF GetDesiredState, Answer, Asks, Serving
    <2>3. Truthful(a)
        BY <2>1, <2>2 DEF Truthful
    <2> QED
        BY <2>2, <2>3, Told
<1>2. CASE ListHosts(r)
    <2>1. PICK q : call' = [call EXCEPT ![r] = [op |-> "reading", to |-> "list", query |-> q,
                                                hosts |-> Select(snapshot.hosts, q)]]
        BY <1>2 DEF ListHosts
    <2>2. PICK a : a = [op |-> "reading", to |-> "list", query |-> q,
                        hosts |-> Select(snapshot.hosts, q)]
        OBVIOUS
    <2>3. /\ UNCHANGED <<world, phase, loading, store>> /\ call' = [call EXCEPT ![r] = a]
          /\ Serving
        BY <1>2, <2>1, <2>2 DEF ListHosts, Asks, Serving
    <2>4. Truthful(a)
        BY <2>2, <2>3 DEF Truthful
    <2> QED
        BY <2>3, <2>4, Told
<1>3. CASE GetHostByID(r)
    <2>1. PICK id : IF id \in DOMAIN index
                    THEN call' = [call EXCEPT ![r] = [op |-> "reading", to |-> "host",
                                        query |-> id, hosts |-> <<index[id]>>]]
                    ELSE call' = [call EXCEPT ![r] = [op |-> "answered", to |-> "host",
                                        code |-> 404, query |-> id]]
        BY <1>3 DEF GetHostByID, Answer
    <2>2. UNCHANGED <<world, phase, loading, store>> /\ Serving
        BY <1>3 DEF GetHostByID, Asks, Serving
    <2>3. CASE id \in DOMAIN index
        <3>1. PICK a : a = [op |-> "reading", to |-> "host", query |-> id, hosts |-> <<index[id]>>]
            OBVIOUS
        <3>2. Truthful(a)
            BY <2>2, <2>3, <3>1 DEF Truthful
        <3>3. call' = [call EXCEPT ![r] = a]
            BY <2>1, <2>3, <3>1
        <3> QED
            BY <2>2, <3>2, <3>3, Told
    <2>4. CASE id \notin DOMAIN index
        <3>1. PICK a : a = [op |-> "answered", to |-> "host", code |-> 404, query |-> id]
            OBVIOUS
        <3>2. Truthful(a)
            BY <2>2, <2>4, <3>1 DEF Truthful
        <3>3. call' = [call EXCEPT ![r] = a]
            BY <2>1, <2>4, <3>1
        <3> QED
            BY <2>2, <3>2, <3>3, Told
    <2> QED
        BY <2>3, <2>4
<1>4. CASE Readyz(r)
    <2>1. PICK a : a = [op |-> "asking", to |-> "readyz", metadata |-> snapshot.metadata]
        OBVIOUS
    <2>2. /\ UNCHANGED <<world, phase, loading, store>> /\ call' = [call EXCEPT ![r] = a]
          /\ Serving
        BY <1>4, <2>1 DEF Readyz, Asks, Serving
    <2>3. Truthful(a)
        BY <2>1, <2>2 DEF Truthful
    <2> QED
        BY <2>2, <2>3, Told
<1>5. CASE ReadMetadata(r)
    <2>1. PICK b : b = call[r]
        OBVIOUS
    <2>2. PICK a : a = [op |-> "answered", to |-> b.to, code |-> 200, query |-> b.query,
                        hosts |-> b.hosts, metadata |-> snapshot.metadata]
        OBVIOUS
    <2>3. /\ UNCHANGED <<world, phase, loading, store>> /\ call' = [call EXCEPT ![r] = a]
          /\ Serving /\ b.op = "reading"
        BY <1>5, <2>1, <2>2 DEF ReadMetadata, Answer, Waits, Serving
    <2>4. Truthful(b)
        BY <2>1 DEF IInv, CallsOK
    <2>5. CASE b.to = "list" /\ b.hosts = Select(snapshot.hosts, b.query)
        <3>1. Truthful(a)
            BY <2>2, <2>3, <2>5 DEF Truthful
        <3> QED
            BY <2>3, <3>1, Told
    <2>6. CASE b.to = "host" /\ b.query \in DOMAIN index /\ b.hosts = <<index[b.query]>>
        <3>1. Truthful(a)
            BY <2>2, <2>3, <2>6 DEF Truthful
        <3> QED
            BY <2>3, <3>1, Told
    <2> QED
        BY <2>3, <2>4, <2>5, <2>6 DEF Truthful
<1>6. CASE ReadReady(r)
    <2>1. PICK b : b = call[r]
        OBVIOUS
    <2>2. PICK a : a = [op |-> "answered", to |-> "readyz", code |-> IF ready THEN 200 ELSE 503,
                        metadata |-> b.metadata]
        OBVIOUS
    <2>3. /\ UNCHANGED <<world, phase, loading, store>> /\ call' = [call EXCEPT ![r] = a]
          /\ Serving /\ b.op = "asking"
        BY <1>6, <2>1, <2>2 DEF ReadReady, Answer, Waits, Serving
    <2>4. Truthful(b)
        BY <2>1 DEF IInv, CallsOK
    <2>5. Truthful(a)
        BY <2>2, <2>3, <2>4 DEF Truthful
    <2> QED
        BY <2>3, <2>5, Told
<1> QED
    BY <1>1, <1>2, <1>3, <1>4, <1>5, <1>6 DEF Request

LEMMA ShutdownHolds == ASSUME IInv, Shutdown PROVE IInv'
<1>1. /\ phase = "serving" /\ phase' = "stopping" /\ UNCHANGED <<world, loading, store, call>>
    BY DEF Shutdown
<1>2. FilesOK' /\ CountsOK' /\ HostsOK' /\ ReplacedOK' /\ WarningsOK'
    BY <1>1, LoadingKept
<1>3. StoreOK'
    <2>1. /\ UNCHANGED <<loading, store>> /\ (Stored' <=> Stored)
          /\ phase' \in {"down", "loading", "loaded", "serving", "stopping"}
        BY <1>1 DEF IInv, StoreOK, Stored
    <2> QED
        BY <2>1, StoreKept
<1>4. CallsOK'
    <2>1. \A b : Truthful(b)' <=> Truthful(b)
        BY <1>1, TruthfulKept DEF Serving
    <2>2. \A c \in Clients : Truthful(call[c])
        BY DEF IInv, CallsOK
    <2>3. ASSUME NEW c \in Clients
          PROVE  Truthful(call[c])'
        <3>1. PICK b : b = call[c]
            OBVIOUS
        <3>2. b = call'[c]
            BY <1>1, <3>1
        <3>3. Truthful(b)'
            BY <2>1, <2>2, <3>1
        <3> QED
            BY <3>2, <3>3
    <2> QED
        BY <1>1, <2>3 DEF IInv, CallsOK
<1>5. WorldOK'
    BY <1>1 DEF IInv, WorldOK, world
<1> QED
    BY <1>2, <1>3, <1>4, <1>5 DEF IInv

LEMMA ExitHolds == ASSUME IInv, Exit PROVE IInv'
<1> USE DEF Exit
<1>1. FilesOK' /\ CountsOK' /\ HostsOK' /\ ReplacedOK' /\ WarningsOK'
    <2>1. jsonFiles' \in Seq(JSONNames) /\ DOMAIN jsonFiles' = {} /\ ignored' \in 0..Cardinality(Names)
        BY NamesCount
    <2> QED
        BY <2>1, FreshHolds
<1>2. StoreOK'
    BY DEF Fresh, StoreOK, Stored
<1>3. CallsOK'
    BY DEF CallsOK, Truthful, NoCall
<1>4. WorldOK'
    BY DEF IInv, WorldOK, world
<1> QED
    BY <1>1, <1>2, <1>3, <1>4 DEF IInv

LEMMA EditHolds == ASSUME IInv, Edit PROVE IInv'
<1>1. UNCHANGED <<phase, loading, store, call>>
    BY DEF Edit
<1>2. FilesOK' /\ CountsOK' /\ HostsOK' /\ ReplacedOK' /\ WarningsOK'
    BY <1>1, LoadingKept
<1>3. StoreOK'
    <2>1. /\ UNCHANGED <<loading, store>> /\ (Stored' <=> Stored)
          /\ phase' \in {"down", "loading", "loaded", "serving", "stopping"}
        BY <1>1 DEF IInv, StoreOK, Stored
    <2> QED
        BY <2>1, StoreKept
<1>4. CallsOK'
    <2>1. \A b : Truthful(b)' <=> Truthful(b)
        BY <1>1, TruthfulKept DEF Serving
    <2> QED
        BY <1>1, <2>1 DEF IInv, CallsOK
<1>5. WorldOK'
    <2>1. disk \in [Names -> Contents] /\ edits \in 0..MaxEdits /\ Edits \subseteq Contents
        BY DEF IInv, WorldOK, Contents
    <2>2. disk' \in [Names -> Contents]
        BY <2>1 DEF Edit
    <2>3. edits' \in 0..MaxEdits
        BY <2>1, ParserAssumption DEF Edit
    <2> QED
        BY <2>2, <2>3 DEF WorldOK
<1> QED
    BY <1>2, <1>3, <1>4, <1>5 DEF IInv

LEMMA DiscoverHolds == ASSUME IInv, Discover PROVE IInv'
<1>1. /\ phase = "down" /\ phase' = "loading" /\ Fresh /\ UNCHANGED <<world, call>>
    BY DEF Discover
<1>2. PICK there : /\ there \subseteq Names /\ jsonFiles' \in Sorted(there \cap JSONNames)
                   /\ ignored' = Cardinality(there \ JSONNames)
    BY DEF Discover
<1>3. FilesOK' /\ CountsOK' /\ HostsOK' /\ ReplacedOK' /\ WarningsOK'
    <2>1. IsFiniteSet(Names)
        BY ParserAssumption
    <2>2. IsFiniteSet(there \ JSONNames) /\ Cardinality(there \ JSONNames) <= Cardinality(Names)
        <3>1. there \ JSONNames \in SUBSET Names
            BY <1>2
        <3> QED
            BY <2>1, <3>1, FS_Subset
    <2>3. Cardinality(there \ JSONNames) \in Nat /\ Cardinality(Names) \in Nat
        BY <2>1, <2>2, FS_CardinalityType
    <2>4. ignored' \in 0..Cardinality(Names)
        BY <1>2, <2>2, <2>3
    <2>5. Cardinality(there \cap JSONNames) \in Nat
        <3>1. there \cap JSONNames \in SUBSET Names
            BY <1>2
        <3> QED
            BY <2>1, <3>1, FS_Subset, FS_CardinalityType
    <2>6. /\ jsonFiles' \in [1..Cardinality(there \cap JSONNames) -> there \cap JSONNames]
          /\ \A i, j \in DOMAIN jsonFiles' : i < j => Precedes(jsonFiles'[i], jsonFiles'[j])
        BY <1>2 DEF Sorted
    <2>7. jsonFiles' \in Seq(JSONNames)
        <3> DEFINE n == Cardinality(there \cap JSONNames)
        <3>1. n \in Nat /\ jsonFiles' \in [1..n -> JSONNames]
            BY <2>5, <2>6
        <3> HIDE DEF n
        <3> QED
            BY <3>1
    <2>8. \A i, j \in DOMAIN jsonFiles' : i < j => Precedes(jsonFiles[i], jsonFiles[j])'
        BY <2>6 DEF Precedes
    <2> QED
        BY <1>1, <2>4, <2>7, <2>8, FreshHolds
<1>4. StoreOK'
    BY <1>1 DEF Fresh, StoreOK, Stored
<1>5. CallsOK'
    BY <1>1, NobodyAsks DEF Serving
<1>6. WorldOK'
    BY <1>1 DEF IInv, WorldOK, world
<1> QED
    BY <1>3, <1>4, <1>5, <1>6 DEF IInv

------------------------------------------------------------------------------
(* The theorems *)

LEMMA NextHolds == IInv /\ [Next]_vars => IInv'
<1> SUFFICES ASSUME IInv, [Next]_vars
             PROVE  IInv'
    OBVIOUS
<1>1. CASE Discover
    BY <1>1, DiscoverHolds
<1>2. CASE SkipFile
    BY <1>2, SkipFileHolds
<1>3. CASE LoadFile
    BY <1>3, LoadFileHolds
<1>4. CASE Publish
    BY <1>4, PublishHolds
<1>5. CASE Serve
    BY <1>5, ServeHolds
<1>6. CASE \E r \in Clients : Request(r)
    BY <1>6, RequestHolds
<1>7. CASE Shutdown
    BY <1>7, ShutdownHolds
<1>8. CASE Exit
    BY <1>8, ExitHolds
<1>9. CASE Edit
    BY <1>9, EditHolds
<1>10. CASE UNCHANGED vars
    <2>1. UNCHANGED <<phase, loading, store, call>> /\ UNCHANGED world
        BY <1>10 DEF vars
    <2>2. FilesOK' /\ CountsOK' /\ HostsOK' /\ ReplacedOK' /\ WarningsOK'
        BY <2>1, LoadingKept
    <2>3. StoreOK'
        <3>1. /\ UNCHANGED <<loading, store>> /\ (Stored' <=> Stored)
              /\ phase' \in {"down", "loading", "loaded", "serving", "stopping"}
            BY <2>1 DEF IInv, StoreOK, Stored
        <3> QED
            BY <3>1, StoreKept
    <2>4. CallsOK'
        <3>1. \A b : Truthful(b)' <=> Truthful(b)
            BY <2>1, TruthfulKept DEF Serving
        <3> QED
            BY <2>1, <3>1 DEF IInv, CallsOK
    <2>5. WorldOK'
        BY <2>1 DEF IInv, WorldOK, world
    <2> QED
        BY <2>2, <2>3, <2>4, <2>5 DEF IInv
<1> QED
    BY <1>1, <1>2, <1>3, <1>4, <1>5, <1>6, <1>7, <1>8, <1>9, <1>10 DEF Next

\* Whatever the directories hold and whenever they are changed, every reachable state of
\* the parser satisfies the inductive invariant: the hosts by id are those of the last
\* valid declarations of what was read so far, each with what its node says, and nobody has
\* been told anything that the store does not hold.
THEOREM Invariant == Spec => []IInv
<1>1. Init => IInv
    BY InitHolds
<1>2. IInv /\ [Next]_vars => IInv'
    BY NextHolds
<1> QED
    BY <1>1, <1>2, PTL DEF Spec

LEMMA HostsOfStore ==
    ASSUME IInv, Stored
    PROVE  /\ {index[id] : id \in DOMAIN index} = ToSet(snapshot.hosts)
           /\ DOMAIN index = {h.hostID : h \in ToSet(snapshot.hosts)}
           /\ DOMAIN index = DOMAIN hostsByID
           /\ DOMAIN index = {IdOf(d) : d \in ValidOnes}
<1> DEFINE H == snapshot.hosts
<1>1. /\ DOMAIN index = DOMAIN hostsByID /\ \A id \in DOMAIN index : index[id] = hostsByID[id]
      /\ \A i \in DOMAIN H : H[i].hostID \in DOMAIN hostsByID /\ H[i] = hostsByID[H[i].hostID]
      /\ \A id \in DOMAIN hostsByID : \E i \in DOMAIN H : H[i].hostID = id
    BY DEF IInv, StoreOK, Published
<1> HIDE DEF H
<1>2. ToSet(H) = {H[i] : i \in DOMAIN H}
    BY DEF ToSet
<1>3. {index[id] : id \in DOMAIN index} = ToSet(H)
    BY <1>1, <1>2
<1>4. DOMAIN index = {h.hostID : h \in ToSet(H)}
    BY <1>1, <1>2
<1>5. DOMAIN hostsByID = {IdOf(d) : d \in ValidOnes}
    BY DEF IInv, HostsOK
<1> QED
    BY <1>1, <1>3, <1>4, <1>5 DEF H

\* Every variable keeps its type: the files are JSON files in the directory, each file read
\* is counted once, a host is under its own id, and the index is the snapshot by id.
THEOREM TypeCorrect == Spec => []TypeOK
<1>1. IInv => TypeOK
    <2> SUFFICES ASSUME IInv
                 PROVE  TypeOK
        OBVIOUS
    <2>1. /\ disk \in [Names -> Contents] /\ edits \in 0..MaxEdits
          /\ phase \in {"down", "loading", "loaded", "serving", "stopping"}
        BY DEF IInv, WorldOK, StoreOK
    <2>2. /\ ToSet(jsonFiles) \subseteq JSONNames /\ ignored \in 0..Cardinality(Names)
          /\ at \in 1..(Len(jsonFiles) + 1) /\ Len(read) = at - 1
          /\ loadedFiles + brokenFiles = at - 1
        BY DEF IInv, FilesOK, CountsOK, ToSet
    <2>3. /\ \A id \in DOMAIN hostsByID : hostsByID[id].hostID = id
          /\ replaced \subseteq DOMAIN hostsByID
        BY KeysAreIDs DEF IInv, ReplacedOK
    <2>4. ready \in BOOLEAN
        <3>1. ready = (loadedFiles > 0) \/ ready = FALSE
            BY DEF IInv, StoreOK, Published
        <3>2. (loadedFiles > 0) \in BOOLEAN
            OBVIOUS
        <3> QED
            BY <3>1, <3>2, Zenon
    <2>5. /\ {index[id] : id \in DOMAIN index} = ToSet(snapshot.hosts)
          /\ DOMAIN index = {h.hostID : h \in ToSet(snapshot.hosts)}
        <3>1. CASE Stored
            BY <3>1, HostsOfStore
        <3>2. CASE ~Stored
            <4>1. ToSet(snapshot.hosts) = {} /\ DOMAIN index = {}
                BY <3>2 DEF IInv, StoreOK, NewStore, NoHosts, ToSet
            <4> QED
                BY <4>1
        <3> QED
            BY <3>1, <3>2
    <2>6. \A r \in Clients : call[r].op \in {"none", "reading", "asking", "answered"}
        BY DEF IInv, CallsOK, Truthful
    <2> QED
        BY <2>1, <2>2, <2>3, <2>4, <2>5, <2>6 DEF TypeOK
<1> QED
    BY <1>1, Invariant, PTL

\* Whatever order the files were found and the map was ranged over in, what is stored is
\* one host per id, in the order of the ids, and of several valid nodes of one id the last
\* in the files, with exactly its valid instances.
THEOREM LastDeclaredIsServed == Spec => []ServedIsLastDeclared
<1>1. IInv => ServedIsLastDeclared
    <2> SUFFICES ASSUME IInv, Stored
                 PROVE  ServedIsLastDeclared
        BY DEF ServedIsLastDeclared
    <2> DEFINE H == snapshot.hosts
    <2>1. \A i, j \in DOMAIN H : i < j => Precedes(H[i].hostID, H[j].hostID)
        BY DEF IInv, StoreOK, Published
    <2>2. {h.hostID : h \in ToSet(H)} = {IdOf(d) : d \in ValidOnes}
        BY HostsOfStore
    <2>3. ASSUME NEW h \in ToSet(H)
          PROVE  \E d \in ValidOnes :
                LET node == NodeOf(d)
                IN  /\ IdOf(d) = h.hostID
                    /\ \A e \in ValidOnes \ {d} : IdOf(e) = IdOf(d) => Before(e, d)
                    /\ h.fqdn \in normalizeString(node.properties["fqdn"])
                    /\ h.env \in normalizeString(node.properties["env"])
                    /\ <<"env", h.env>> \in h.labels
                    /\ Len(h.workloads) = Cardinality({k \in DOMAIN node.containerInstances :
                            ValidInstance(read[d[1]], node.containerInstances[k])})
        <3>1. h.hostID \in DOMAIN hostsByID /\ h = hostsByID[h.hostID]
            BY DEF IInv, StoreOK, Published, ToSet
        <3>2. PICK d \in ValidOnes : IdOf(d) = h.hostID /\ IsLast(d) /\ DeclaresAll(h, read[d[1]], d[2])
            BY <3>1 DEF IInv, HostsOK
        <3> QED
            BY <3>2 DEF IsLast, DeclaresAll, Declares, NodeOf
    <2> HIDE DEF H
    <2> QED
        BY <2>1, <2>2, <2>3 DEF ServedIsLastDeclared, H
<1> QED
    BY <1>1, Invariant, PTL

\* Nothing that was read is left out without a trace: every file is loaded or counted as
\* broken, every node that is not stored has a warning or a replacement of its id, and an
\* instance of a valid node is left out exactly when a warning says so.
THEOREM NothingIsLostSilently == Spec => []NothingLostSilently
<1>1. IInv => NothingLostSilently
    <2> SUFFICES ASSUME IInv, Stored
                 PROVE  NothingLostSilently
        BY DEF NothingLostSilently
    <2>1. /\ snapshot.metadata.filesTotal = Len(read) + snapshot.metadata.filesIgnored
          /\ snapshot.metadata.filesLoaded = Cardinality({i \in DOMAIN read : Parses(read[i])})
          /\ snapshot.metadata.filesBroken = Len(read) - snapshot.metadata.filesLoaded
        <3>1. Len(read) = Len(jsonFiles)
            <4>1. /\ at \notin DOMAIN jsonFiles /\ jsonFiles \in Seq(JSONNames)
                  /\ at \in 1..(Len(jsonFiles) + 1) /\ Len(read) = at - 1
                BY DEF IInv, StoreOK, Published, FilesOK
            <4> QED
                BY <4>1
        <3>2. /\ snapshot.metadata.filesTotal = Len(jsonFiles) + ignored
              /\ snapshot.metadata.filesIgnored = ignored
              /\ snapshot.metadata.filesLoaded = loadedFiles
              /\ snapshot.metadata.filesBroken = brokenFiles
            BY DEF IInv, StoreOK, Published
        <3>3. /\ loadedFiles = Cardinality({i \in DOMAIN read : Parses(read[i])})
              /\ loadedFiles \in Nat /\ brokenFiles \in Nat /\ loadedFiles + brokenFiles = Len(read)
            BY DEF IInv, CountsOK, FilesOK
        <3>4. brokenFiles = Len(read) - loadedFiles
            BY <3>3
        <3> QED
            BY <3>1, <3>2, <3>3, <3>4
    <2>2. ASSUME NEW d \in Declarations
          PROVE  LET instances == NodeOf(d).containerInstances
                 IN  /\ ValidNode(NodeOf(d)) # (<<d[1], <<d[2], 0>>>> \in warnings)
                     /\ ValidNode(NodeOf(d)) =>
                        /\ IdOf(d) \in DOMAIN index
                        /\ (\E e \in ValidOnes \ {d} : IdOf(e) = IdOf(d)) => IdOf(d) \in replaced
                        /\ \A k \in DOMAIN instances :
                            ValidInstance(read[d[1]], instances[k])
                                # (<<d[1], <<d[2], k>>>> \in warnings)
        <3> DEFINE m == read[d[1]]
                   n == d[2]
                   instances == m.nodes[n].containerInstances
        <3>1. Parses(m) /\ m \in Contents /\ n \in DOMAIN m.nodes /\ NodeOf(d) = m.nodes[n]
            <4>1. read \in Seq(Contents)
                BY DEF IInv, FilesOK
            <4> QED
                BY <4>1 DEF Declarations, NodeOf
        <3>2. IsManifest(m)
            BY <3>1, ParsedIsManifest
        <3>3. \A k : <<d[1], <<n, k>>>> \in warnings <=> <<n, k>> \in walkWarnings(m, n)
            BY DEF IInv, WarningsOK
        <3>4. <<n, 0>> \in walkWarnings(m, n) <=> ~ValidNode(m.nodes[n])
            BY <3>1, <3>2, WalkWarnings
        <3>5. \A k \in DOMAIN instances : ValidNode(m.nodes[n]) =>
                (<<n, k>> \in walkWarnings(m, n) <=> ~ValidInstance(m, instances[k]))
            BY <3>1, <3>2, WalkWarnings
        <3>6. ASSUME ValidNode(NodeOf(d))
              PROVE  /\ IdOf(d) \in DOMAIN index
                     /\ (\E e \in ValidOnes \ {d} : IdOf(e) = IdOf(d)) => IdOf(d) \in replaced
            <4>1. d \in ValidOnes
                BY <3>6 DEF ValidOnes
            <4> QED
                BY <4>1, HostsOfStore DEF IInv, ReplacedOK
        <3>7. ValidNode(NodeOf(d)) # (<<d[1], <<d[2], 0>>>> \in warnings)
            <4>1. /\ ValidNode(m.nodes[n]) \in BOOLEAN
                  /\ ValidNode(m.nodes[n]) <=> ~(<<d[1], <<n, 0>>>> \in warnings)
                BY <3>3, <3>4 DEF ValidNode
            <4> QED
                BY <3>1, <4>1, Zenon
        <3>8. ASSUME ValidNode(NodeOf(d)), NEW k \in DOMAIN instances
              PROVE  ValidInstance(m, instances[k]) # (<<d[1], <<n, k>>>> \in warnings)
            <4>1. /\ ValidInstance(m, instances[k]) \in BOOLEAN
                  /\ ValidInstance(m, instances[k]) <=> ~(<<d[1], <<n, k>>>> \in warnings)
                BY <3>1, <3>3, <3>5, <3>8 DEF ValidInstance
            <4> QED
                BY <4>1, Zenon
        <3> HIDE DEF m, n
        <3> QED
            BY <3>1, <3>6, <3>7, <3>8 DEF m, n
    <2> QED
        BY <2>1, <2>2 DEF NothingLostSilently
<1> QED
    BY <1>1, Invariant, PTL

\* The hosts that a filter keeps, and how many they are.
LEMMA Selected ==
    ASSUME IInv, Stored, NEW q
    PROVE  /\ ToSet(Select(snapshot.hosts, q)) \subseteq ToSet(snapshot.hosts)
           /\ Len(Select(snapshot.hosts, q)) =
                Cardinality({id \in DOMAIN index : matches(index[id], q)})
<1> DEFINE H == snapshot.hosts
           n == Len(H)
           T == ToSet(H)
           ss == [i \in DOMAIN H |-> IF matches(H[i], q) THEN <<H[i]>> ELSE << >>]
           S == {i \in 1..n : matches(H[i], q)}
           K == {id \in DOMAIN index : matches(index[id], q)}
           Id == [i \in S |-> H[i].hostID]
<1>1. /\ n \in Nat /\ DOMAIN H = 1..n
      /\ \A i, j \in DOMAIN H : i < j => Precedes(H[i].hostID, H[j].hostID)
      /\ \A i \in DOMAIN H : H[i].hostID \in DOMAIN index /\ index[H[i].hostID] = H[i]
                             /\ H[i].hostID \in Text
      /\ \A id \in DOMAIN index : \E i \in DOMAIN H : H[i].hostID = id
    <2>1. Cardinality(DOMAIN hostsByID) \in Nat
        BY FS_CardinalityType DEF IInv, HostsOK
    <2> QED
        BY <2>1, KeysAreIDs DEF IInv, StoreOK, Published
<1> HIDE DEF H
<1>2. T = {H[i] : i \in 1..n}
    BY <1>1 DEF ToSet
<1>3. ss \in Seq(Seq(T)) /\ DOMAIN ss = 1..n /\ \A i \in DOMAIN ss : Len(ss[i]) <= 1
    <2>1. \A i \in 1..n : /\ (IF matches(H[i], q) THEN <<H[i]>> ELSE << >>) \in Seq(T)
                          /\ Len(IF matches(H[i], q) THEN <<H[i]>> ELSE << >>) <= 1
        <3> SUFFICES ASSUME NEW i \in 1..n
                     PROVE  /\ (IF matches(H[i], q) THEN <<H[i]>> ELSE << >>) \in Seq(T)
                            /\ Len(IF matches(H[i], q) THEN <<H[i]>> ELSE << >>) <= 1
            OBVIOUS
        <3>1. H[i] \in T
            BY <1>2
        <3> HIDE DEF T, n
        <3>2. /\ <<H[i]>> \in Seq(T) /\ Len(<<H[i]>>) = 1
              /\ << >> \in Seq(T) /\ Len(<< >>) = 0
            BY <3>1
        <3> QED
            BY <3>2
    <2> HIDE DEF n, T
    <2> QED
        BY <1>1, <2>1
<1>4. \A i \in 1..n : /\ ss[i] # << >> <=> matches(H[i], q)
                      /\ ss[i] # << >> => ss[i] = <<H[i]>>
    BY <1>1
<1>5. Select(H, q) = FlattenSeq(ss)
    BY DEF Select
<1> HIDE DEF ss, n, T
<1>6. PICK from : Singles(ss, FlattenSeq(ss), from)
    BY <1>3, FlattenSingles
<1>7. FlattenSeq(ss) \in Seq(T)
    BY <1>3, FlattenType
<1>8. ToSet(Select(H, q)) \subseteq T
    <2>1. Range(FlattenSeq(ss)) \subseteq T
        BY <1>7, RangeType
    <2> QED
        BY <1>5, <2>1 DEF ToSet, Range
<1>9. Len(Select(H, q)) = Cardinality(S)
    <2>1. Len(FlattenSeq(ss)) = Cardinality({i \in DOMAIN ss : ss[i] # << >>})
        BY <1>3, <1>6, <1>7, SinglesCount
    <2>2. {i \in DOMAIN ss : ss[i] # << >>} = S
        BY <1>3, <1>4
    <2> QED
        BY <1>5, <2>1, <2>2
<1>10. Id \in Bijection(S, K)
    <2>1. Id \in [S -> K]
        BY <1>1
    <2>2. \A i, j \in S : i # j => Id[i] # Id[j]
        <3>1. \A i, j \in S : i < j => H[i].hostID # H[j].hostID
            BY <1>1, ParserAssumption DEF Precedes
        <3>2. \A i, j \in S : i < j \/ j < i \/ i = j
            BY <1>1
        <3> QED
            BY <3>1, <3>2
    <2>3. \A id \in K : \E i \in S : Id[i] = id
        BY <1>1
    <2> HIDE DEF Id, S, K
    <2> QED
        BY <2>1, <2>2, <2>3 DEF Bijection, Injection, Surjection, IsInjective
<1>11. Cardinality(K) = Cardinality(S)
    <2>1. IsFiniteSet(1..n) /\ S \in SUBSET (1..n)
        BY <1>1, UpTo
    <2>2. IsFiniteSet(S)
        BY <2>1, FS_Subset
    <2> HIDE DEF Id, S, K
    <2> QED
        BY <1>10, <2>2, FS_Bijection DEF ExistsBijection
<1> QED
    BY <1>8, <1>9, <1>11 DEF H, T

LEMMA StoredCounts ==
    ASSUME IInv, Stored
    PROVE  LET ids == {IdOf(d) : d \in ValidOnes}
           IN  /\ snapshot.metadata.hostsTotal = Cardinality(ids)
               /\ Len(snapshot.hosts) = Cardinality(ids)
               /\ {h.hostID : h \in ToSet(snapshot.hosts)} = ids
               /\ ids = DOMAIN index
               /\ \A id \in DOMAIN index : index[id].hostID = id
               /\ ready <=> \E i \in DOMAIN read : Parses(read[i])
               /\ ready <=> snapshot.metadata.filesLoaded > 0
<1>1. /\ Len(snapshot.hosts) = Cardinality(DOMAIN hostsByID)
      /\ snapshot.metadata.hostsTotal = Len(snapshot.hosts)
      /\ \A id \in DOMAIN index : index[id] = hostsByID[id]
      /\ snapshot.metadata.filesLoaded = loadedFiles /\ ready = (loadedFiles > 0)
    BY DEF IInv, StoreOK, Published
<1>2. /\ {h.hostID : h \in ToSet(snapshot.hosts)} = DOMAIN index
      /\ DOMAIN index = DOMAIN hostsByID
      /\ {IdOf(d) : d \in ValidOnes} = DOMAIN index
    BY HostsOfStore
<1>3. \A id \in DOMAIN index : index[id].hostID = id
    BY <1>1, <1>2, KeysAreIDs
<1>4. loadedFiles > 0 <=> \E i \in DOMAIN read : Parses(read[i])
    <2> DEFINE Parsed == {i \in DOMAIN read : Parses(read[i])}
    <2>1. IsFiniteSet(Parsed)
        <3>1. read \in Seq(Contents) /\ Len(read) \in Nat /\ DOMAIN read = 1..Len(read)
            BY DEF IInv, FilesOK
        <3>2. IsFiniteSet(1..Len(read)) /\ Parsed \in SUBSET (1..Len(read))
            BY <3>1, UpTo
        <3> QED
            BY <3>2, FS_Subset
    <2>2. Cardinality(Parsed) = loadedFiles /\ loadedFiles \in Nat
        BY DEF IInv, CountsOK
    <2>3. Parsed = {} <=> ~\E i \in DOMAIN read : Parses(read[i])
        OBVIOUS
    <2> HIDE DEF Parsed
    <2>4. Cardinality(Parsed) = 0 <=> Parsed = {}
        BY <2>1, FS_EmptySet
    <2> QED
        BY <2>2, <2>3, <2>4
<1> QED
    BY <1>1, <1>2, <1>3, <1>4

\* An answer never mixes a store that is not filled with one that is: the hosts and counters
\* of every answer are those of the manifests this process read, readyz is 200 exactly when
\* one of them was parsed, and a host is 404 exactly when no valid node declares its id.
THEOREM AnswersAreOfOneLoad == Spec => []AnswersDescribeOneLoad
<1>1. IInv => AnswersDescribeOneLoad
    <2> SUFFICES ASSUME IInv, NEW r \in Clients, call[r].op = "answered"
                 PROVE  LET a == call[r]
                            ids == {IdOf(d) : d \in ValidOnes}
                        IN  CASE a.to = "host" /\ a.code = 404 -> a.query \notin ids
                              [] a.to = "host" /\ a.code = 200 ->
                                  a.query \in ids /\ a.hosts[1].hostID = a.query
                                                  /\ a.metadata.hostsTotal = Cardinality(ids)
                              [] a.to = "readyz" ->
                                  /\ (a.code = 200) <=> \E i \in DOMAIN read : Parses(read[i])
                                  /\ (a.code = 200) <=> a.metadata.filesLoaded > 0
                                  /\ a.metadata.hostsTotal = Cardinality(ids)
                              [] a.to \in {"all", "list"} ->
                                  /\ a.metadata.hostsTotal = Cardinality(ids)
                                  /\ {h.hostID : h \in ToSet(a.hosts)} \subseteq ids
                                  /\ a.to = "all" => Len(a.hosts) = Cardinality(ids)
                                  /\ a.to = "list" => Len(a.hosts) =
                                      Cardinality({id \in ids : matches(index[id], a.query)})
        BY DEF AnswersDescribeOneLoad
    <2> DEFINE ids == {IdOf(d) : d \in ValidOnes}
    <2>1. PICK a : a = call[r]
        OBVIOUS
    <2>2. Truthful(a) /\ a.op = "answered"
        BY <2>1 DEF IInv, CallsOK
    <2>3. Serving /\ Stored
        BY <2>2 DEF Truthful, Serving, Stored
    <2>4. /\ snapshot.metadata.hostsTotal = Cardinality(ids)
          /\ Len(snapshot.hosts) = Cardinality(ids)
          /\ {h.hostID : h \in ToSet(snapshot.hosts)} = ids
          /\ ids = DOMAIN index
          /\ \A id \in DOMAIN index : index[id].hostID = id
          /\ ready <=> \E i \in DOMAIN read : Parses(read[i])
          /\ ready <=> snapshot.metadata.filesLoaded > 0
        BY <2>3, StoredCounts
    <2> HIDE DEF ids
    <2>5. CASE a.to = "host" /\ a.code = 404 /\ a.query \notin DOMAIN index
        BY <2>1, <2>4, <2>5 DEF ids
    <2>6. CASE /\ a.to = "host" /\ a.code = 200 /\ a.query \in DOMAIN index
               /\ a.hosts = <<index[a.query]>> /\ a.metadata = snapshot.metadata
        <3>1. a.hosts[1] = index[a.query]
            BY <2>6
        <3> QED
            BY <2>1, <2>4, <2>6, <3>1 DEF ids
    <2>7. CASE /\ a.to = "readyz" /\ a.code = (IF ready THEN 200 ELSE 503)
               /\ a.metadata = snapshot.metadata
        BY <2>1, <2>4, <2>7 DEF ids
    <2>8. CASE a.to = "all" /\ a.hosts = snapshot.hosts /\ a.metadata = snapshot.metadata
        BY <2>1, <2>4, <2>8 DEF ids
    <2>9. CASE /\ a.to = "list" /\ a.hosts = Select(snapshot.hosts, a.query)
               /\ a.metadata = snapshot.metadata
        <3>1. /\ ToSet(a.hosts) \subseteq ToSet(snapshot.hosts)
              /\ Len(a.hosts) = Cardinality({id \in ids : matches(index[id], a.query)})
            BY <2>3, <2>4, <2>9, Selected
        <3>2. {h.hostID : h \in ToSet(a.hosts)} \subseteq ids
            BY <2>4, <3>1
        <3> QED
            BY <2>1, <2>4, <2>9, <3>1, <3>2 DEF ids
    <2> QED
        BY <2>2, <2>5, <2>6, <2>7, <2>8, <2>9 DEF Truthful
<1> QED
    BY <1>1, Invariant, PTL

==============================================================================
