--------------------------- MODULE HostReportProofs ---------------------------
(***************************************************************************)
(* What is read of a host, and what is concluded from it, for any containers *)
(* and any answer of the inventory.                                         *)
(***************************************************************************)
EXTENDS HostReport, SequenceFacts

------------------------------------------------------------------------------
(* The two maps of indexActualHosts *)

\* The hosts of an answer that d's id, or its FQDN, names.
OfID(d, answer) ==
    {i \in 1..Len(answer) : Fold[d.id] # Blank /\ Fold[answer[i].id] = Fold[d.id]}
OfFQDN(d, answer) ==
    {i \in 1..Len(answer) : Fold[d.fqdn] # Blank /\ Fold[answer[i].fqdn] = Fold[d.fqdn]}

LEMMA ByIDIsLast ==
    ASSUME NEW d, NEW answer, Len(answer) \in Nat
    PROVE  IsLastOf(IndexByID(answer, Fold[d.id]), OfID(d, answer))
<1> DEFINE I == {i \in 1..Len(answer) : Fold[answer[i].id] = Fold[d.id]}
<1>1. IsLastOf(IF I # {} THEN Max(I) ELSE 0, I)
    BY LastOf
<1>2. CASE Fold[d.id] = Blank
    BY <1>2 DEF IndexByID, OfID, IsLastOf
<1>3. CASE Fold[d.id] # Blank
    BY <1>1, <1>3 DEF IndexByID, SelectLastInSeq, OfID
<1> QED
    BY <1>2, <1>3

LEMMA ByFQDNIsLast ==
    ASSUME NEW d, NEW answer, Len(answer) \in Nat
    PROVE  IsLastOf(IndexByFQDN(answer, Fold[d.fqdn]), OfFQDN(d, answer))
<1> DEFINE I == {i \in 1..Len(answer) : Fold[answer[i].fqdn] = Fold[d.fqdn]}
<1>1. IsLastOf(IF I # {} THEN Max(I) ELSE 0, I)
    BY LastOf
<1>2. CASE Fold[d.fqdn] = Blank
    BY <1>2 DEF IndexByFQDN, OfFQDN, IsLastOf
<1>3. CASE Fold[d.fqdn] # Blank
    BY <1>1, <1>3 DEF IndexByFQDN, SelectLastInSeq, OfFQDN
<1> QED
    BY <1>2, <1>3

------------------------------------------------------------------------------
(* lookupActualHost *)

\* For every desired host and every answer of the inventory, lookupActualHost finds the
\* last host of that id or, only if the id names none, the last host of that FQDN; a
\* blank id or FQDN names none.
THEOREM LookupFindsLast ==
    ASSUME NEW d, NEW answer, Len(answer) \in Nat
    PROVE  IsLastOf(LookupActualHost(d, answer),
                    IF OfID(d, answer) # {} THEN OfID(d, answer) ELSE OfFQDN(d, answer))
<1>1. IsLastOf(IndexByID(answer, Fold[d.id]), OfID(d, answer))
    BY ByIDIsLast
<1>2. IsLastOf(IndexByFQDN(answer, Fold[d.fqdn]), OfFQDN(d, answer))
    BY ByFQDNIsLast
<1>3. 0 \notin OfID(d, answer)
    BY DEF OfID
<1> QED
    BY <1>1, <1>2, <1>3 DEF IsLastOf, LookupActualHost

\* What it finds is an index into the answer, or 0.
LEMMA LookupRange ==
    ASSUME NEW d, NEW answer, Len(answer) \in Nat
    PROVE  LookupActualHost(d, answer) \in 0..Len(answer)
BY LookupFindsLast DEF IsLastOf, OfID, OfFQDN

\* A host appended to the answer that shares neither name with a desired host does not
\* change its match, whatever blank names the two have.
THEOREM LookupIgnoresOthers ==
    ASSUME NEW S, NEW d, NEW answer \in Seq(S), NEW h \in S,
           Fold[d.id] = Blank \/ Fold[h.id] # Fold[d.id],
           Fold[d.fqdn] = Blank \/ Fold[h.fqdn] # Fold[d.fqdn]
    PROVE  LookupActualHost(d, Append(answer, h)) = LookupActualHost(d, answer)
<1> DEFINE more == Append(answer, h)
<1>1. /\ Len(answer) \in Nat /\ Len(more) = Len(answer) + 1
      /\ \A i \in 1..Len(answer) : more[i] = answer[i]
      /\ more[Len(answer) + 1] = h
    OBVIOUS
<1>2. OfID(d, more) = OfID(d, answer)
    BY <1>1 DEF OfID
<1>3. OfFQDN(d, more) = OfFQDN(d, answer)
    BY <1>1 DEF OfFQDN
<1>4. OfID(d, answer) \in SUBSET Nat /\ OfFQDN(d, answer) \in SUBSET Nat
    BY <1>1 DEF OfID, OfFQDN
<1> DEFINE I == IF OfID(d, answer) # {} THEN OfID(d, answer) ELSE OfFQDN(d, answer)
<1>5. IsLastOf(LookupActualHost(d, more), I)
    <2>1. Len(more) \in Nat
        BY <1>1
    <2> HIDE DEF more
    <2> QED
        BY <1>2, <1>3, <2>1, LookupFindsLast
<1>6. IsLastOf(LookupActualHost(d, answer), I)
    BY <1>1, LookupFindsLast
<1>7. I \in SUBSET Nat
    BY <1>4
<1> QED
    <2> HIDE DEF I, more
    <2>1. LookupActualHost(d, more) = LookupActualHost(d, answer)
        BY <1>5, <1>6, <1>7, LastIsUnique
    <2> QED
        BY <2>1 DEF more

\* A host has the name of another one in the properties exactly when the maps say so.
LEMMA MatchIsReference ==
    ASSUME NEW S, hosts \in Seq(S)
    PROVE  LookupIsReference
<1>1. Len(hosts) \in Nat /\ DOMAIN hosts = 1..Len(hosts)
    OBVIOUS
<1> SUFFICES ASSUME NEW d \in Desired
             PROVE  LET named   == {i \in DOMAIN hosts : Same(hosts[i].id, d.id)}
                        fqdned  == {i \in DOMAIN hosts : Same(hosts[i].fqdn, d.fqdn)}
                        matches == IF named # {} THEN named ELSE fqdned
                        found   == LookupActualHost(d, hosts)
                    IN  IF matches = {} THEN found = 0
                        ELSE found \in matches /\ \A i \in matches : i <= found
    BY DEF LookupIsReference
<1>2. {i \in DOMAIN hosts : Same(hosts[i].id, d.id)} = OfID(d, hosts)
    BY <1>1 DEF Same, OfID
<1>3. {i \in DOMAIN hosts : Same(hosts[i].fqdn, d.fqdn)} = OfFQDN(d, hosts)
    BY <1>1 DEF Same, OfFQDN
<1>4. IsLastOf(LookupActualHost(d, hosts),
               IF OfID(d, hosts) # {} THEN OfID(d, hosts) ELSE OfFQDN(d, hosts))
    BY <1>1, LookupFindsLast
<1> QED
    BY <1>2, <1>3, <1>4 DEF IsLastOf

------------------------------------------------------------------------------
(* What a detector concludes *)

LEMMA DriftIs ==
    ASSUME NEW c \in Components, NEW d, NEW a
    PROVE  Detect(c, d, a) = "drift" <=>
                /\ Wanted(d, c)
                /\ ~(IsSourceHealthy(a, Cadvisor) /\ HasWorkload(a, c))
                /\ c = NodeExporter => IsSourceHealthy(a, Cadvisor)
<1>1. c \in Registered
    BY ReportAssumption
<1>2. CASE c = NodeExporter
    BY <1>1, <1>2 DEF Detect, NodeExporterDetect, NodeExporter, Cadvisor
<1>3. CASE c = Cadvisor
    BY <1>1, <1>3 DEF Detect, CadvisorDetect, NodeExporter, Cadvisor
<1> QED
    BY <1>2, <1>3 DEF Components

LEMMA FirstOf ==
    ASSUME NEW I \in SUBSET Nat, I # {}
    PROVE  Min(I) \in I /\ \A i \in I : Min(I) <= i
<1>1. \E x \in I : \A y \in I : x <= y
    BY LeastExists
<1> QED
    BY <1>1 DEF Min

\* The workloads of d that have a component's name, and what the first of them wants.
Named(d, c) == {j \in DOMAIN d.workloads : Same(d.workloads[j].name, c)}

LEMMA WantedIs ==
    ASSUME NEW d, d.workloads \in Seq(Workloads), NEW c \in Components
    PROVE  Wanted(d, c) <=> \E j \in Named(d, c) :
                                /\ \A k \in Named(d, c) : j <= k
                                /\ d.workloads[j].enabled /\ Same(d.workloads[j].mode, "container")
<1> DEFINE I == {i \in 1..Len(d.workloads) : Fold[d.workloads[i].name] = c}
<1>1. Fold[c] = c /\ c # Blank /\ Fold["container"] = "container"
    BY ReportAssumption
<1>2. I = Named(d, c)
    BY <1>1 DEF Named, Same
<1>3. DesiredWorkload(d, c) = IF I # {} THEN Min(I) ELSE 0
    BY DEF DesiredWorkload, SelectInSeq
<1>4. I \in SUBSET Nat /\ 0 \notin I
    OBVIOUS
<1>5. \A j \in I : /\ Fold[d.workloads[j].mode] = "container" <=>
                            Same(d.workloads[j].mode, "container")
                   /\ d.workloads[j].enabled \in BOOLEAN
    <2>1. "container" # Blank
        BY ReportAssumption
    <2>2. \A j \in I : d.workloads[j] \in Workloads
        OBVIOUS
    <2> HIDE DEF I
    <2> QED
        BY <1>1, <2>1, <2>2 DEF Same, Workloads
<1> HIDE DEF I
<1>6. CASE I = {}
    BY <1>2, <1>3, <1>6 DEF Wanted
<1>7. CASE I # {}
    <2>1. Min(I) \in I /\ \A i \in I : Min(I) <= i
        BY <1>4, <1>7, FirstOf
    <2>2. ASSUME NEW j \in I
          PROVE  (\A k \in I : j <= k) <=> j = Min(I)
        <3>1. j \in Nat /\ Min(I) \in Nat
            BY <1>4, <2>1
        <3>2. (\A k \in I : j <= k) => j <= Min(I)
            BY <2>1
        <3>3. Min(I) <= j
            BY <2>1
        <3> QED
            BY <2>1, <3>1, <3>2, <3>3
    <2> QED
        BY <1>2, <1>3, <1>4, <1>5, <1>7, <2>1, <2>2 DEF Wanted
<1> QED
    BY <1>6, <1>7

------------------------------------------------------------------------------
(* How a container is named *)

LEMMA FirstOfCad ==
    ASSUME NEW I \in SUBSET Nat, I # {}
    PROVE  Cad!Min(I) \in I /\ \A i \in I : Cad!Min(I) <= i
<1>1. \E x \in I : \A y \in I : x <= y
    BY LeastExists
<1> QED
    BY <1>1 DEF Cad!Min

LEMMA ContainerTypes ==
    /\ \A x \in System : x \in Cad!Containers
    /\ \A c \in Components : \A x \in Docker[c] : x \in Cad!Containers
    /\ \A x \in Cad!Containers :
        /\ x.name \in Spelling /\ x.namespace \in Spelling /\ x.image \in Spelling
        /\ x.aliases \in Seq(Spelling)
        /\ [x EXCEPT !.name = x.name] = x
<1>1. \A x \in System : x \in Cad!Containers
    BY ReportAssumption
<1>2. \A c \in Components : \A x \in Docker[c] : x \in Cad!Containers
    BY ReportAssumption
<1>3. ASSUME NEW x \in Cad!Containers
      PROVE  /\ x.name \in Spelling /\ x.namespace \in Spelling /\ x.image \in Spelling
             /\ x.aliases \in Seq(Spelling)
             /\ [x EXCEPT !.name = x.name] = x
    BY DEF Cad!Containers
<1> QED
    BY <1>1, <1>2, <1>3

\* The name of a workload is docker's name of its container.
LEMMA DockerNames ==
    ASSUME NEW c \in Components, NEW x \in Docker[c]
    PROVE  Fold[Cad!PickWorkloadName(Trim[x.name], x.aliases)] = c
<1> DEFINE a == x.aliases
           I == {i \in 1..Len(a) : Base[Trim[a[i]]] # Blank}
<1>1. a \in Seq(Spelling)
    BY ContainerTypes
<1>2. PICK i \in DOMAIN a : /\ Fold[Base[Trim[a[i]]]] = c
                            /\ \A j \in 1..(i - 1) : Base[Trim[a[j]]] = Blank
    BY ReportAssumption
<1>3. i \in 1..Len(a) /\ i \in Nat
    BY <1>1, <1>2
<1>4. c # Blank /\ Fold[Blank] = Blank
    BY ReportAssumption, FoldAssumption
<1>5. i \in I
    BY <1>2, <1>3, <1>4
<1>6. \A j \in I : i <= j
    BY <1>2, <1>3
<1>7. Cad!SelectInSeq(a, LAMBDA t : Base[Trim[t]] # Blank) = IF I # {} THEN Cad!Min(I) ELSE 0
    BY DEF Cad!SelectInSeq
<1>8. I \in SUBSET Nat /\ I # {}
    BY <1>5
<1> HIDE DEF I, a
<1>9. Cad!Min(I) = i
    <2>1. Cad!Min(I) \in I /\ Cad!Min(I) <= i
        BY <1>5, <1>8, FirstOfCad
    <2>2. i <= Cad!Min(I) /\ Cad!Min(I) \in Nat
        BY <1>6, <1>8, <2>1
    <2> QED
        BY <1>3, <2>1, <2>2
<1>10. Cad!SelectInSeq(a, LAMBDA t : Base[Trim[t]] # Blank) = i /\ i # 0
    BY <1>3, <1>7, <1>8, <1>9
<1> QED
    BY <1>2, <1>10 DEF Cad!PickWorkloadName, a

------------------------------------------------------------------------------
(* What is left of the containers *)

\* The workload that NormalizeContainers makes of a container.
WorkloadOf(x) ==
    [id |-> Cad!PickWorkloadID(Trim[x.name], x.aliases),
     name |-> Cad!PickWorkloadName(Trim[x.name], x.aliases),
     image |-> Trim[x.image], runtime |-> Cad!PickRuntime(x.namespace)]

\* The choice of a container for each component.
Shows(shown, R) == DOMAIN shown = R /\ \A c \in R : shown[c] \in Docker[c]

LEMMA SeenIs ==
    ASSUME NEW R \in SUBSET Components, NEW cs \in SeenContainers(R)
    PROVE  \E shown : Shows(shown, R) /\ cs = System \cup {shown[c] : c \in R}
BY DEF SeenContainers, Shows

LEMMA SystemIsFiltered ==
    ASSUME ~IncludeSystem, NEW x \in System, Trim[x.name] \notin {Blank, "/"}
    PROVE  Cad!FilterWorkloads({WorkloadOf(x)}) = {}
<1>1. Trim[x.image] = Blank /\ Trim[x.namespace] = Blank /\ Trim[Blank] = Blank
    BY ReportAssumption
<1>2. WorkloadOf(x).runtime = "unknown" /\ WorkloadOf(x).image = Blank
    BY <1>1 DEF WorkloadOf, Cad!PickRuntime, Cad!IsBlank
<1>3. Fold["unknown"] = "unknown"
    BY ReportAssumption
<1> QED
    BY <1>1, <1>2, <1>3 DEF Cad!FilterWorkloads, Cad!IsLikelySystemWorkload, Cad!IsBlank

LEMMA DockerIsKept ==
    ASSUME NEW c \in Components, NEW x \in Docker[c]
    PROVE  /\ Trim[x.name] \notin {Blank, "/"}
           /\ ~Cad!IsLikelySystemWorkload(WorkloadOf(x))
           /\ Fold[WorkloadOf(x).name] = c
<1>1. Trim[x.name] # "/" /\ Trim[x.image] # Blank
    BY ReportAssumption
<1>2. Trim[x.name] # Blank
    BY ReportAssumption
<1>3. Trim[Trim[x.image]] = Trim[x.image]
    BY ContainerTypes, ReportAssumption
<1>4. Fold[WorkloadOf(x).name] = c
    BY DockerNames DEF WorkloadOf
<1>5. WorkloadOf(x).image = Trim[x.image]
    BY DEF WorkloadOf
<1> QED
    BY <1>1, <1>2, <1>3, <1>4, <1>5 DEF Cad!IsLikelySystemWorkload, Cad!IsBlank

\* Without the system's cgroups, what is left are the workloads of the components.
LEMMA LeftOver ==
    ASSUME ~IncludeSystem, NEW R \in SUBSET Components, NEW shown, Shows(shown, R)
    PROVE  Cad!FilterWorkloads(Cad!NormalizeContainers(System \cup {shown[c] : c \in R}))
                = {WorkloadOf(shown[c]) : c \in R}
<1> DEFINE cs == System \cup {shown[c] : c \in R}
           ws == Cad!FilterWorkloads(Cad!NormalizeContainers(cs))
<1>1. Cad!NormalizeContainers(cs)
        = {WorkloadOf(x) : x \in {y \in cs : Trim[y.name] \notin {Blank, "/"}}}
    BY DEF Cad!NormalizeContainers, WorkloadOf
<1>2. \A w : w \in ws <=> /\ w \in Cad!NormalizeContainers(cs)
                          /\ ~Cad!IsLikelySystemWorkload(w)
    BY DEF Cad!FilterWorkloads
<1>3. ASSUME NEW c \in R
      PROVE  WorkloadOf(shown[c]) \in ws
    <2>1. shown[c] \in Docker[c] /\ shown[c] \in cs
        BY DEF Shows
    <2>2. Trim[shown[c].name] \notin {Blank, "/"} /\ ~Cad!IsLikelySystemWorkload(WorkloadOf(shown[c]))
        BY <2>1, DockerIsKept
    <2> HIDE DEF cs, ws
    <2> QED
        BY <1>1, <1>2, <2>1, <2>2
<1>4. ASSUME NEW w \in ws
      PROVE  \E c \in R : w = WorkloadOf(shown[c])
    <2>1. PICK x \in cs : Trim[x.name] \notin {Blank, "/"} /\ w = WorkloadOf(x)
        <3> HIDE DEF cs, ws
        <3> QED
            BY <1>1, <1>2
    <2>2. ~Cad!IsLikelySystemWorkload(w)
        BY <1>2
    <2>3. x \notin System
        BY <2>1, <2>2, SystemIsFiltered DEF Cad!FilterWorkloads
    <2> QED
        BY <2>1, <2>3
<1> HIDE DEF cs, ws
<1>5. ws = {WorkloadOf(shown[c]) : c \in R}
    BY <1>3, <1>4
<1> QED
    BY <1>5 DEF ws, cs

LEMMA OnePerComponent ==
    ASSUME NEW R \in SUBSET Components, NEW shown, Shows(shown, R)
    PROVE  Cardinality({WorkloadOf(shown[c]) : c \in R}) = Cardinality(R)
<1> DEFINE f == [c \in R |-> WorkloadOf(shown[c])]
           T == {WorkloadOf(shown[c]) : c \in R}
<1>1. \A c \in R : Fold[f[c].name] = c
    BY DockerIsKept DEF Shows
<1>2. IsFiniteSet(R)
    <2>1. IsFiniteSet(Components)
        <3>1. IsFiniteSet({} \cup {NodeExporter})
            BY FS_EmptySet, FS_AddElement
        <3>2. IsFiniteSet(({} \cup {NodeExporter}) \cup {Cadvisor})
            BY <3>1, FS_AddElement
        <3>3. Components = ({} \cup {NodeExporter}) \cup {Cadvisor}
            BY DEF Components
        <3> QED
            BY <3>2, <3>3
    <2> QED
        BY <2>1, FS_Subset
<1>3. f \in Bijection(R, T)
    <2>1. f \in [R -> T] /\ \A t \in T : \E c \in R : f[c] = t
        OBVIOUS
    <2>2. \A c, d \in R : f[c] = f[d] => c = d
        BY <1>1
    <2> QED
        BY <2>1, <2>2 DEF Bijection, Injection, Surjection, IsInjective
<1>4. Cardinality(T) = Cardinality(R)
    <2> HIDE DEF f, T
    <2>1. ExistsBijection(R, T)
        BY <1>3 DEF ExistsBijection
    <2> QED
        BY <1>2, <2>1, FS_Bijection
<1> QED
    BY <1>4

------------------------------------------------------------------------------
(* The forms of a reply *)

\* No two containers have one name, and each has one.
LEMMA NamesDiffer ==
    ASSUME NEW R \in SUBSET Components, NEW cs \in SeenContainers(R)
    PROVE  /\ \A x \in cs : x \in Cad!Containers /\ Trim[x.name] # Blank
           /\ \A x, y \in cs : x.name = y.name => x = y
<1>1. PICK shown : Shows(shown, R) /\ cs = System \cup {shown[c] : c \in R}
    BY SeenIs
<1>2. \A x \in cs : x \in System \/ \E c \in R : x = shown[c] /\ x \in Docker[c]
    BY <1>1 DEF Shows
<1>3. \A x \in cs : x \in Cad!Containers /\ Trim[x.name] # Blank
    <2>1. \A x \in System : Trim[x.name] # Blank
        BY ReportAssumption
    <2>2. \A c \in Components : \A x \in Docker[c] : Trim[x.name] # Blank
        BY ReportAssumption
    <2> QED
        BY <1>2, <2>1, <2>2, ContainerTypes
<1>4. ASSUME NEW x \in cs, NEW y \in cs, x.name = y.name
      PROVE  x = y
    <2>1. CASE x \in System /\ y \in System
        BY <1>4, <2>1, ReportAssumption
    <2>2. ASSUME NEW c \in R, x = shown[c], x \in Docker[c], y \in System
          PROVE  x = y
        BY <1>4, <2>2, ReportAssumption
    <2>3. ASSUME NEW c \in R, y = shown[c], y \in Docker[c], x \in System
          PROVE  x = y
        BY <1>4, <2>3, ReportAssumption
    <2>4. ASSUME NEW c \in R, x = shown[c], x \in Docker[c],
                 NEW d \in R, y = shown[d], y \in Docker[d]
          PROVE  x = y
        BY <1>4, <2>4, ReportAssumption
    <2> QED
        BY <1>2, <2>1, <2>2, <2>3, <2>4
<1> QED
    BY <1>3, <1>4

\* A map is decoded into the containers it was made of.
LEMMA MapDecoded ==
    ASSUME NEW cs, \A x \in cs : x \in Cad!Containers /\ Trim[x.name] # Blank,
           \A x, y \in cs : x.name = y.name => x = y
    PROVE  Cad!DecodeContainersResponse(Map(cs)) = {cs}
<1> DEFINE keys == {c.name : c \in cs}
           Of(k) == CHOOSE c \in cs : c.name = k
           members == [k \in keys |-> [Of(k) EXCEPT !.name = Blank]]
<1>1. \A c \in cs : Of(c.name) = c
    OBVIOUS
<1>2. \A k \in keys : Of(k) \in cs /\ Of(k).name = k
    OBVIOUS
<1>3. Trim[Blank] = Blank
    BY ReportAssumption
<1> HIDE DEF Of
<1>4. ASSUME NEW k \in keys
      PROVE  members[k] # Cad!Scalar /\ Cad!Named(members[k], k) = Of(k)
    <2>1. Of(k) \in Cad!Containers
        BY <1>2
    <2>2. members[k] = [Of(k) EXCEPT !.name = Blank]
        OBVIOUS
    <2>3. /\ members[k].name = Blank
          /\ [members[k] EXCEPT !.name = k] = Of(k)
        BY <1>2, <2>1, <2>2 DEF Cad!Containers
    <2>4. "name" \in DOMAIN members[k] /\ "name" \notin DOMAIN Cad!Scalar
        BY <2>1, <2>2 DEF Cad!Containers, Cad!Scalar
    <2> QED
        BY <1>3, <2>3, <2>4 DEF Cad!Named, Cad!IsBlank
<1>5. Map(cs).form = "object" /\ Map(cs).members = members
    BY DEF Map, Object, Of
<1>6. DOMAIN members = keys
    OBVIOUS
<1>7. Cad!IsMap(Map(cs)) /\ Cad!DecodeMap(Map(cs)) = {Of(k) : k \in keys}
    <2> HIDE DEF members, keys
    <2>1. Cad!IsMap(Map(cs))
        BY <1>4, <1>5, <1>6 DEF Cad!IsMap
    <2>2. Cad!DecodeMap(Map(cs)) = {Cad!Named(members[k], k) : k \in keys}
        BY <1>5, <1>6 DEF Cad!DecodeMap
    <2>3. {Cad!Named(members[k], k) : k \in keys} = {Of(k) : k \in keys}
        BY <1>4
    <2> QED
        BY <2>1, <2>2, <2>3
<1>8. {Of(k) : k \in keys} = cs
    BY <1>1, <1>2
<1>9. Cad!DecodeContainersResponse(Map(cs)) = {Cad!DecodeMap(Map(cs))}
    BY <1>5, <1>7 DEF Cad!DecodeContainersResponse
<1> QED
    BY <1>7, <1>8, <1>9

LEMMA ArrayDecoded ==
    ASSUME NEW cs
    PROVE  Cad!DecodeContainersResponse(Array(cs)) = {cs}
BY DEF Cad!DecodeContainersResponse, Array

LEMMA SingleDecoded ==
    ASSUME NEW c \in Cad!Containers, Trim[c.name] # Blank
    PROVE  Cad!DecodeContainersResponse(Single(c)) = {{c}}
<1>1. Single(c).form = "object" /\ Single(c).self = c /\ ~Cad!IsMap(Single(c))
    BY DEF Single, Object, Cad!IsMap
<1>2. Cad!HasContainerPayload(c) /\ Cad!Named(c, "/") = c
    BY DEF Cad!HasContainerPayload, Cad!Named, Cad!IsBlank
<1> QED
    BY <1>1, <1>2 DEF Cad!DecodeContainersResponse

LEMMA CollectedIs ==
    ASSUME NEW body, NEW cs, Cad!DecodeContainersResponse(body) = {cs}
    PROVE  Cad!CollectHost(Reply(body)) = {Cad!FilterWorkloads(Cad!NormalizeContainers(cs))}
<1>1. Cad!FetchContainers(Reply(body)) = {cs}
    BY DEF Cad!FetchContainers, Reply
<1> QED
    BY <1>1 DEF Cad!CollectHost

LEMMA FormsOfReply ==
    ASSUME NEW R \in SUBSET Components, NEW cs \in SeenContainers(R)
    PROVE  /\ Cad!CollectHost(Reply(Array(cs)))
                = {Cad!FilterWorkloads(Cad!NormalizeContainers(cs))}
           /\ Cad!CollectHost(Reply(Map(cs)))
                = {Cad!FilterWorkloads(Cad!NormalizeContainers(cs))}
<1>1. Cad!DecodeContainersResponse(Array(cs)) = {cs}
    BY ArrayDecoded
<1>2. Cad!DecodeContainersResponse(Map(cs)) = {cs}
    BY NamesDiffer, MapDecoded
<1> QED
    BY <1>1, <1>2, CollectedIs

\* What the three forms of a reply have in common.
LEMMA FormsAreAlike ==
    ASSUME running \in SUBSET Components
    PROVE  FormsAgree
<1> SUFFICES ASSUME NEW cs \in SeenContainers(running)
             PROVE  /\ Cad!CollectHost(Reply(Array(cs))) = Cad!CollectHost(Reply(Map(cs)))
                    /\ \A c \in cs : Cad!CollectHost(Reply(Single(c))) =
                                     Cad!CollectHost(Reply(Array({c})))
                    /\ \A ws \in Cad!CollectHost(Reply(Array(cs))) :
                            ~IncludeSystem => Cardinality(ws) = Cardinality(running)
    BY DEF FormsAgree
<1>1. Cad!CollectHost(Reply(Array(cs))) = Cad!CollectHost(Reply(Map(cs)))
    BY FormsOfReply
<1>2. ASSUME NEW c \in cs
      PROVE  Cad!CollectHost(Reply(Single(c))) = Cad!CollectHost(Reply(Array({c})))
    <2>1. c \in Cad!Containers /\ Trim[c.name] # Blank
        BY NamesDiffer
    <2>2. /\ Cad!DecodeContainersResponse(Single(c)) = {{c}}
          /\ Cad!DecodeContainersResponse(Array({c})) = {{c}}
        BY <2>1, SingleDecoded, ArrayDecoded
    <2> QED
        BY <2>2, CollectedIs
<1>3. ASSUME ~IncludeSystem, NEW ws \in Cad!CollectHost(Reply(Array(cs)))
      PROVE  Cardinality(ws) = Cardinality(running)
    <2>1. PICK shown : Shows(shown, running) /\ cs = System \cup {shown[c] : c \in running}
        BY SeenIs
    <2>2. ws = Cad!FilterWorkloads(Cad!NormalizeContainers(cs))
        BY FormsOfReply
    <2>3. ws = {WorkloadOf(shown[c]) : c \in running}
        BY <1>3, <2>1, <2>2, LeftOver
    <2> QED
        BY <2>1, <2>3, OnePerComponent
<1> QED
    BY <1>1, <1>2, <1>3

------------------------------------------------------------------------------
(* The inductive invariant *)

\* A host is published with its workloads, healthy, or without any, exactly as its cAdvisor
\* could be read; all hosts of the answer were published so.
IInv ==
    /\ running \in SUBSET Components
    /\ reply \in Replies(running) \cup Failures
    /\ sources \in IF Collected # {} THEN {Source(TRUE, "ok")}
                   ELSE {Source(TRUE, "error"), Source(FALSE, "disabled"), << >>}
    /\ hosts \in Seq(Inventory)

LEMMA InitHolds == Init => IInv
<1>1. << >> \in Seq(Inventory)
    OBVIOUS
<1> QED
    BY <1>1, Zenon DEF Init, IInv

LEMMA StepHolds == IInv /\ [Next]_vars => IInv'
<1> SUFFICES ASSUME IInv, [Next]_vars
             PROVE  IInv'
    OBVIOUS
<1>1. UNCHANGED <<running, reply, sources>>
    BY DEF Next, vars
<1>2. Collected' = Collected
    BY <1>1 DEF Collected
<1>3. Inventory' = Inventory
    BY <1>1, <1>2 DEF Inventory, Lists, Listed
<1>4. hosts' \in Seq(Inventory)
    <2>1. CASE Next
        <3>1. PICK h \in Inventory : hosts' = Append(hosts, h)
            BY <2>1 DEF Next
        <3> QED
            BY <3>1 DEF IInv
    <2>2. CASE UNCHANGED vars
        BY <2>2 DEF IInv, vars
    <2> QED
        BY <2>1, <2>2
<1>5. Replies(running)' = Replies(running)
    BY <1>1 DEF Replies, SeenContainers
<1> QED
    BY <1>1, <1>2, <1>3, <1>4, <1>5 DEF IInv

LEMMA FailuresAreEmpty == \A r \in Failures : Cad!CollectHost(r) = {}
<1> SUFFICES ASSUME NEW r \in Failures
             PROVE  Cad!FetchContainers(r) = {}
    BY DEF Cad!CollectHost
<1>1. Fails(r)
    BY ReportAssumption
<1>2. CASE r.status # "200"
    BY <1>2 DEF Cad!FetchContainers
<1>3. CASE r.body.form \notin {"array", "object"}
    BY <1>3 DEF Cad!FetchContainers, Cad!DecodeContainersResponse
<1>4. CASE /\ r.body.form = "object" /\ r.body.self = Nothing
           /\ \E k \in DOMAIN r.body.members : r.body.members[k] = Cad!Scalar
    <2>1. ~Cad!IsMap(r.body)
        BY <1>4 DEF Cad!IsMap
    <2>2. Trim[Blank] = Blank
        BY ReportAssumption
    <2>3. ~Cad!HasContainerPayload(r.body.self)
        BY <1>4, <2>2 DEF Cad!HasContainerPayload, Cad!IsBlank, Nothing
    <2> QED
        BY <1>4, <2>1, <2>3 DEF Cad!FetchContainers, Cad!DecodeContainersResponse
<1> QED
    BY <1>1, <1>2, <1>3, <1>4 DEF Fails

\* A host whose cAdvisor was read is healthy and lists exactly what runs.
LEMMA ReadIsTrue ==
    ASSUME IInv, ~IncludeSystem, reply \notin Failures,
           NEW a \in Inventory, NEW c \in Components
    PROVE  IsSourceHealthy(a, Cadvisor) /\ (HasWorkload(a, c) <=> c \in running)
<1>1. PICK cs \in SeenContainers(running) : reply = Reply(Array(cs)) \/ reply = Reply(Map(cs))
    BY DEF IInv, Replies
<1>2. running \in SUBSET Components
    BY DEF IInv
<1>3. PICK shown : Shows(shown, running) /\ cs = System \cup {shown[x] : x \in running}
    BY <1>2, SeenIs
<1>4. Cad!CollectHost(reply) = {Cad!FilterWorkloads(Cad!NormalizeContainers(cs))}
    BY <1>1, <1>2, FormsOfReply
<1>5. Cad!FilterWorkloads(Cad!NormalizeContainers(cs)) = {WorkloadOf(shown[x]) : x \in running}
    BY <1>2, <1>3, LeftOver
<1>6. PICK ws : /\ Collected = {ws}
                /\ \A w \in ws : Fold[w.name] \in running
                /\ \A x \in running : \E w \in ws : Fold[w.name] = x
    <2>1. \A x \in running : Fold[WorkloadOf(shown[x]).name] = x
        BY <1>2, <1>3, DockerIsKept DEF Shows
    <2> DEFINE ws == {WorkloadOf(shown[x]) : x \in running}
    <2>2. Collected = {ws}
        BY <1>4, <1>5 DEF Collected
    <2>3. /\ \A w \in ws : Fold[w.name] \in running
          /\ \A x \in running : \E w \in ws : Fold[w.name] = x
        BY <2>1
    <2> QED
        BY <2>2, <2>3
<1>7. IsSourceHealthy(a, Cadvisor)
    <2>1. a.sources = Source(TRUE, "ok")
        BY <1>6 DEF IInv, Inventory
    <2>2. Fold["ok"] = "ok"
        BY ReportAssumption
    <2> QED
        BY <2>1, <2>2 DEF IsSourceHealthy, Source, Cadvisor
<1>8. Listed = {w.name : w \in ws}
    BY <1>6 DEF Listed
<1>9. {a.workloads[i] : i \in DOMAIN a.workloads} = Listed
    BY DEF Inventory, Lists, Range
<1>10. HasWorkload(a, c) <=> c \in running
    <2>1. HasWorkload(a, c) <=> \E n \in Listed : Fold[n] = c
        <3>1. \A i \in DOMAIN a.workloads : a.workloads[i] \in Listed
            BY <1>9
        <3>2. \A n \in Listed : \E i \in DOMAIN a.workloads : n = a.workloads[i]
            BY <1>9
        <3> QED
            BY <3>1, <3>2 DEF HasWorkload
    <2>2. (\E n \in Listed : Fold[n] = c) <=> \E w \in ws : Fold[w.name] = c
        BY <1>8
    <2>3. ASSUME NEW w \in ws, Fold[w.name] = c
          PROVE  c \in running
        BY <1>6, <2>3
    <2>4. c \in running => \E w \in ws : Fold[w.name] = c
        BY <1>6
    <2> QED
        BY <2>1, <2>2, <2>3, <2>4
<1> QED
    BY <1>7, <1>10

LEMMA UnreadIsUnhealthy ==
    ASSUME IInv, reply \in Failures, NEW a \in Inventory
    PROVE  ~IsSourceHealthy(a, Cadvisor)
<1>1. Collected = {}
    BY FailuresAreEmpty DEF Collected
<1>2. a.sources \in {Source(TRUE, "error"), Source(FALSE, "disabled"), << >>}
    BY <1>1 DEF IInv, Inventory
<1>3. Fold["error"] = "error"
    BY ReportAssumption
<1>4. CASE a.sources = Source(TRUE, "error")
    BY <1>3, <1>4 DEF IsSourceHealthy, Source, Cadvisor
<1>5. CASE a.sources = Source(FALSE, "disabled")
    BY <1>5 DEF IsSourceHealthy, Source, Cadvisor
<1>6. CASE a.sources = << >>
    BY <1>6 DEF IsSourceHealthy
<1> QED
    BY <1>2, <1>4, <1>5, <1>6

LEMMA VerdictHolds ==
    ASSUME IInv, ~IncludeSystem
    PROVE  VerdictIsTrue
<1> SUFFICES ASSUME NEW d \in Desired, LookupActualHost(d, hosts) # 0
             PROVE  LET i == LookupActualHost(d, hosts)
                        drifts(c) == Detect(c, d, hosts[i]) = "drift"
                        wanted(c) == \E j \in Named(d, c) :
                                        /\ \A k \in Named(d, c) : j <= k
                                        /\ d.workloads[j].enabled
                                        /\ Same(d.workloads[j].mode, "container")
                    IN  IF reply \in Failures
                        THEN drifts(Cadvisor) = wanted(Cadvisor) /\ ~drifts(NodeExporter)
                        ELSE \A c \in Components : drifts(c) = (wanted(c) /\ c \notin running)
    BY DEF VerdictIsTrue, Named
<1> DEFINE a == hosts[LookupActualHost(d, hosts)]
<1>1. a \in Inventory
    <2>1. hosts \in Seq(Inventory)
        BY DEF IInv
    <2>2. LookupActualHost(d, hosts) \in 1..Len(hosts)
        BY <2>1, LookupRange
    <2> QED
        BY <2>1, <2>2
<1>2. d.workloads \in Seq(Workloads)
    BY ReportAssumption DEF Desired
<1> HIDE DEF a
<1>3. ASSUME NEW c \in Components
      PROVE  Detect(c, d, a) = "drift" <=>
                /\ Wanted(d, c)
                /\ ~(IsSourceHealthy(a, Cadvisor) /\ HasWorkload(a, c))
                /\ c = NodeExporter => IsSourceHealthy(a, Cadvisor)
    BY DriftIs
<1>4. ASSUME NEW c \in Components
      PROVE  Wanted(d, c) <=> \E j \in Named(d, c) :
                                /\ \A k \in Named(d, c) : j <= k
                                /\ d.workloads[j].enabled /\ Same(d.workloads[j].mode, "container")
    BY <1>2, WantedIs
<1>5. Cadvisor \in Components /\ NodeExporter \in Components /\ Cadvisor # NodeExporter
    BY DEF Components, Cadvisor, NodeExporter
<1>6. CASE reply \in Failures
    <2>1. ~IsSourceHealthy(a, Cadvisor)
        BY <1>1, <1>6, UnreadIsUnhealthy
    <2>2. (Detect(Cadvisor, d, a) = "drift") <=> Wanted(d, Cadvisor)
        BY <1>3, <1>5, <2>1
    <2>3. Detect(NodeExporter, d, a) # "drift"
        BY <1>3, <1>5, <2>1
    <2> QED
        BY <1>4, <1>5, <1>6, <2>2, <2>3 DEF a
<1>7. CASE reply \notin Failures
    <2>1. ASSUME NEW c \in Components
          PROVE  Detect(c, d, a) = "drift" <=> Wanted(d, c) /\ c \notin running
        BY <1>1, <1>3, <1>7, ReadIsTrue
    <2> QED
        BY <1>4, <1>7, <2>1 DEF a
<1> QED
    BY <1>6, <1>7

------------------------------------------------------------------------------
(* Theorems *)

LEMMA Invariant == Spec => []IInv
<1>1. Init => IInv
    BY InitHolds
<1>2. IInv /\ [Next]_vars => IInv'
    BY StepHolds
<1> QED
    BY <1>1, <1>2, PTL DEF Spec

\* At each size of the inventory's answer, a desired host is matched with the last host of
\* its id, or failing one of that id with the last of its FQDN.
THEOREM LookupsAreReference == Spec => []LookupIsReference
<1>1. IInv => LookupIsReference
    BY MatchIsReference DEF IInv
<1> QED
    BY <1>1, Invariant, PTL

\* Without the system's cgroups the detectors' verdicts are true of what runs on a host,
\* whatever form its cAdvisor's reply has, however docker shows the containers and in
\* whatever order the host lists them; of a host that cannot be read they say no more than
\* that its cAdvisor has to be started.
THEOREM VerdictsAreTrue == ~IncludeSystem => (Spec => []VerdictIsTrue)
<1> SUFFICES ASSUME ~IncludeSystem
             PROVE  Spec => []VerdictIsTrue
    OBVIOUS
<1>1. IInv => VerdictIsTrue
    BY VerdictHolds
<1> QED
    BY <1>1, Invariant, PTL

\* The array and the map of any containers are read alike, one container like the array of
\* it alone, and of each component's container one workload is left.
THEOREM RepliesAgree == Spec => []FormsAgree
<1>1. IInv => FormsAgree
    BY FormsAreAlike DEF IInv
<1> QED
    BY <1>1, Invariant, PTL
=============================================================================
