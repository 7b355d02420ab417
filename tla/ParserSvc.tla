------------------------------- MODULE ParserSvc -------------------------------
(***************************************************************************)
(* ParserSvc: a process that finds the manifests in its directory, reads     *)
(* them one after the other while others may edit them, stores what they     *)
(* declare, and then serves it, unchanged, until it is started again.        *)
(***************************************************************************)
EXTENDS ManifestMapper

CONSTANTS
    Modes, Target,  \* manifests.mode: "directory", or "file" with the file's name
    Names,          \* the file names there may be
    JSONNames,      \* those whose extension is .json, in any case
    Rank,           \* [Text -> Nat]: the order of strings, for file names and host ids
    Disks, Edits,   \* the directories to begin with, and what files are changed into
    Clients, Queries, Ids,      \* the readers, their filters and the ids they ask for
    MaxEdits

Contents == Edits \cup UNION {{d[f] : f \in Names} : d \in Disks}

ASSUME ParserAssumption ==
    /\ Modes \subseteq {"directory", "file"} /\ Target \in Names /\ JSONNames \subseteq Names
    /\ Names \subseteq Text /\ IsFiniteSet(Names)
    /\ Rank \in [Text -> Nat] /\ \A x, y \in Text : Rank[x] = Rank[y] => x = y
    /\ \A d \in Disks : d \in [Names -> {d[f] : f \in Names}]
    /\ \A c \in Contents :
        c.kind \in {"absent", "directory", "broken"} \/ (c.kind = "manifest" /\ IsManifest(c))
    /\ Ids \subseteq Text /\ MaxEdits \in Nat

VARIABLES
    disk, edits,                \* the outside world; how often it was changed
    phase,                      \* "down", "loading", "loaded", "serving", "stopping"
    jsonFiles, ignored, at,     \* loadDesiredState: its files, and the next of them
    hostsByID, loadedFiles, brokenFiles, warnings, replaced,
    snapshot, index, ready,     \* memory.Store
    call,                       \* the requests of readers
    read                        \* history: what was in each file when it was read

world   == <<disk, edits>>
loading == <<jsonFiles, ignored, at, hostsByID, loadedFiles, brokenFiles, warnings, replaced, read>>
store   == <<snapshot, index, ready>>
vars    == <<world, phase, loading, store, call>>

NoHosts    == [id \in {} |-> {}]
NoMetadata == [filesTotal |-> 0, filesLoaded |-> 0, filesBroken |-> 0, filesIgnored |-> 0,
               hostsTotal |-> 0, workloadsTotal |-> 0]
NewStore   == [hosts |-> << >>, metadata |-> NoMetadata]
NoCall     == [op |-> "none"]

Precedes(x, y) == Rank[x] < Rank[y]

\* sort.Strings, sort.Slice: the texts S, each once, in their order.
Sorted(S) ==
    {s \in [1..Cardinality(S) -> S] :
        Range(s) = S /\ \A i, j \in DOMAIN s : i < j => Precedes(s[i], s[j])}

------------------------------------------------------------------------------
(* The start: DiscoverFiles, loadDesiredState, Replace, ListenAndServe *)

Fresh ==
    /\ at' = 1 /\ hostsByID' = NoHosts /\ loadedFiles' = 0 /\ brokenFiles' = 0
    /\ warnings' = {} /\ replaced' = {} /\ read' = << >>
    /\ snapshot' = NewStore /\ index' = NoHosts /\ ready' = FALSE

\* The configuration is read at every start.  os.Stat and os.ReadDir: directories are left
\* out, and without the file of the file mode the process ends at once.
Discover ==
    /\ phase = "down"
    /\ \E mode \in Modes :
        LET files == {f \in Names : disk[f].kind \notin {"absent", "directory"}}
            there == IF mode = "file" THEN files \cap {Target} ELSE files
        IN  /\ mode = "file" => there # {}
            /\ jsonFiles' \in Sorted(there \cap JSONNames)
            /\ ignored' = Cardinality(there \ JSONNames)
    /\ phase' = "loading"
    /\ Fresh
    /\ UNCHANGED <<world, call>>

\* Mutation only: the first host of an id stays.
MergeKeepsFirst(byID, hosts) ==
    [id \in DOMAIN byID \cup {h.hostID : h \in ToSet(hosts)} |->
        IF id \in DOMAIN byID THEN byID[id]
        ELSE hosts[SelectInSeq(hosts, LAMBDA h : h.hostID = id)]]

\* What the hosts of a file make of the map: the later of two of one id replaces the other.
Merge(byID, hosts) ==
    LET ids == {h.hostID : h \in ToSet(hosts)}
    IN  [id \in DOMAIN byID \cup ids |->
            IF id \in ids THEN hosts[SelectLastInSeq(hosts, LAMBDA h : h.hostID = id)]
            ELSE byID[id]]

\* The ids that are in the map when their host comes: a warning tells of each.
Duplicates(byID, hosts) ==
    LET id == [i \in DOMAIN hosts |-> hosts[i].hostID]
    IN  {id[i] : i \in {j \in DOMAIN hosts : id[j] \in DOMAIN byID \/
                                             \E k \in 1..(j - 1) : id[k] = id[j]}}

\* Mutation only: a file that is gone is waited for.
WaitForFile ==
    /\ phase = "loading" /\ at \in DOMAIN jsonFiles
    /\ ~Parses(disk[jsonFiles[at]]) /\ disk[jsonFiles[at]].kind # "absent"
    /\ brokenFiles' = brokenFiles + 1
    /\ read' = Append(read, disk[jsonFiles[at]]) /\ at' = at + 1
    /\ UNCHANGED <<world, phase, jsonFiles, ignored, hostsByID, loadedFiles, warnings, replaced,
                   store, call>>

\* A file that is gone, cannot be read or cannot be parsed is counted and passed over.
SkipFile ==
    /\ phase = "loading" /\ at \in DOMAIN jsonFiles
    /\ ~Parses(disk[jsonFiles[at]])
    /\ brokenFiles' = brokenFiles + 1
    /\ read' = Append(read, disk[jsonFiles[at]]) /\ at' = at + 1
    /\ UNCHANGED <<world, phase, jsonFiles, ignored, hostsByID, loadedFiles, warnings, replaced,
                   store, call>>

LoadFile ==
    /\ phase = "loading" /\ at \in DOMAIN jsonFiles
    /\ Parses(disk[jsonFiles[at]])
    /\ \E order \in {Walk(disk[jsonFiles[at]])} :
       \E result \in {MapManifest(disk[jsonFiles[at]], order)} :
        /\ warnings' = warnings \cup {<<at, w>> : w \in result.warnings}
        /\ replaced' = replaced \cup Duplicates(hostsByID, result.hosts)
        /\ hostsByID' = Merge(hostsByID, result.hosts)
    /\ loadedFiles' = loadedFiles + 1
    /\ read' = Append(read, disk[jsonFiles[at]]) /\ at' = at + 1
    /\ UNCHANGED <<world, phase, jsonFiles, ignored, brokenFiles, store, call>>

Metadata(hosts) ==
    [filesTotal |-> Len(jsonFiles) + ignored, filesLoaded |-> loadedFiles,
     filesBroken |-> brokenFiles, filesIgnored |-> ignored, hostsTotal |-> Len(hosts),
     workloadsTotal |-> FoldLeft(LAMBDA n, h : n + Len(h.workloads), 0, hosts)]

\* Mutation only: the index is left as it was.
ReplaceListOnly(hosts) ==
    /\ snapshot' = [hosts |-> hosts, metadata |-> Metadata(hosts)]
    /\ UNCHANGED index

\* The list, and the index by id.
Replace(hosts) ==
    /\ snapshot' = [hosts |-> hosts, metadata |-> Metadata(hosts)]
    /\ index' = [id \in {h.hostID : h \in ToSet(hosts)} |->
                    hosts[SelectLastInSeq(hosts, LAMBDA h : h.hostID = id)]]

\* The hosts of the map, ranged over in any order, are sorted by their ids.
Publish ==
    /\ phase = "loading" /\ at \notin DOMAIN jsonFiles
    /\ \E ids \in Sorted(DOMAIN hostsByID) : Replace([i \in DOMAIN ids |-> hostsByID[ids[i]]])
    /\ ready' = (loadedFiles > 0)
    /\ phase' = "loaded"
    /\ UNCHANGED <<world, loading, call>>

\* Mutation only: the server is up while the files are read.
ServeEarly ==
    /\ phase \in {"loading", "loaded"}
    /\ phase' = "serving"
    /\ UNCHANGED <<world, loading, store, call>>

Serve ==
    /\ phase = "loaded"
    /\ phase' = "serving"
    /\ UNCHANGED <<world, loading, store, call>>

------------------------------------------------------------------------------
(* The readers; the store's lock is held for one read at a time *)

matches(host, q) ==
    /\ Trim[q.fqdn] # "" => Lower[host.fqdn] = Lower[Trim[q.fqdn]]
    /\ q.labels \subseteq host.labels

Select(hosts, q) ==
    FlattenSeq([i \in DOMAIN hosts |-> IF matches(hosts[i], q) THEN <<hosts[i]>> ELSE << >>])

Serving == phase \in {"serving", "stopping"}
Waits(r, op) == Serving /\ call[r].op = op

\* A new request; Shutdown lets no more in.
Asks(r) == phase = "serving" /\ call[r].op \in {"none", "answered"}

Answer(r, a) == call' = [call EXCEPT ![r] = a]

\* GET /desired-state: one read.
GetDesiredState(r) ==
    /\ Asks(r)
    /\ Answer(r, [op |-> "answered", to |-> "all", code |-> 200,
                  hosts |-> snapshot.hosts, metadata |-> snapshot.metadata])
    /\ UNCHANGED <<world, phase, loading, store>>

\* GET /desired-state/hosts: the hosts first, then the metadata.
ListHosts(r) ==
    /\ Asks(r)
    /\ \E q \in Queries :
        call' = [call EXCEPT ![r] = [op |-> "reading", to |-> "list", query |-> q,
                                     hosts |-> Select(snapshot.hosts, q)]]
    /\ UNCHANGED <<world, phase, loading, store>>

\* GET /desired-state/hosts/{id}: the host through the index, then the metadata.
GetHostByID(r) ==
    /\ Asks(r)
    /\ \E raw \in Ids :
        LET id == Trim[raw]
        IN  IF id \in DOMAIN index
            THEN call' = [call EXCEPT ![r] = [op |-> "reading", to |-> "host", query |-> id,
                                              hosts |-> <<index[id]>>]]
            ELSE Answer(r, [op |-> "answered", to |-> "host", code |-> 404, query |-> id])
    /\ UNCHANGED <<world, phase, loading, store>>

\* GET /readyz: the snapshot's counters first, then the flag.
Readyz(r) ==
    /\ Asks(r)
    /\ call' = [call EXCEPT ![r] = [op |-> "asking", to |-> "readyz",
                                    metadata |-> snapshot.metadata]]
    /\ UNCHANGED <<world, phase, loading, store>>

ReadMetadata(r) ==
    /\ Waits(r, "reading")
    /\ Answer(r, [op |-> "answered", to |-> call[r].to, code |-> 200, query |-> call[r].query,
                  hosts |-> call[r].hosts, metadata |-> snapshot.metadata])
    /\ UNCHANGED <<world, phase, loading, store>>

ReadReady(r) ==
    /\ Waits(r, "asking")
    /\ Answer(r, [op |-> "answered", to |-> "readyz", code |-> IF ready THEN 200 ELSE 503,
                  metadata |-> call[r].metadata])
    /\ UNCHANGED <<world, phase, loading, store>>

------------------------------------------------------------------------------
(* The end of a process, and the world *)

\* A signal that comes while the files are loaded is acted on only now.
Shutdown ==
    /\ phase = "serving"
    /\ phase' = "stopping"
    /\ UNCHANGED <<world, loading, store, call>>

\* After the requests or the timeout of Shutdown; or an error of ListenAndServe, or a kill.
Exit ==
    /\ phase # "down"
    /\ phase' = "down"
    /\ Fresh /\ jsonFiles' = << >> /\ ignored' = 0
    /\ call' = [r \in Clients |-> NoCall]
    /\ UNCHANGED world

\* Somebody changes one file.
Edit ==
    /\ edits < MaxEdits /\ edits' = edits + 1
    /\ \E f \in Names, c \in Edits : c # disk[f] /\ disk' = [disk EXCEPT ![f] = c]
    /\ UNCHANGED <<phase, loading, store, call>>

------------------------------------------------------------------------------
Init ==
    /\ disk \in Disks /\ edits = 0
    /\ phase = "down"
    /\ jsonFiles = << >> /\ ignored = 0 /\ at = 1 /\ hostsByID = NoHosts
    /\ loadedFiles = 0 /\ brokenFiles = 0 /\ warnings = {} /\ replaced = {} /\ read = << >>
    /\ snapshot = NewStore /\ index = NoHosts /\ ready = FALSE
    /\ call = [r \in Clients |-> NoCall]

Request(r) ==
    \/ GetDesiredState(r) \/ ListHosts(r) \/ GetHostByID(r) \/ Readyz(r)
    \/ ReadMetadata(r) \/ ReadReady(r)

Next ==
    \/ Discover \/ SkipFile \/ LoadFile \/ Publish \/ Serve
    \/ \E r \in Clients : Request(r)
    \/ Shutdown \/ Exit \/ Edit

\* The main goroutine goes on with its start while it may run.
Fairness == WF_vars(SkipFile \/ LoadFile \/ Publish \/ Serve)

Spec == Init /\ [][Next]_vars /\ Fairness

------------------------------------------------------------------------------
(* Properties *)

Stored == phase \in {"loaded", "serving", "stopping"}

\* Every variable keeps its type, and the index is the snapshot by id.
TypeOK ==
    /\ disk \in [Names -> Contents] /\ edits \in 0..MaxEdits
    /\ phase \in {"down", "loading", "loaded", "serving", "stopping"}
    /\ ToSet(jsonFiles) \subseteq JSONNames /\ ignored \in 0..Cardinality(Names)
    /\ at \in 1..(Len(jsonFiles) + 1) /\ Len(read) = at - 1
    /\ loadedFiles + brokenFiles = at - 1
    /\ \A id \in DOMAIN hostsByID : hostsByID[id].hostID = id
    /\ replaced \subseteq DOMAIN hostsByID
    /\ ready \in BOOLEAN
    /\ {index[id] : id \in DOMAIN index} = ToSet(snapshot.hosts)
    /\ DOMAIN index = {h.hostID : h \in ToSet(snapshot.hosts)}
    /\ \A r \in Clients : call[r].op \in {"none", "reading", "asking", "answered"}

\* The rules for a node and for a container instance, as the component's documentation
\* (sections 5 and 6) lists them.
Says(p, key, ok(_)) == key \in DOMAIN p /\ ok(p[key])
Filled(v)  == v.t \in {"number", "fraction", "bool"} \/ (v.t = "string" /\ Trim[v.v] # "")
Boolean(v) == \/ v.t = "bool" \/ (v.t = "number" /\ v.v \in {0, 1})
              \/ v.t = "string" /\ Lower[Trim[v.v]] \in
                                    {"true", "false", "yes", "no", "y", "n", "1", "0"}
Integer(v) == v.t = "number" \/ (v.t = "string" /\ Trim[v.v] \in DOMAIN Numeral)

ValidNode(node) ==
    \A key \in {"host_id", "fqdn", "env", "managed_by", "purpose"} :
        Says(node.properties, key, Filled)

ValidInstance(m, instance) ==
    LET p == instance.properties
        names == {i \in DOMAIN m.containers : Trim[m.containers[i].id] = Trim[instance.containerID]}
        contained(v) == v.t = "string" /\ Lower[Trim[v.v]] = "container"
    IN  /\ Trim[instance.containerID] # ""
        /\ \E i \in names : Trim[m.containers[i].name] # "" /\ \A j \in names : j <= i
        /\ Says(p, "enabled", Boolean) /\ Says(p, "deployment_mode", Filled)
        /\ Says(p, "deployment_mode", contained) => Says(p, "image", Filled)
        /\ "port" \in DOMAIN p => Integer(p["port"])
        /\ "version" \in DOMAIN p => p["version"].t # "nested"

\* A declaration: a file that was parsed, and one of its nodes.
Declarations == UNION {{<<i, n>> : n \in DOMAIN read[i].nodes} :
                            i \in {j \in DOMAIN read : Parses(read[j])}}
NodeOf(d) == read[d[1]].nodes[d[2]]
ValidOnes == {d \in Declarations : ValidNode(NodeOf(d))}
IdOf(d)   == CHOOSE id \in normalizeString(NodeOf(d).properties["host_id"]) : TRUE

\* Files come in the order of their names; in a file, a node comes before its children,
\* and the children before the deployment nodes.
Before(d, e) ==
    IF d[1] # e[1] THEN Precedes(jsonFiles[d[1]], jsonFiles[e[1]])
    ELSE \E order \in {Walk(read[d[1]])} : \E i, j \in DOMAIN order :
            i < j /\ order[i] = d[2] /\ order[j] = e[2]

\* What is served is what the manifests declare, whatever order the files were found and
\* the map was ranged over in: one host per id, in the order of the ids, and of several
\* valid nodes of one id the last, with exactly its valid instances.
ServedIsLastDeclared ==
    Stored =>
      LET H == snapshot.hosts
          valid == ValidOnes
      IN  /\ \A i, j \in DOMAIN H : i < j => Precedes(H[i].hostID, H[j].hostID)
          /\ {h.hostID : h \in ToSet(H)} = {IdOf(d) : d \in valid}
          /\ \A h \in ToSet(H) : \E d \in valid :
                LET node == NodeOf(d)
                IN  /\ IdOf(d) = h.hostID
                    /\ \A e \in valid \ {d} : IdOf(e) = IdOf(d) => Before(e, d)
                    /\ h.fqdn \in normalizeString(node.properties["fqdn"])
                    /\ h.env \in normalizeString(node.properties["env"])
                    /\ <<"env", h.env>> \in h.labels
                    /\ Len(h.workloads) = Cardinality({k \in DOMAIN node.containerInstances :
                            ValidInstance(read[d[1]], node.containerInstances[k])})

\* Nothing that was read is left out without a trace: a file is loaded or counted as
\* broken; a node is in the index, or warned about because it is not valid, or its id was
\* reported as replaced; an instance is left out exactly when it is not valid and its host
\* is, and with a warning.
NothingLostSilently ==
    Stored =>
      /\ snapshot.metadata.filesTotal = Len(read) + snapshot.metadata.filesIgnored
      /\ snapshot.metadata.filesLoaded = Cardinality({i \in DOMAIN read : Parses(read[i])})
      /\ snapshot.metadata.filesBroken = Len(read) - snapshot.metadata.filesLoaded
      /\ \A d \in Declarations :
            LET instances == NodeOf(d).containerInstances
            IN  /\ ValidNode(NodeOf(d)) # (<<d[1], <<d[2], 0>>>> \in warnings)
                /\ ValidNode(NodeOf(d)) =>
                    /\ IdOf(d) \in DOMAIN index
                    /\ (\E e \in ValidOnes \ {d} : IdOf(e) = IdOf(d)) => IdOf(d) \in replaced
                    /\ \A k \in DOMAIN instances :
                        ValidInstance(read[d[1]], instances[k])
                            # (<<d[1], <<d[2], k>>>> \in warnings)

\* An answer never mixes a store that is not filled yet with one that is: its hosts and its
\* counters are those of the manifests that this process read, readyz is 200 exactly when
\* one of them was parsed, and a host is 404 exactly when no valid node declares its id.
AnswersDescribeOneLoad ==
    \A r \in Clients :
        call[r].op = "answered" =>
          LET a == call[r]
              ids == {IdOf(d) : d \in ValidOnes}
          IN  CASE a.to = "host" /\ a.code = 404 -> a.query \notin ids
                [] a.to = "host" /\ a.code = 200 ->
                    a.query \in ids /\ a.hosts[1].hostID = a.query
                                    /\ a.metadata.hostsTotal = Cardinality(ids)
                [] a.to = "readyz" ->
                    /\ (a.code = 200) <=> \E i \in DOMAIN read : Parses(read[i])
                    /\ (a.code = 200) <=> a.metadata.filesLoaded > 0
                    /\ a.metadata.hostsTotal = Cardinality(ids)
                [] a.to \in {"all", "list"} ->
                    /\ a.metadata.hostsTotal = Cardinality(ids)
                    /\ {h.hostID : h \in ToSet(a.hosts)} \subseteq ids
                    /\ a.to = "all" => Len(a.hosts) = Cardinality(ids)
                    /\ a.to = "list" => Len(a.hosts) =
                        Cardinality({id \in ids : matches(index[id], a.query)})

\* Whatever the files hold, and also when they change or go while they are read, a start
\* that is not killed ends in a server.
StartupEnds == (phase = "loading") ~> (phase \in {"serving", "stopping", "down"})
==============================================================================
