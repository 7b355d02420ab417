-------------------------- MODULE InventorySvcProofs --------------------------
(***************************************************************************)
(* Theorems about InventorySvc, for any seeds, sources, readers and number   *)
(* of syncs and starts.                                                     *)
(***************************************************************************)
EXTENDS InventorySvc, FiniteSetTheorems, SequenceTheorems, TLAPS

USE InventoryAssumption

------------------------------------------------------------------------------
(* What a sync is made of *)

LEMMA SeedTypes ==
    /\ Len(Seeds) \in Nat \ {0} /\ DOMAIN Seeds = 1..Len(Seeds)
    /\ \A i \in 1..Len(Seeds) : Seeds[i] \in Hosts
<1>1. Len(Seeds) \in Nat /\ DOMAIN Seeds = 1..Len(Seeds)
    BY LenProperties
<1>2. Len(Seeds) # 0
    BY EmptySeq
<1> QED
    BY <1>1, <1>2 DEF Hosts

\* A record that is counted as failed has an enabled source that failed.
Accounted(r) ==
    r.status \in {"partial", "error"} <=> \E s \in Enabled : r.sourceStatus[s] = "error"

LEMMA CollectedRecord ==
    ASSUME NEW h \in Hosts, NEW answer \in States, stamp \in Nat
    PROVE  /\ Collected(h, answer) \in HostRecords
           /\ Collected(h, answer).id = h
           /\ Collected(h, answer).sync = stamp
           /\ Accounted(Collected(h, answer))
           /\ "cadvisor" \in Enabled => Shown(Collected(h, answer)) = answer
<1> DEFINE status == [s \in Sources |->
                        IF s \notin Enabled THEN "disabled"
                        ELSE IF s = "cadvisor" /\ answer # Unseen THEN "ok" ELSE "error"]
           succeeded == \E s \in Sources : status[s] = "ok"
           failed    == \E s \in Sources : status[s] = "error"
           workloads == IF succeeded THEN answer ELSE {}
           observed  == IF succeeded THEN stamp ELSE Never
           summary   == CASE Enabled = {}           -> "bootstrap_only"
                          [] failed /\ succeeded    -> "partial"
                          [] failed /\ ~succeeded   -> "error"
                          [] OTHER                  -> "ok"
<1>1. Collected(h, answer) =
        [id |-> h, sourceStatus |-> status, workloads |-> workloads,
         lastObservedAt |-> observed, status |-> summary, sync |-> stamp]
    BY DEF Collected
<1>2. status \in [Sources -> {"ok", "error", "disabled"}]
    OBVIOUS
<1>3. succeeded <=> "cadvisor" \in Enabled /\ answer # Unseen
    BY DEF Sources
<1>4. workloads \in SUBSET Workloads
    BY <1>3 DEF Workloads
<1>5. observed \in Nat
    BY DEF Never
<1>6. failed <=> \E s \in Enabled : status[s] = "error"
    BY DEF Sources
<1>7. /\ summary \in {"ok", "partial", "error", "bootstrap_only"}
      /\ summary \in {"partial", "error"} <=> failed
    BY <1>6
<1>8. status["cadvisor"] = "ok" <=> "cadvisor" \in Enabled /\ answer # Unseen
    BY DEF Sources
<1> HIDE DEF status, succeeded, failed, workloads, observed, summary
<1>9. Collected(h, answer) \in HostRecords
    BY <1>1, <1>2, <1>4, <1>5, <1>7 DEF HostRecords
<1>10. Accounted(Collected(h, answer))
    BY <1>1, <1>6, <1>7 DEF Accounted
<1>11. ASSUME "cadvisor" \in Enabled PROVE Shown(Collected(h, answer)) = answer
    <2>1. Shown(Collected(h, answer)) =
            IF status["cadvisor"] = "ok" THEN workloads ELSE Unseen
        BY <1>1 DEF Shown
    <2>2. CASE answer = Unseen
        BY <1>8, <2>1, <2>2
    <2>3. CASE answer # Unseen
        BY <1>3, <1>8, <1>11, <2>1, <2>3 DEF workloads
    <2> QED
        BY <2>2, <2>3
<1> QED
    BY <1>1, <1>9, <1>10, <1>11

LEMMA FailedFinite ==
    ASSUME NEW list \in Seq(HostRecords)
    PROVE  Cardinality(FailedHosts(list)) \in Nat /\ Len(list) \in Nat
<1>1. DOMAIN list = 1..Len(list) /\ Len(list) \in Nat
    BY LenProperties
<1>2. IsFiniteSet(1..Len(list))
    BY <1>1, FS_Interval
<1>3. FailedHosts(list) \in SUBSET (1..Len(list))
    BY <1>1 DEF FailedHosts
<1> QED
    BY <1>1, <1>2, <1>3, FS_Subset, FS_CardinalityType

LEMMA MetadataType ==
    ASSUME NEW list \in Seq(HostRecords), stamp \in Nat, previous \in MetadataRecords
    PROVE  Metadata(list) \in MetadataRecords
<1>1. Cardinality(FailedHosts(list)) \in Nat /\ Len(list) \in Nat
    BY FailedFinite
<1>2. /\ previous.lastSuccessfulSyncAt \in Nat /\ previous.lastFullSyncAt \in Nat
      /\ previous.lastPartialSyncAt \in Nat
    BY DEF MetadataRecords
<1> QED
    BY <1>1, <1>2 DEF Metadata, MetadataRecords

------------------------------------------------------------------------------
(* The invariant *)

\* What has been collected is in the order of the seeds, by the sync under way.
DraftInOrder ==
    /\ Len(hosts) <= Len(Seeds) /\ (pc = "collect" => Len(hosts) < Len(Seeds))
    /\ \A i \in DOMAIN hosts : hosts[i].id = Seeds[i] /\ Accounted(hosts[i])
    /\ pc \in {"next", "collect"} =>
        /\ stamp # Never /\ previous = snapshot.metadata
        /\ \A i \in DOMAIN hosts : hosts[i].sync = stamp

StampFields == {"lastSyncAt", "lastSuccessfulSyncAt", "lastFullSyncAt", "lastPartialSyncAt"}

\* The store is new, or holds all hosts of one sync.
StoreWhole ==
    /\ ~Published => snapshot = NewStore
    /\ Published =>
        /\ Len(snapshot.hosts) = Len(Seeds)
        /\ \A i \in DOMAIN snapshot.hosts :
            /\ snapshot.hosts[i].id = Seeds[i]
            /\ snapshot.hosts[i].sync = snapshot.metadata.lastSyncAt
    /\ \A f \in StampFields : snapshot.metadata[f] <= stamp
    /\ MetadataFits

\* The server is up only over a stored snapshot.
ProcessInOrder ==
    /\ phase = "down" => pc = "off" /\ snapshot = NewStore
    /\ phase = "starting" => pc \in {"next", "collect", "synced"}
    /\ pc = "synced" => phase = "starting" /\ Published
    /\ phase \in {"serving", "stopping"} => Published /\ ready

\* What a request has read was in the store of this process, and not older than what
\* its client was shown before.
ReadersBehind ==
    \A c \in Clients :
        /\ newest[c] <= stamp
        /\ Published => newest[c] <= snapshot.metadata.lastSyncAt
        /\ call[c].op # "none" => phase \in {"serving", "stopping"}
        /\ call[c].op = "get" => /\ newest[c] <= call[c].host.sync
                                 /\ call[c].host.sync <= snapshot.metadata.lastSyncAt
        /\ call[c].op = "readyz" => call[c].metadata.lastSyncAt # Never

IInv == TypeOK /\ DraftInOrder /\ StoreWhole /\ ProcessInOrder /\ ReadersBehind /\ AnswersAreLate

LEMMA EmptyDraft == << >> \in Seq(HostRecords) /\ DOMAIN << >> = {} /\ Len(<< >>) = 0
BY EmptySeq

LEMMA NoMetadataType ==
    /\ NoMetadata \in MetadataRecords
    /\ NewStore \in [hosts : Seq(HostRecords), metadata : MetadataRecords]
    /\ NewStore.metadata = NoMetadata /\ NewStore.hosts = << >>
    /\ \A f \in StampFields : NoMetadata[f] = Never
    /\ NoMetadata.lastSyncAt = Never
BY EmptyDraft DEF NoMetadata, NewStore, MetadataRecords, Never, StampFields

LEMMA NoCallType == NoCall \in Calls /\ NoCall.op = "none"
BY DEF NoCall, Calls

\* A new store, without requests.
LEMMA NewStoreWhole ==
    ASSUME snapshot = NewStore
    PROVE  ~Published /\ MetadataFits
BY NoMetadataType DEF Published, MetadataFits

LEMMA InitInv == Init => IInv
<1> SUFFICES ASSUME Init PROVE IInv
    OBVIOUS
<1>1. ~Published /\ MetadataFits
    BY NewStoreWhole DEF Init
<1>2. TypeOK
    <2>1. runs \in [Hosts -> States] /\ since \in [Hosts -> SUBSET States]
        BY DEF Init
    <2>2. newest \in [Clients -> Nat] /\ call \in [Clients -> Calls]
        BY NoCallType DEF Init, Never
    <2>3. snapshot.hosts = << >> /\ DOMAIN snapshot.hosts = {}
        BY NoMetadataType, EmptyDraft DEF Init
    <2>4. DOMAIN hostsByID = {} /\ hostsByID = [id \in DOMAIN hostsByID |-> hostsByID[id]]
        BY DEF Init, NoIndex
    <2>5. stamp \in 0..MaxSyncs /\ starts \in 0..MaxStarts
        BY DEF Init, Never
    <2>6. /\ hosts \in Seq(HostRecords) /\ previous \in MetadataRecords
          /\ snapshot \in [hosts : Seq(HostRecords), metadata : MetadataRecords]
        BY EmptyDraft, NoMetadataType DEF Init
    <2> QED
        BY <2>1, <2>2, <2>3, <2>4, <2>5, <2>6 DEF Init, TypeOK
<1>3. DraftInOrder
    BY EmptyDraft, SeedTypes DEF Init, DraftInOrder
<1>4. StoreWhole
    BY <1>1, NoMetadataType DEF Init, StoreWhole, Never
<1>5. ProcessInOrder
    BY DEF Init, ProcessInOrder
<1>6. ReadersBehind /\ AnswersAreLate
    BY <1>1, NoCallType DEF Init, ReadersBehind, AnswersAreLate, Never
<1> QED
    BY <1>2, <1>3, <1>4, <1>5, <1>6 DEF IInv

------------------------------------------------------------------------------
(* Types *)

\* The parts of TypeOK that steps with the same effect have in common.
StoreTyped ==
    /\ snapshot \in [hosts : Seq(HostRecords), metadata : MetadataRecords]
    /\ hostsByID = [id \in DOMAIN hostsByID |-> hostsByID[id]]
    /\ DOMAIN hostsByID = {snapshot.hosts[i].id : i \in DOMAIN snapshot.hosts}
    /\ \A i \in DOMAIN snapshot.hosts : hostsByID[snapshot.hosts[i].id] = snapshot.hosts[i]
WorldTyped == runs \in [Hosts -> States] /\ since \in [Hosts -> SUBSET States]
SyncTyped ==
    /\ pc \in {"off", "next", "collect", "synced", "idle"}
    /\ stamp \in 0..MaxSyncs
    /\ hosts \in Seq(HostRecords) /\ previous \in MetadataRecords
ProcessTyped ==
    /\ phase \in {"down", "starting", "serving", "stopping"}
    /\ cancelled \in BOOLEAN /\ ready \in BOOLEAN /\ tick \in BOOLEAN
    /\ starts \in 0..MaxStarts
ReadersTyped == newest \in [Clients -> Nat] /\ call \in [Clients -> Calls]

LEMMA TypeParts ==
    /\ TypeOK <=> StoreTyped /\ WorldTyped /\ SyncTyped /\ ProcessTyped /\ ReadersTyped
    /\ TypeOK' <=> StoreTyped' /\ WorldTyped' /\ SyncTyped' /\ ProcessTyped' /\ ReadersTyped'
BY Zenon DEF TypeOK, StoreTyped, WorldTyped, SyncTyped, ProcessTyped, ReadersTyped

LEMMA PartsKept ==
    /\ StoreTyped /\ UNCHANGED <<snapshot, hostsByID>> => StoreTyped'
    /\ WorldTyped /\ UNCHANGED world => WorldTyped'
    /\ SyncTyped /\ UNCHANGED syncing => SyncTyped'
    /\ ProcessTyped /\ UNCHANGED <<process, ready, tick>> => ProcessTyped'
    /\ ReadersTyped /\ UNCHANGED readers => ReadersTyped'
<1>1. StoreTyped /\ UNCHANGED <<snapshot, hostsByID>> => StoreTyped'
    BY DEF StoreTyped
<1>2. WorldTyped /\ UNCHANGED world => WorldTyped'
    BY DEF WorldTyped, world
<1>3. SyncTyped /\ UNCHANGED syncing => SyncTyped'
    BY DEF SyncTyped, syncing
<1>4. ProcessTyped /\ UNCHANGED <<process, ready, tick>> => ProcessTyped'
    BY DEF ProcessTyped, process
<1>5. ReadersTyped /\ UNCHANGED readers => ReadersTyped'
    BY DEF ReadersTyped, readers
<1> QED
    BY <1>1, <1>2, <1>3, <1>4, <1>5

\* A host that was collected is one of the seeds.
LEMMA SeedCollected ==
    ASSUME TypeOK, DraftInOrder, pc = "collect"
    PROVE  /\ Len(hosts) \in Nat /\ DOMAIN hosts = 1..Len(hosts)
           /\ Len(hosts) + 1 \in 1..Len(Seeds) /\ Seed \in Hosts
<1>1. Len(hosts) \in Nat /\ DOMAIN hosts = 1..Len(hosts) /\ Len(hosts) < Len(Seeds)
    BY LenProperties DEF TypeOK, DraftInOrder
<1> QED
    BY <1>1, SeedTypes DEF Seed

LEMMA CollectAnswers ==
    ASSUME TypeOK, DraftInOrder, CollectHost
    PROVE  \E answer \in States :
            /\ hosts' = Append(hosts, Collected(Seed, answer))
            /\ Collected(Seed, answer) \in HostRecords
            /\ answer \in Answers(Seed)
<1>1. Seed \in Hosts /\ stamp \in Nat
    BY SeedCollected DEF CollectHost, TypeOK
<1>2. Answers(Seed) \subseteq States
    BY <1>1 DEF Answers, TypeOK
<1>3. PICK answer \in Answers(Seed) : hosts' = Append(hosts, Collected(Seed, answer))
    BY DEF CollectHost
<1> QED
    BY <1>1, <1>2, <1>3, CollectedRecord

\* A whole draft has a record for every host.
LEMMA DraftIndex ==
    ASSUME TypeOK, DraftInOrder, Len(hosts) = Len(Seeds), NEW h \in Hosts
    PROVE  LET i == CHOOSE k \in DOMAIN hosts : hosts[k].id = h
           IN  i \in DOMAIN hosts /\ hosts[i].id = h /\ Seeds[i] = h
<1>1. DOMAIN hosts = DOMAIN Seeds
    BY LenProperties DEF TypeOK
<1>2. PICK k \in DOMAIN Seeds : Seeds[k] = h
    BY DEF Hosts
<1> QED
    BY <1>1, <1>2 DEF DraftInOrder

LEMMA PublishTyped ==
    ASSUME TypeOK, DraftInOrder, Len(hosts) = Len(Seeds),
           snapshot' = [hosts |-> hosts, metadata |-> Metadata(hosts)],
           hostsByID' = [id \in Hosts |-> hosts[CHOOSE i \in DOMAIN hosts : hosts[i].id = id]]
    PROVE  /\ StoreTyped' /\ snapshot'.hosts = hosts /\ snapshot'.metadata = Metadata(hosts)
           /\ DOMAIN hostsByID' = Hosts
<1>1. Metadata(hosts) \in MetadataRecords
    BY MetadataType DEF TypeOK
<1>2. snapshot'.hosts = hosts /\ snapshot'.metadata = Metadata(hosts)
    OBVIOUS
<1>3. snapshot' \in [hosts : Seq(HostRecords), metadata : MetadataRecords]
    BY <1>1 DEF TypeOK
<1>4. DOMAIN hosts = DOMAIN Seeds
    BY LenProperties DEF TypeOK
<1>5. Hosts = {hosts[i].id : i \in DOMAIN hosts}
    BY <1>4 DEF Hosts, DraftInOrder
<1>6. DOMAIN hostsByID' = Hosts
    OBVIOUS
<1>7. ASSUME NEW i \in DOMAIN hosts PROVE hostsByID'[hosts[i].id] = hosts[i]
    <2> DEFINE h == hosts[i].id
               k == CHOOSE j \in DOMAIN hosts : hosts[j].id = h
    <2>1. h \in Hosts /\ Seeds[i] = h
        BY <1>4, <1>5, <1>7 DEF DraftInOrder
    <2>2. k \in DOMAIN hosts /\ Seeds[k] = h
        BY <2>1, DraftIndex
    <2>3. k = i
        BY <1>4, <2>1, <2>2
    <2>4. hostsByID'[h] = hosts[k]
        BY <2>1
    <2> QED
        BY <2>3, <2>4
<1> QED
    <2>1. hostsByID' = [id \in DOMAIN hostsByID' |-> hostsByID'[id]]
        OBVIOUS
    <2>2. DOMAIN hostsByID' = {snapshot'.hosts[i].id : i \in DOMAIN snapshot'.hosts}
        BY <1>2, <1>5, <1>6
    <2>3. \A i \in DOMAIN snapshot'.hosts :
            hostsByID'[snapshot'.hosts[i].id] = snapshot'.hosts[i]
        BY <1>2, <1>7
    <2>4. StoreTyped'
        BY <1>3, <2>1, <2>2, <2>3, Zenon DEF StoreTyped
    <2> QED
        BY <1>2, <1>6, <2>4

\* What the parts of the steps do to the types.
LEMMA BeginTyped ==
    ASSUME TypeOK, BeginSync
    PROVE  SyncTyped' /\ (UNCHANGED runs => WorldTyped')
<1>1. SyncTyped'
    BY EmptyDraft DEF TypeOK, BeginSync, SyncTyped
<1>2. UNCHANGED runs => WorldTyped'
    BY DEF TypeOK, BeginSync, WorldTyped
<1> QED
    BY <1>1, <1>2

LEMMA GoneTyped ==
    ASSUME TypeOK, Gone
    PROVE  TypeOK'
<1> USE DEF Gone, TypeOK
<1>1. StoreTyped'
    <2>1. snapshot'.hosts = << >> /\ DOMAIN snapshot'.hosts = {}
        BY NoMetadataType, EmptyDraft
    <2>2. DOMAIN hostsByID' = {} /\ hostsByID' = [id \in DOMAIN hostsByID' |-> hostsByID'[id]]
        BY DEF NoIndex
    <2>3. snapshot' \in [hosts : Seq(HostRecords), metadata : MetadataRecords]
        BY NoMetadataType
    <2> QED
        BY <2>1, <2>2, <2>3 DEF StoreTyped
<1>2. WorldTyped'
    BY DEF world, WorldTyped
<1>3. SyncTyped'
    BY EmptyDraft, NoMetadataType DEF SyncTyped
<1>4. ProcessTyped'
    BY DEF ProcessTyped
<1>5. ReadersTyped'
    BY NoCallType DEF ReadersTyped
<1> QED
    BY <1>1, <1>2, <1>3, <1>4, <1>5, TypeParts

\* The answers of readers are calls.
LEMMA AnswerTypes ==
    /\ \A h \in HostRecords : [op |-> "get", host |-> h] \in Calls
    /\ \A m \in MetadataRecords : [op |-> "readyz", metadata |-> m] \in Calls
    /\ [op |-> "answer", status |-> 404] \in Calls
BY DEF Calls

LEMMA DataTypes ==
    ASSUME NEW s \in {200, 503}, NEW hs \in SUBSET HostRecords, NEW m \in MetadataRecords
    PROVE  [op |-> "answer", status |-> s, hosts |-> hs, metadata |-> m] \in Calls
BY DEF Calls

LEMMA IndexTypes ==
    ASSUME TypeOK
    PROVE  /\ \A i \in DOMAIN snapshot.hosts : snapshot.hosts[i] \in HostRecords
           /\ \A id \in DOMAIN hostsByID :
                \E i \in DOMAIN snapshot.hosts :
                    snapshot.hosts[i].id = id /\ hostsByID[id] = snapshot.hosts[i]
           /\ snapshot.metadata \in MetadataRecords
<1>1. snapshot.hosts \in Seq(HostRecords) /\ snapshot.metadata \in MetadataRecords
    BY DEF TypeOK
<1>2. \A i \in DOMAIN snapshot.hosts : snapshot.hosts[i] \in HostRecords
    BY <1>1, LenProperties, ElementOfSeq
<1>3. \A id \in DOMAIN hostsByID :
        \E i \in DOMAIN snapshot.hosts :
            snapshot.hosts[i].id = id /\ hostsByID[id] = snapshot.hosts[i]
    BY DEF TypeOK
<1> QED
    BY <1>1, <1>2, <1>3

LEMMA CallTypes ==
    ASSUME TypeOK, NEW c \in Clients
    PROVE  /\ call[c].op = "get" => call[c].host \in HostRecords /\ call[c].host.sync \in Nat
           /\ call[c].op = "readyz" => call[c].metadata \in MetadataRecords
<1>1. call[c] \in Calls
    BY DEF TypeOK
<1> QED
    BY <1>1 DEF Calls, HostRecords

LEMMA ReplyTyped ==
    ASSUME TypeOK, NEW c \in Clients, NEW answer \in Calls, Reply(c, answer),
           newest' \in [Clients -> Nat]
    PROVE  TypeOK'
<1>1. ReadersTyped'
    BY DEF Reply, TypeOK, ReadersTyped
<1>2. StoreTyped' /\ WorldTyped' /\ SyncTyped' /\ ProcessTyped'
    BY TypeParts, PartsKept DEF Reply, store
<1> QED
    BY <1>1, <1>2, TypeParts

LEMMA ReaderTypes ==
    ASSUME TypeOK, NEW c \in Clients, ReaderStep(c)
    PROVE  TypeOK'
<1>1. ASSUME NEW filter \in Filters, ListHosts(c, filter)
      PROVE  TypeOK'
    <2> DEFINE matching == {i \in DOMAIN snapshot.hosts :
                                MatchesAll(snapshot.hosts[i].id, filter)}
               listed == {snapshot.hosts[i] : i \in matching}
               answer == [op |-> "answer", status |-> 200, hosts |-> listed,
                          metadata |-> snapshot.metadata]
    <2>1. listed \in SUBSET HostRecords
        BY IndexTypes
    <2>2. answer \in Calls
        <3> HIDE DEF listed
        <3>1. snapshot.metadata \in MetadataRecords
            BY IndexTypes
        <3> QED
            BY <2>1, <3>1, DataTypes
    <2>3. Reply(c, answer)
        BY <1>1, Zenon DEF ListHosts
    <2>4. newest' \in [Clients -> Nat]
        BY <1>1, IndexTypes DEF ListHosts, TypeOK, MetadataRecords
    <2> QED
        BY <2>2, <2>3, <2>4, ReplyTyped
<1>2. ASSUME NEW id \in Hosts, GetHostByID(c, id)
      PROVE  TypeOK'
    <2>1. newest' \in [Clients -> Nat]
        BY <1>2 DEF GetHostByID, TypeOK
    <2>2. CASE id \in DOMAIN hostsByID
        <3>1. hostsByID[id] \in HostRecords
            BY <2>2, IndexTypes
        <3>2. Reply(c, [op |-> "get", host |-> hostsByID[id]])
            BY <1>2, <2>2 DEF GetHostByID
        <3> QED
            BY <2>1, <3>1, <3>2, AnswerTypes, ReplyTyped
    <2>3. CASE id \notin DOMAIN hostsByID
        BY <1>2, <2>1, <2>3, AnswerTypes, ReplyTyped DEF GetHostByID
    <2> QED
        BY <2>2, <2>3
<1>3. CASE GetHost(c)
    <2> DEFINE answer == [op |-> "answer", status |-> 200, hosts |-> {call[c].host},
                          metadata |-> snapshot.metadata]
    <2>1. call[c].host \in HostRecords /\ call[c].host.sync \in Nat
        BY <1>3, CallTypes DEF GetHost
    <2>2. answer \in Calls
        <3>1. {call[c].host} \in SUBSET HostRecords /\ snapshot.metadata \in MetadataRecords
            BY <2>1, IndexTypes
        <3> QED
            BY <3>1, DataTypes
    <2>3. newest' \in [Clients -> Nat]
        BY <1>3, <2>1 DEF GetHost, TypeOK
    <2> QED
        BY <1>3, <2>2, <2>3, ReplyTyped DEF GetHost
<1>4. CASE ReadyzMetadata(c)
    BY <1>4, IndexTypes, AnswerTypes, ReplyTyped DEF ReadyzMetadata, TypeOK
<1>5. CASE Readyz(c)
    <2> DEFINE status == IF ready THEN 200 ELSE 503
               none == {}
               m == call[c].metadata
               answer == [op |-> "answer", status |-> status, hosts |-> none, metadata |-> m]
    <2>1. answer \in Calls
        <3>1. m \in MetadataRecords
            BY <1>5, CallTypes DEF Readyz
        <3>2. status \in {200, 503} /\ none \in SUBSET HostRecords
            OBVIOUS
        <3> HIDE DEF status, none, m
        <3> QED
            BY <3>1, <3>2 DEF Calls
    <2> QED
        BY <1>5, <2>1, ReplyTyped DEF Readyz, TypeOK
<1> QED
    BY <1>1, <1>2, <1>3, <1>4, <1>5 DEF ReaderStep

LEMMA NextTypes ==
    ASSUME TypeOK, DraftInOrder, [Next]_vars
    PROVE  TypeOK'
<1> USE TypeParts, PartsKept
<1>1. ASSUME NEW h \in Hosts, Change(h)
      PROVE  TypeOK'
    <2>1. WorldTyped'
        BY <1>1 DEF Change, TypeOK, WorldTyped
    <2> QED
        BY <1>1, <2>1 DEF Change, store
<1>2. CASE NextHost
    <2>1. SyncTyped'
        BY <1>2 DEF NextHost, SyncTyped
    <2> QED
        BY <1>2, <2>1 DEF NextHost, store
<1>3. CASE CollectHost
    <2>1. PICK r \in HostRecords : hosts' = Append(hosts, r)
        BY <1>3, CollectAnswers
    <2>2. hosts' \in Seq(HostRecords)
        BY <2>1 DEF TypeOK
    <2>3. SyncTyped'
        BY <1>3, <2>2 DEF CollectHost, SyncTyped
    <2> QED
        BY <1>3, <2>3 DEF CollectHost, store
<1>4. CASE SyncCancelled
    <2>1. SyncTyped'
        BY <1>4 DEF SyncCancelled, SyncTyped
    <2> QED
        BY <1>4, <2>1 DEF SyncCancelled, store
<1>5. CASE Replace
    <2>1. StoreTyped'
        BY <1>5, PublishTyped DEF Replace
    <2>2. SyncTyped'
        BY <1>5 DEF Replace, SyncTyped
    <2> QED
        BY <1>5, <2>1, <2>2 DEF Replace
<1>6. CASE Serve
    <2>1. SyncTyped' /\ ProcessTyped'
        BY <1>6 DEF Serve, SyncTyped, ProcessTyped
    <2> QED
        BY <1>6, <2>1 DEF Serve
<1>7. CASE InitialSyncFails \/ Exit \/ Crash
    BY <1>7, GoneTyped DEF InitialSyncFails, Exit, Crash
<1>8. CASE StartProcess
    <2>1. ProcessTyped'
        BY <1>8 DEF StartProcess, ProcessTyped, store
    <2> QED
        BY <1>8, <2>1, BeginTyped DEF StartProcess, store
<1>9. CASE SchedulerReceivesTick
    <2>1. ProcessTyped'
        BY <1>9 DEF SchedulerReceivesTick, ProcessTyped, process, store
    <2> QED
        BY <1>9, <2>1, BeginTyped DEF SchedulerReceivesTick, store
<1>10. CASE SchedulerStops
    <2>1. ProcessTyped' /\ SyncTyped'
        BY <1>10 DEF SchedulerStops, ProcessTyped, SyncTyped, process, store
    <2> QED
        BY <1>10, <2>1 DEF SchedulerStops, store
<1>11. CASE Tick \/ Signal \/ Shutdown
    <2>1. ProcessTyped'
        BY <1>11 DEF Tick, Signal, Shutdown, ProcessTyped, process, store
    <2> QED
        BY <1>11, <2>1 DEF Tick, Signal, Shutdown, store
<1>12. ASSUME NEW c \in Clients, ReaderStep(c)
       PROVE  TypeOK'
    BY <1>12, ReaderTypes
<1>13. CASE UNCHANGED vars
    BY <1>13 DEF vars, store
<1> QED
    BY <1>1, <1>2, <1>3, <1>4, <1>5, <1>6, <1>7, <1>8, <1>9, <1>10, <1>11, <1>12, <1>13
    DEF Next, SyncStep, SchedulerStep

------------------------------------------------------------------------------
(* The draft *)

LEMMA DraftKept ==
    ASSUME DraftInOrder, UNCHANGED <<hosts, stamp, previous, snapshot>>,
           pc' \in {"next", "collect"} => pc \in {"next", "collect"},
           pc' = "collect" => Len(hosts) < Len(Seeds)
    PROVE  DraftInOrder'
BY DEF DraftInOrder, Accounted

LEMMA DraftEmptied ==
    ASSUME hosts' = << >>, pc' # "collect",
           pc' = "next" => stamp' # Never /\ previous' = snapshot'.metadata
    PROVE  DraftInOrder'
BY SeedTypes, EmptyDraft DEF DraftInOrder, Accounted

LEMMA DraftGrows ==
    ASSUME TypeOK, DraftInOrder, CollectHost
    PROVE  DraftInOrder'
<1>1. /\ Len(hosts) \in Nat /\ DOMAIN hosts = 1..Len(hosts)
      /\ Len(hosts) + 1 \in 1..Len(Seeds) /\ Seed \in Hosts
    BY SeedCollected DEF CollectHost
<1>2. PICK answer \in States : hosts' = Append(hosts, Collected(Seed, answer))
    BY CollectAnswers
<1> DEFINE r == Collected(Seed, answer)
<1>3. r \in HostRecords /\ r.id = Seed /\ r.sync = stamp /\ Accounted(r)
    BY <1>1, <1>2, CollectedRecord DEF TypeOK
<1> HIDE DEF r
<1>4. /\ Len(hosts') = Len(hosts) + 1 /\ DOMAIN hosts' = 1..(Len(hosts) + 1)
      /\ hosts'[Len(hosts) + 1] = r
      /\ \A i \in 1..Len(hosts) : hosts'[i] = hosts[i]
    BY <1>1, <1>2, <1>3 DEF TypeOK, r
<1>5. /\ stamp' = stamp /\ previous' = previous /\ snapshot' = snapshot
      /\ pc = "collect" /\ pc' = "next"
    BY DEF CollectHost, store
<1>6. ASSUME NEW i \in DOMAIN hosts'
      PROVE  hosts'[i].id = Seeds[i] /\ hosts'[i].sync = stamp /\ Accounted(hosts'[i])
    <2>1. CASE i \in 1..Len(hosts)
        BY <1>1, <1>4, <1>5, <2>1 DEF DraftInOrder
    <2>2. CASE i = Len(hosts) + 1
        BY <1>3, <1>4, <2>2 DEF Seed
    <2> QED
        BY <1>1, <1>4, <2>1, <2>2
<1> QED
    BY <1>1, <1>4, <1>5, <1>6, SeedTypes DEF DraftInOrder, Accounted

LEMMA NextDraft ==
    ASSUME TypeOK, DraftInOrder, [Next]_vars
    PROVE  DraftInOrder'
<1>1. CASE NextHost
    BY <1>1, DraftKept DEF NextHost, store
<1>2. CASE CollectHost
    BY <1>2, DraftGrows
<1>3. CASE SyncCancelled
    BY <1>3, DraftKept DEF SyncCancelled, store
<1>4. CASE Replace
    BY <1>4 DEF Replace, DraftInOrder, Accounted
<1>5. CASE InitialSyncFails \/ Exit \/ Crash
    BY <1>5, DraftEmptied DEF InitialSyncFails, Exit, Crash, Gone
<1>6. ASSUME BeginSync, UNCHANGED store PROVE DraftInOrder'
    BY <1>6, DraftEmptied DEF BeginSync, store, TypeOK, Never
<1>7. CASE StartProcess \/ SchedulerReceivesTick
    BY <1>6, <1>7 DEF StartProcess, SchedulerReceivesTick
<1>8. CASE Serve \/ SchedulerStops
    BY <1>8, DraftKept DEF Serve, SchedulerStops, store
<1>9. CASE Tick \/ Signal \/ Shutdown \/ UNCHANGED vars \/ \E h \in Hosts : Change(h)
    BY <1>9, DraftKept DEF Tick, Signal, Shutdown, Change, vars, syncing, store, DraftInOrder
<1>10. ASSUME NEW c \in Clients, ReaderStep(c) PROVE DraftInOrder'
    <2>1. UNCHANGED <<syncing, store>>
        BY <1>10 DEF ReaderStep, ListHosts, GetHostByID, GetHost, ReadyzMetadata, Readyz, Reply
    <2> QED
        BY <2>1, DraftKept DEF syncing, store, DraftInOrder
<1> QED
    BY <1>1, <1>2, <1>3, <1>4, <1>5, <1>7, <1>8, <1>9, <1>10 DEF Next, SyncStep, SchedulerStep

------------------------------------------------------------------------------
(* The store *)

\* The fields of what a sync publishes.
LEMMA MetadataFields ==
    ASSUME NEW list, list # << >>
    PROVE  /\ Metadata(list).isPartial = (FailedHosts(list) # {})
           /\ Metadata(list).totalHosts = Len(list)
           /\ Metadata(list).failedHosts = Cardinality(FailedHosts(list))
           /\ Metadata(list).lastSyncAt = stamp
           /\ Metadata(list).lastSuccessfulSyncAt = stamp
           /\ Metadata(list).lastFullSyncAt =
                IF FailedHosts(list) # {} THEN previous.lastFullSyncAt ELSE stamp
           /\ Metadata(list).lastPartialSyncAt =
                IF FailedHosts(list) # {} THEN stamp ELSE previous.lastPartialSyncAt
BY DEF Metadata

LEMMA StoreKept ==
    ASSUME StoreWhole, UNCHANGED <<snapshot, stamp>>
    PROVE  StoreWhole'
BY DEF StoreWhole, Published, MetadataFits

\* A sync that is whole is published with what its records say.
LEMMA PublishWhole ==
    ASSUME TypeOK, DraftInOrder, StoreWhole, Replace
    PROVE  /\ StoreWhole' /\ Published'
           /\ snapshot'.metadata.lastSyncAt = stamp
           /\ \A f \in StampFields : snapshot'.metadata[f] >= snapshot.metadata[f]
<1>1. /\ snapshot'.hosts = hosts /\ snapshot'.metadata = Metadata(hosts)
      /\ stamp' = stamp /\ stamp \in Nat /\ stamp # Never
      /\ previous = snapshot.metadata /\ Len(hosts) = Len(Seeds)
    BY PublishTyped DEF Replace, DraftInOrder, TypeOK
<1>2. hosts # << >> /\ DOMAIN hosts = 1..Len(Seeds)
    BY <1>1, SeedTypes, EmptyDraft, LenProperties DEF TypeOK
<1> DEFINE m == Metadata(hosts)
           old == snapshot.metadata
<1>3. /\ m.isPartial = (FailedHosts(hosts) # {})
      /\ m.totalHosts = Len(hosts)
      /\ m.failedHosts = Cardinality(FailedHosts(hosts))
      /\ m.lastSyncAt = stamp
      /\ m.lastSuccessfulSyncAt = stamp
      /\ m.lastFullSyncAt =
            IF FailedHosts(hosts) # {} THEN old.lastFullSyncAt ELSE stamp
      /\ m.lastPartialSyncAt =
            IF FailedHosts(hosts) # {} THEN stamp ELSE old.lastPartialSyncAt
    BY <1>1, <1>2, MetadataFields
<1> HIDE DEF m
<1>4. /\ old.lastSyncAt \in Nat /\ old.lastSyncAt <= stamp
      /\ old.lastSuccessfulSyncAt \in Nat /\ old.lastSuccessfulSyncAt <= stamp
      /\ old.lastFullSyncAt \in Nat /\ old.lastFullSyncAt <= stamp
      /\ old.lastPartialSyncAt \in Nat /\ old.lastPartialSyncAt <= stamp
    <2>1. /\ old["lastSyncAt"] <= stamp /\ old["lastSuccessfulSyncAt"] <= stamp
          /\ old["lastFullSyncAt"] <= stamp /\ old["lastPartialSyncAt"] <= stamp
        BY DEF StoreWhole, StampFields
    <2>2. old \in MetadataRecords
        BY IndexTypes
    <2> QED
        BY <2>1, <2>2 DEF MetadataRecords
<1>5. \A f \in StampFields : m[f] <= stamp /\ m[f] >= old[f]
    BY <1>1, <1>3, <1>4 DEF StampFields
<1>6. Published'
    BY <1>1, <1>3 DEF Published, m
<1>7. MetadataFits'
    <2> DEFINE failing == {i \in DOMAIN hosts :
                            \E s \in Enabled : hosts[i].sourceStatus[s] = "error"}
    <2>1. failing = FailedHosts(hosts)
        BY DEF DraftInOrder, Accounted, FailedHosts
    <2>2. failing = {i \in DOMAIN snapshot'.hosts :
                        \E s \in Enabled : snapshot'.hosts[i].sourceStatus[s] = "error"}
        BY <1>1
    <2> HIDE DEF failing
    <2>3. /\ m.totalHosts = Len(Seeds) /\ m.failedHosts = Cardinality(failing)
          /\ m.isPartial <=> failing # {}
          /\ m.lastSyncAt = IF m.isPartial THEN m.lastPartialSyncAt ELSE m.lastFullSyncAt
          /\ m.lastFullSyncAt <= m.lastSyncAt /\ m.lastPartialSyncAt <= m.lastSyncAt
        <3>1. m.totalHosts = Len(Seeds) /\ m.failedHosts = Cardinality(failing)
            BY <1>1, <1>3, <2>1
        <3>2. m.isPartial <=> failing # {}
            BY <1>3, <2>1
        <3>3. CASE failing # {}
            BY <1>1, <1>3, <1>4, <2>1, <3>2, <3>3
        <3>4. CASE failing = {}
            BY <1>1, <1>3, <1>4, <2>1, <3>2, <3>4
        <3> QED
            BY <3>1, <3>2, <3>3, <3>4
    <2> QED
        BY <1>1, <2>2, <2>3 DEF MetadataFits, m
<1>8. \A i \in DOMAIN snapshot'.hosts :
            /\ snapshot'.hosts[i].id = Seeds[i]
            /\ snapshot'.hosts[i].sync = snapshot'.metadata.lastSyncAt
    BY <1>1, <1>3 DEF DraftInOrder, Replace, m
<1>9. StoreWhole'
    BY <1>1, <1>5, <1>6, <1>7, <1>8 DEF StoreWhole, m
<1> QED
    BY <1>1, <1>3, <1>5, <1>6, <1>9 DEF m

LEMMA StoreEmptied ==
    ASSUME TypeOK', snapshot' = NewStore
    PROVE  StoreWhole' /\ ~Published'
<1>1. ~Published' /\ MetadataFits'
    BY NoMetadataType DEF Published, MetadataFits
<1>2. \A f \in StampFields : snapshot'.metadata[f] <= stamp'
    BY NoMetadataType DEF TypeOK, Never
<1> QED
    BY <1>1, <1>2 DEF StoreWhole

\* A stamp only grows.
LEMMA BeginStamp ==
    ASSUME TypeOK, BeginSync
    PROVE  stamp' \in Nat /\ stamp' >= stamp /\ stamp' # Never
BY DEF TypeOK, BeginSync, Never

LEMMA StoreAged ==
    ASSUME TypeOK, StoreWhole, snapshot' = snapshot, stamp' \in Nat, stamp' >= stamp
    PROVE  StoreWhole'
<1>1. \A f \in StampFields : snapshot.metadata[f] \in Nat
    BY IndexTypes DEF MetadataRecords, StampFields
<1>2. \A f \in StampFields : snapshot'.metadata[f] <= stamp'
    BY <1>1 DEF StoreWhole, TypeOK
<1> QED
    BY <1>2 DEF StoreWhole, Published, MetadataFits

\* What the readers do leaves everything else alone.
LEMMA ReaderLeaves ==
    ASSUME NEW c \in Clients, ReaderStep(c)
    PROVE  UNCHANGED <<world, process, store, syncing, tick>>
BY DEF ReaderStep, ListHosts, GetHostByID, GetHost, ReadyzMetadata, Readyz, Reply

LEMMA NextStore ==
    ASSUME TypeOK, TypeOK', DraftInOrder, StoreWhole, [Next]_vars
    PROVE  StoreWhole'
<1>1. CASE Replace
    BY <1>1, PublishWhole
<1>2. CASE InitialSyncFails \/ Exit \/ Crash
    BY <1>2, StoreEmptied DEF InitialSyncFails, Exit, Crash, Gone
<1>3. CASE StartProcess \/ SchedulerReceivesTick
    BY <1>3, BeginStamp, StoreAged DEF StartProcess, SchedulerReceivesTick, store
<1>4. CASE NextHost \/ CollectHost \/ SyncCancelled \/ Serve \/ SchedulerStops
    BY <1>4, StoreKept DEF NextHost, CollectHost, SyncCancelled, Serve, SchedulerStops, store
<1>5. CASE Tick \/ Signal \/ Shutdown \/ UNCHANGED vars \/ \E h \in Hosts : Change(h)
    BY <1>5, StoreKept DEF Tick, Signal, Shutdown, Change, vars, syncing, store
<1>6. ASSUME NEW c \in Clients, ReaderStep(c) PROVE StoreWhole'
    BY <1>6, ReaderLeaves, StoreKept DEF store, syncing
<1> QED
    BY <1>1, <1>2, <1>3, <1>4, <1>5, <1>6 DEF Next, SyncStep, SchedulerStep

------------------------------------------------------------------------------
(* The process *)

LEMMA NextProcess ==
    ASSUME TypeOK, DraftInOrder, StoreWhole, ProcessInOrder, [Next]_vars
    PROVE  ProcessInOrder'
<1>1. CASE Replace
    <2>1. Published'
        BY <1>1, PublishWhole
    <2> QED
        BY <1>1, <2>1 DEF Replace, ProcessInOrder, process, TypeOK
<1>2. CASE InitialSyncFails \/ Exit \/ Crash
    BY <1>2 DEF InitialSyncFails, Exit, Crash, Gone, ProcessInOrder
<1>3. CASE StartProcess
    BY <1>3 DEF StartProcess, BeginSync, ProcessInOrder
<1>4. CASE SchedulerReceivesTick
    BY <1>4 DEF SchedulerReceivesTick, BeginSync, ProcessInOrder, Published, process, store
<1>5. CASE NextHost \/ CollectHost \/ SyncCancelled \/ SchedulerStops
    BY <1>5 DEF NextHost, CollectHost, SyncCancelled, SchedulerStops, process, store,
                ProcessInOrder, Published
<1>6. CASE Serve
    BY <1>6 DEF Serve, ProcessInOrder, Published
<1>7. CASE Tick \/ Signal \/ Shutdown \/ UNCHANGED vars \/ \E h \in Hosts : Change(h)
    BY <1>7 DEF Tick, Signal, Shutdown, Change, vars, process, syncing, store,
                ProcessInOrder, Published
<1>8. ASSUME NEW c \in Clients, ReaderStep(c) PROVE ProcessInOrder'
    BY <1>8, ReaderLeaves DEF process, store, syncing, ProcessInOrder, Published
<1> QED
    BY <1>1, <1>2, <1>3, <1>4, <1>5, <1>6, <1>7, <1>8 DEF Next, SyncStep, SchedulerStep

------------------------------------------------------------------------------
(* The readers *)

\* What holds of one client.
Behind(c) ==
    /\ newest[c] <= stamp
    /\ Published => newest[c] <= snapshot.metadata.lastSyncAt
    /\ call[c].op # "none" => phase \in {"serving", "stopping"}
    /\ call[c].op = "get" => /\ newest[c] <= call[c].host.sync
                             /\ call[c].host.sync <= snapshot.metadata.lastSyncAt
    /\ call[c].op = "readyz" => call[c].metadata.lastSyncAt # Never
Late(c) ==
    call[c].op = "answer" =>
        /\ call[c].status = 200
        /\ call[c].metadata.lastSyncAt # Never
        /\ \A r \in call[c].hosts : r.sync <= call[c].metadata.lastSyncAt

LEMMA EachReader ==
    /\ ReadersBehind <=> \A c \in Clients : Behind(c)
    /\ ReadersBehind' <=> \A c \in Clients : Behind(c)'
    /\ AnswersAreLate <=> \A c \in Clients : Late(c)
    /\ AnswersAreLate' <=> \A c \in Clients : Late(c)'
BY DEF ReadersBehind, Behind, AnswersAreLate, Late

LEMMA NumberTypes ==
    ASSUME TypeOK
    PROVE  /\ stamp \in Nat /\ snapshot.metadata.lastSyncAt \in Nat
           /\ \A c \in Clients : newest[c] \in Nat
           /\ StoreWhole => snapshot.metadata.lastSyncAt <= stamp
<1>1. snapshot.metadata \in MetadataRecords
    BY IndexTypes
<1>2. StoreWhole => snapshot.metadata["lastSyncAt"] <= stamp
    BY DEF StoreWhole, StampFields
<1> QED
    BY <1>1, <1>2 DEF TypeOK, MetadataRecords

\* Steps that leave the readers alone, while stamp and snapshot do not go back.
LEMMA ReaderKept ==
    ASSUME TypeOK, TypeOK', NEW c \in Clients, Behind(c), Late(c), UNCHANGED readers,
           stamp' >= stamp,
           \/ UNCHANGED snapshot
           \/ snapshot'.metadata.lastSyncAt = stamp /\ snapshot.metadata.lastSyncAt <= stamp,
           phase \in {"serving", "stopping"} => phase' \in {"serving", "stopping"}
    PROVE  Behind(c)' /\ Late(c)'
<1>1. Late(c)'
    BY DEF Late, readers
<1>2. /\ stamp \in Nat /\ stamp' \in Nat /\ snapshot.metadata.lastSyncAt \in Nat
      /\ newest[c] \in Nat /\ newest' = newest /\ call' = call
      /\ call[c].op = "get" => call[c].host.sync \in Nat
    BY NumberTypes, CallTypes DEF TypeOK, readers
<1>3. CASE UNCHANGED snapshot
    BY <1>1, <1>2, <1>3 DEF Behind, Published
<1>4. CASE snapshot'.metadata.lastSyncAt = stamp /\ snapshot.metadata.lastSyncAt <= stamp
    BY <1>1, <1>2, <1>4 DEF Behind, Published
<1> QED
    BY <1>1, <1>3, <1>4

LEMMA GoneReaders ==
    ASSUME TypeOK, TypeOK', Gone, NEW c \in Clients, Behind(c)
    PROVE  Behind(c)' /\ Late(c)'
<1>1. call'[c] = NoCall /\ newest' = newest /\ stamp' = stamp
    BY DEF Gone
<1>2. ~Published'
    BY StoreEmptied DEF Gone
<1> QED
    BY <1>1, <1>2, NoCallType DEF Behind, Late

\* The reply to one client leaves the others as they are.
LEMMA OthersKept ==
    ASSUME TypeOK, NEW c \in Clients, NEW answer, Reply(c, answer), NEW d \in Clients, d # c,
           newest'[d] = newest[d], Behind(d), Late(d)
    PROVE  Behind(d)' /\ Late(d)'
<1>1. call'[d] = call[d] /\ UNCHANGED <<stamp, snapshot, phase>>
    BY DEF Reply, TypeOK, syncing, store, process
<1> QED
    BY <1>1 DEF Behind, Late, Published

\* Every record of a stored snapshot is of the sync that stored it.
LEMMA StoredRecords ==
    ASSUME TypeOK, StoreWhole, Published
    PROVE  /\ \A i \in DOMAIN snapshot.hosts :
                snapshot.hosts[i].sync = snapshot.metadata.lastSyncAt
           /\ \A id \in DOMAIN hostsByID : hostsByID[id].sync = snapshot.metadata.lastSyncAt
           /\ DOMAIN hostsByID = Hosts
<1>1. \A i \in DOMAIN snapshot.hosts :
        snapshot.hosts[i].sync = snapshot.metadata.lastSyncAt
    BY DEF StoreWhole
<1>2. \A id \in DOMAIN hostsByID : hostsByID[id].sync = snapshot.metadata.lastSyncAt
    BY <1>1, IndexTypes
<1>3. DOMAIN snapshot.hosts = DOMAIN Seeds
    BY LenProperties DEF TypeOK, StoreWhole
<1>4. {snapshot.hosts[i].id : i \in DOMAIN snapshot.hosts} = Hosts
    BY <1>3 DEF StoreWhole, Hosts
<1> QED
    BY <1>1, <1>2, <1>4 DEF TypeOK

\* A step of a reader moves its client forward, or leaves it.
LEMMA ReaderMoves ==
    ASSUME IInv, NEW c \in Clients, ReaderStep(c)
    PROVE  /\ Behind(c)' /\ Late(c)' /\ newest'[c] >= newest[c]
           /\ \A d \in Clients : d # c =>
                /\ newest'[d] = newest[d]
                /\ Behind(d)' /\ Late(d)'
<1> USE DEF IInv
<1>1. Behind(c) /\ Late(c) /\ \A d \in Clients : Behind(d) /\ Late(d)
    BY EachReader
<1>2. /\ UNCHANGED <<stamp, snapshot, phase>>
      /\ stamp \in Nat /\ snapshot.metadata.lastSyncAt \in Nat /\ newest[c] \in Nat
      /\ snapshot.metadata.lastSyncAt <= stamp
    BY ReaderLeaves, NumberTypes DEF syncing, store, process
<1>3. Arrives(c) => Published /\ phase = "serving"
    BY DEF Arrives, ProcessInOrder
<1>4. call \in [Clients -> Calls] /\ newest \in [Clients -> Nat]
    BY DEF TypeOK
<1>5. ASSUME NEW filter \in Filters, ListHosts(c, filter)
      PROVE  /\ Behind(c)' /\ Late(c)' /\ newest'[c] >= newest[c]
             /\ \A d \in Clients \ {c} : newest'[d] = newest[d] /\ Behind(d)' /\ Late(d)'
    <2> DEFINE matching == {i \in DOMAIN snapshot.hosts :
                                MatchesAll(snapshot.hosts[i].id, filter)}
               listed == {snapshot.hosts[i] : i \in matching}
               answer == [op |-> "answer", status |-> 200, hosts |-> listed,
                          metadata |-> snapshot.metadata]
    <2>1. Arrives(c) /\ Reply(c, answer)
          /\ newest' = [newest EXCEPT ![c] = snapshot.metadata.lastSyncAt]
        BY <1>5, Zenon DEF ListHosts
    <2>2. \A r \in listed : r.sync <= snapshot.metadata.lastSyncAt
        BY <1>2, <1>3, <2>1, StoredRecords
    <2> HIDE DEF listed
    <2>3. call'[c] = answer /\ newest'[c] = snapshot.metadata.lastSyncAt
        BY <1>4, <2>1 DEF Reply
    <2>4. Late(c)'
        BY <1>3, <2>1, <2>2, <2>3 DEF Late, Published
    <2>5. Behind(c)' /\ newest'[c] >= newest[c]
        BY <1>1, <1>2, <1>3, <2>1, <2>3 DEF Behind, Published
    <2>6. \A d \in Clients \ {c} : newest'[d] = newest[d]
        BY <1>4, <2>1
    <2> QED
        BY <1>1, <2>1, <2>4, <2>5, <2>6, OthersKept
<1>6. ASSUME NEW id \in Hosts, GetHostByID(c, id)
      PROVE  /\ Behind(c)' /\ Late(c)' /\ newest'[c] >= newest[c]
             /\ \A d \in Clients \ {c} : newest'[d] = newest[d] /\ Behind(d)' /\ Late(d)'
    <2> DEFINE answer == [op |-> "get", host |-> hostsByID[id]]
    <2>1. Arrives(c) /\ Published /\ id \in DOMAIN hostsByID
        BY <1>3, <1>6, StoredRecords DEF GetHostByID
    <2>2. Reply(c, answer) /\ newest' = newest
        BY <1>6, <2>1 DEF GetHostByID
    <2>3. call'[c] = answer
        BY <1>4, <2>2 DEF Reply
    <2>4. hostsByID[id].sync = snapshot.metadata.lastSyncAt
        BY <2>1, StoredRecords
    <2>5. Behind(c)' /\ Late(c)' /\ newest'[c] >= newest[c]
        BY <1>1, <1>2, <1>3, <2>1, <2>2, <2>3, <2>4 DEF Behind, Late, Published
    <2> QED
        BY <1>1, <2>2, <2>5, OthersKept
<1>7. CASE GetHost(c)
    <2> DEFINE answer == [op |-> "answer", status |-> 200, hosts |-> {call[c].host},
                          metadata |-> snapshot.metadata]
    <2>1. /\ call[c].op = "get" /\ Reply(c, answer)
          /\ newest' = [newest EXCEPT ![c] = call[c].host.sync]
        BY <1>7 DEF GetHost
    <2>2. call'[c] = answer /\ newest'[c] = call[c].host.sync /\ call[c].host.sync \in Nat
        BY <1>4, <2>1, CallTypes DEF Reply
    <2>3. Published
        BY <1>1, <2>1 DEF Behind, ProcessInOrder
    <2>4. Late(c)'
        BY <1>1, <2>1, <2>2, <2>3 DEF Late, Behind, Published
    <2>5. Behind(c)' /\ newest'[c] >= newest[c]
        BY <1>1, <1>2, <2>1, <2>2 DEF Behind, Published
    <2>6. \A d \in Clients \ {c} : newest'[d] = newest[d]
        BY <1>4, <2>1
    <2> QED
        BY <1>1, <2>1, <2>4, <2>5, <2>6, OthersKept
<1>8. CASE ReadyzMetadata(c)
    <2> DEFINE answer == [op |-> "readyz", metadata |-> snapshot.metadata]
    <2>1. Reply(c, answer) /\ newest' = newest /\ Arrives(c)
        BY <1>8 DEF ReadyzMetadata
    <2>2. call'[c] = answer
        BY <1>4, <2>1 DEF Reply
    <2>3. Behind(c)' /\ Late(c)' /\ newest'[c] >= newest[c]
        BY <1>1, <1>2, <1>3, <2>1, <2>2 DEF Behind, Late, Published
    <2> QED
        BY <1>1, <2>1, <2>3, OthersKept
<1>9. CASE Readyz(c)
    <2> DEFINE answer == [op |-> "answer", status |-> IF ready THEN 200 ELSE 503,
                          hosts |-> {}, metadata |-> call[c].metadata]
    <2>1. Reply(c, answer) /\ newest' = newest /\ call[c].op = "readyz"
        BY <1>9 DEF Readyz
    <2>2. call'[c] = answer
        BY <1>4, <2>1 DEF Reply
    <2>3. ready
        BY <1>1, <2>1 DEF Behind, ProcessInOrder
    <2>4. Behind(c)' /\ Late(c)' /\ newest'[c] >= newest[c]
        BY <1>1, <1>2, <2>1, <2>2, <2>3 DEF Behind, Late, Published
    <2> QED
        BY <1>1, <2>1, <2>4, OthersKept
<1> QED
    BY <1>5, <1>6, <1>7, <1>8, <1>9 DEF ReaderStep

LEMMA NextReaders ==
    ASSUME IInv, TypeOK', [Next]_vars
    PROVE  /\ ReadersBehind' /\ AnswersAreLate'
           /\ \A c \in Clients : newest'[c] >= newest[c]
<1> USE DEF IInv
<1>1. \A c \in Clients : Behind(c) /\ Late(c) /\ newest[c] \in Nat
    BY EachReader, NumberTypes
<1>2. stamp \in Nat /\ snapshot.metadata.lastSyncAt <= stamp
    BY NumberTypes
<1>3. SUFFICES ASSUME NEW c \in Clients
               PROVE  Behind(c)' /\ Late(c)' /\ newest'[c] >= newest[c]
    BY EachReader
<1>4. CASE Replace
    BY <1>1, <1>2, <1>4, PublishWhole, ReaderKept DEF Replace, process, readers
<1>5. CASE InitialSyncFails \/ Exit \/ Crash
    <2>1. Gone /\ newest' = newest
        BY <1>5 DEF InitialSyncFails, Exit, Crash, Gone
    <2> QED
        BY <1>1, <2>1, GoneReaders
<1>6. CASE StartProcess \/ SchedulerReceivesTick
    BY <1>1, <1>2, <1>6, BeginStamp, ReaderKept
    DEF StartProcess, SchedulerReceivesTick, process, store, readers
<1>7. CASE NextHost \/ CollectHost \/ SyncCancelled \/ Serve \/ SchedulerStops
    BY <1>1, <1>2, <1>7, ReaderKept
    DEF NextHost, CollectHost, SyncCancelled, Serve, SchedulerStops, process, store, readers
<1>8. CASE Tick \/ Signal \/ Shutdown \/ UNCHANGED vars \/ \E h \in Hosts : Change(h)
    BY <1>1, <1>2, <1>8, ReaderKept
    DEF Tick, Signal, Shutdown, Change, vars, process, syncing, store, readers
<1>9. ASSUME NEW d \in Clients, ReaderStep(d)
      PROVE  Behind(c)' /\ Late(c)' /\ newest'[c] >= newest[c]
    BY <1>1, <1>9, ReaderMoves
<1> QED
    BY <1>4, <1>5, <1>6, <1>7, <1>8, <1>9 DEF Next, SyncStep, SchedulerStep

LEMMA NextInv == IInv /\ [Next]_vars => IInv'
<1> SUFFICES ASSUME IInv, [Next]_vars PROVE IInv'
    OBVIOUS
<1>1. TypeOK'
    BY NextTypes DEF IInv
<1>2. DraftInOrder' /\ StoreWhole' /\ ProcessInOrder'
    BY <1>1, NextDraft, NextStore, NextProcess DEF IInv
<1>3. ReadersBehind' /\ AnswersAreLate'
    BY <1>1, NextReaders
<1> QED
    BY <1>1, <1>2, <1>3 DEF IInv

------------------------------------------------------------------------------
(* Theorems *)

LEMMA Invariant == Spec => []IInv
BY InitInv, NextInv, PTL DEF Spec

\* Every variable keeps its type, and the index of the store is that of its list.
THEOREM TypeCorrect == Spec => []TypeOK
BY Invariant, PTL DEF IInv

\* The counters and the stamps served with the hosts are those of these hosts, whichever
\* sources are enabled and fail, over cancelled syncs, crashes and restarts.
THEOREM MetadataIsTrue == Spec => []MetadataFits
<1>1. IInv => MetadataFits
    BY DEF IInv, StoreWhole
<1> QED
    BY <1>1, Invariant, PTL

\* No answer with hosts or with the flag is given before a sync is over, and none shows a
\* host newer than the metadata next to it, for any number of readers and syncs.
THEOREM AnswersOfFinishedSyncs == Spec => []AnswersAreLate
BY Invariant, PTL DEF IInv

\* What a client is shown never goes back in time, by whichever endpoint and over
\* restarts.
THEOREM ReadersGoForward == Spec => ReadersMoveForward
<1>1. IInv /\ [Next]_vars => [\A c \in Clients : newest'[c] >= newest[c]]_vars
    BY NextInv, NextReaders DEF IInv
<1> QED
    BY <1>1, Invariant, PTL DEF Spec, ReadersMoveForward

\* The four stamps of the metadata only grow while the process lives.
THEOREM StampsNeverGoBack == Spec => StampsAdvance
<1> DEFINE forward == phase' # "down" =>
                        \A f \in {"lastSyncAt", "lastSuccessfulSyncAt", "lastFullSyncAt",
                                  "lastPartialSyncAt"} :
                            snapshot'.metadata[f] >= snapshot.metadata[f]
<1>1. IInv /\ [Next]_vars => [forward]_vars
    <2> SUFFICES ASSUME IInv, Next PROVE forward
        OBVIOUS
    <2>1. \A f \in StampFields : snapshot.metadata[f] \in Nat
        BY IndexTypes DEF IInv, MetadataRecords, StampFields
    <2>2. CASE Replace
        BY <2>2, PublishWhole DEF IInv, StampFields
    <2>3. CASE Gone
        BY <2>3 DEF Gone
    <2>4. CASE UNCHANGED snapshot
        BY <2>1, <2>4 DEF StampFields
    <2>5. ASSUME NEW c \in Clients, ReaderStep(c) PROVE UNCHANGED snapshot
        BY <2>5, ReaderLeaves DEF store
    <2>6. Replace \/ Gone \/ UNCHANGED snapshot
        BY <2>5 DEF Next, SyncStep, SchedulerStep, NextHost, CollectHost, SyncCancelled,
            InitialSyncFails, Serve, SchedulerReceivesTick, SchedulerStops, Tick,
            StartProcess, Signal, Shutdown, Exit, Crash, Change, store
    <2> QED
        BY <2>2, <2>3, <2>4, <2>6
<1> QED
    BY <1>1, Invariant, PTL DEF Spec, StampsAdvance

------------------------------------------------------------------------------
(* The refinement of InventoryContract *)

\* What has been collected of a host was true of it since the sync began, unless the
\* service is being stopped.
SeenInTime ==
    /\ \A h \in Hosts : runs[h] \in since[h]
    /\ pc \in {"next", "collect"} =>
        \A i \in DOMAIN hosts :
            Shown(hosts[i]) \in since[Seeds[i]] \cup IF cancelled THEN {Unseen} ELSE {}

LEMMA SeenKept ==
    ASSUME SeenInTime, UNCHANGED <<runs, since, hosts>>, cancelled => cancelled',
           pc' \in {"next", "collect"} => pc \in {"next", "collect"}
    PROVE  SeenInTime'
BY DEF SeenInTime, Shown

LEMMA SeenCollected ==
    ASSUME TypeOK, DraftInOrder, SeenInTime, CollectHost, "cadvisor" \in Enabled
    PROVE  SeenInTime'
<1>1. /\ Len(hosts) \in Nat /\ DOMAIN hosts = 1..Len(hosts) /\ Seed \in Hosts
      /\ pc = "collect" /\ UNCHANGED <<runs, since, cancelled>>
    BY SeedCollected DEF CollectHost, world, process
<1>2. PICK answer \in States : /\ hosts' = Append(hosts, Collected(Seed, answer))
                               /\ Collected(Seed, answer) \in HostRecords
                               /\ answer \in Answers(Seed)
    BY CollectAnswers
<1> DEFINE r == Collected(Seed, answer)
<1>3. Shown(r) = answer
    BY <1>1, CollectedRecord DEF TypeOK
<1>4. Shown(r) \in since[Seed] \cup IF cancelled THEN {Unseen} ELSE {}
    BY <1>1, <1>2, <1>3 DEF Answers, SeenInTime
<1> HIDE DEF r
<1>5. /\ DOMAIN hosts' = 1..(Len(hosts) + 1) /\ hosts'[Len(hosts) + 1] = r
      /\ \A i \in 1..Len(hosts) : hosts'[i] = hosts[i]
    BY <1>1, <1>2 DEF TypeOK, r
<1>6. ASSUME NEW i \in DOMAIN hosts'
      PROVE  Shown(hosts'[i]) \in since[Seeds[i]] \cup IF cancelled THEN {Unseen} ELSE {}
    <2>1. CASE i \in 1..Len(hosts)
        BY <1>1, <1>5, <2>1 DEF SeenInTime
    <2>2. CASE i = Len(hosts) + 1
        BY <1>4, <1>5, <2>2 DEF Seed
    <2> QED
        BY <1>1, <1>5, <2>1, <2>2
<1> QED
    BY <1>1, <1>6 DEF SeenInTime, Shown

LEMMA NextSeen ==
    ASSUME IInv, SeenInTime, [Next]_vars, "cadvisor" \in Enabled
    PROVE  SeenInTime'
<1> USE DEF IInv
<1>1. ASSUME NEW h \in Hosts, Change(h) PROVE SeenInTime'
    <2>1. /\ \A g \in Hosts : runs'[g] \in since'[g] /\ since[g] \subseteq since'[g]
          /\ UNCHANGED <<pc, hosts, cancelled>>
        BY <1>1 DEF Change, TypeOK, SeenInTime, process, syncing
    <2>2. \A i \in DOMAIN hosts : Seeds[i] \in Hosts
        BY SeedTypes, LenProperties DEF TypeOK, DraftInOrder
    <2> QED
        BY <2>1, <2>2 DEF SeenInTime, Shown
<1>2. CASE CollectHost
    BY <1>2, SeenCollected
<1>3. CASE InitialSyncFails \/ Exit \/ Crash
    BY <1>3 DEF InitialSyncFails, Exit, Crash, Gone, SeenInTime, world
<1>4. CASE StartProcess \/ SchedulerReceivesTick
    BY <1>4, EmptyDraft DEF StartProcess, SchedulerReceivesTick, BeginSync, SeenInTime
<1>5. CASE NextHost \/ SyncCancelled \/ Replace \/ Serve \/ SchedulerStops
    BY <1>5, SeenKept
    DEF NextHost, SyncCancelled, Replace, Serve, SchedulerStops, world, process
<1>6. CASE Tick \/ Signal \/ Shutdown \/ UNCHANGED vars
    BY <1>6, SeenKept DEF Tick, Signal, Shutdown, vars, world, process, syncing
<1>7. ASSUME NEW c \in Clients, ReaderStep(c) PROVE SeenInTime'
    BY <1>7, ReaderLeaves, SeenKept DEF world, process, syncing
<1> QED
    BY <1>1, <1>2, <1>3, <1>4, <1>5, <1>6, <1>7 DEF Next, SyncStep, SchedulerStep

\* The refinement mapping, by its name.
shown == [id \in DOMAIN hostsByID |-> Shown(hostsByID[id])]

LEMMA EmptyShown == hostsByID = NoIndex => shown = NoIndex
<1> SUFFICES ASSUME hostsByID = NoIndex PROVE shown = NoIndex
    OBVIOUS
<1>1. DOMAIN hostsByID = {}
    BY DEF NoIndex
<1> QED
    BY <1>1 DEF shown, NoIndex

\* Publishing shows what the draft holds.
LEMMA PublishShows ==
    ASSUME IInv, SeenInTime, Replace
    PROVE  /\ shown' \in [Hosts -> States]
           /\ \A h \in Hosts :
                shown'[h] \in since[h] \cup IF cancelled THEN {Unseen} ELSE {}
           /\ UNCHANGED <<runs, since, cancelled>>
<1> USE DEF IInv
<1>1. /\ DOMAIN hostsByID' = Hosts /\ UNCHANGED <<runs, since, cancelled>>
      /\ Len(hosts) = Len(Seeds)
    BY PublishTyped DEF Replace, world, process
<1>2. ASSUME NEW h \in Hosts
      PROVE  shown'[h] \in since[h] \cup IF cancelled THEN {Unseen} ELSE {}
    <2> DEFINE i == CHOOSE k \in DOMAIN hosts : hosts[k].id = h
    <2>1. i \in DOMAIN hosts /\ Seeds[i] = h
        BY <1>1, DraftIndex
    <2>2. hostsByID'[h] = hosts[i]
        BY DEF Replace
    <2>3. shown'[h] = Shown(hosts[i])
        BY <1>1, <2>2 DEF shown, Shown
    <2> HIDE DEF i
    <2> QED
        BY <2>1, <2>3 DEF SeenInTime, Replace
<1>3. \A h \in Hosts : shown'[h] \in States
    BY <1>2 DEF TypeOK
<1>4. shown' = [h \in Hosts |-> shown'[h]]
    BY <1>1 DEF shown
<1> QED
    BY <1>1, <1>2, <1>3, <1>4

LEMMA ContractStep ==
    ASSUME IInv, SeenInTime, [Next]_vars
    PROVE  [Contract!Next]_(Contract!view)
<1> USE DEF IInv, Contract!Next, Contract!view
<1>1. ASSUME NEW h \in Hosts, Change(h) PROVE Contract!Next
    BY <1>1 DEF Change, Contract!Change, process, store
<1>2. CASE Replace
    BY <1>2, PublishShows DEF Contract!Publish, shown
<1>3. CASE InitialSyncFails \/ Exit \/ Crash
    <2>1. Gone
        BY <1>3 DEF InitialSyncFails, Exit, Crash
    <2>2. shown' = NoIndex /\ cancelled' = FALSE /\ UNCHANGED <<runs, since>>
        BY <2>1, EmptyShown DEF Gone, world, shown, NoIndex
    <2> QED
        BY <2>2 DEF Contract!Lost, shown
<1>4. CASE StartProcess \/ SchedulerReceivesTick
    BY <1>4 DEF StartProcess, SchedulerReceivesTick, BeginSync, Contract!SyncBegins,
                process, store
<1>5. CASE Signal
    BY <1>5 DEF Signal, Contract!Stopping, world, store
<1>6. CASE NextHost \/ CollectHost \/ SyncCancelled \/ Serve \/ SchedulerStops \/ Tick
           \/ Shutdown \/ UNCHANGED vars
    BY <1>6 DEF NextHost, CollectHost, SyncCancelled, Serve, SchedulerStops, Tick, Shutdown,
                vars, world, process, store
<1>7. ASSUME NEW c \in Clients, ReaderStep(c) PROVE UNCHANGED <<world, process, store>>
    BY <1>7, ReaderLeaves
<1>8. UNCHANGED <<world, process, store>> => UNCHANGED Contract!view
    BY DEF world, process, store
<1> QED
    BY <1>1, <1>2, <1>3, <1>4, <1>5, <1>6, <1>7, <1>8 DEF Next, SyncStep, SchedulerStep

\* With its cAdvisor source enabled the service implements InventoryContract: the snapshot
\* changes as a whole, and shows of each host what it was at some moment of the sync, or
\* that nothing was seen.  Without it no host is ever seen.
THEOREM Refines == "cadvisor" \in Enabled => (Spec => IsInventory)
<1> SUFFICES ASSUME "cadvisor" \in Enabled PROVE Spec => IsInventory
    OBVIOUS
<1>1. Init => Contract!Init
    BY EmptyShown DEF Init, Contract!Init, shown
<1>2. Init => SeenInTime
    BY EmptyDraft DEF Init, SeenInTime
<1>3. IInv /\ SeenInTime /\ [Next]_vars => SeenInTime'
    BY NextSeen
<1>4. IInv /\ SeenInTime /\ [Next]_vars => [Contract!Next]_(Contract!view)
    BY ContractStep
<1> QED
    BY <1>1, <1>2, <1>3, <1>4, Invariant, PTL DEF Spec, IsInventory, Contract!Spec
==============================================================================
