----------------------------- MODULE InventorySvc -----------------------------
(***************************************************************************)
(* InventorySvc: the sync that asks every bootstrap host's cAdvisor in turn,  *)
(* the store that replaces its snapshot under a lock, the ticker, the HTTP   *)
(* readers, and the life of the process.                                    *)
(*                                                                         *)
(* A timestamp is the number of the sync that took it; from MaxSyncs on the  *)
(* numbers stay the same while syncs go on, as if the clock were too coarse. *)
(***************************************************************************)
EXTENDS Naturals, Sequences, FiniteSets

CONSTANTS
    Seeds,          \* the ids of selfProvisioning, in its order
    Labels,         \* the labels of each, <<key, value>> pairs
    Filters,        \* the label filters readers ask for
    Enabled,        \* the enabled ones of Sources
    States,         \* what a host can be: the set of workloads that cAdvisor tells of, or
    Unseen,         \* a host whose cAdvisor gives no usable answer
    Clients,
    MaxSyncs, MaxStarts

Hosts   == {Seeds[i] : i \in DOMAIN Seeds}
Sources == {"cadvisor", "netbox", "otherSources"}
Workloads == UNION (States \ {Unseen})

\* selfprovisioning.Load lets the service start only with distinct, non-empty ids.
ASSUME InventoryAssumption ==
    /\ Seeds \in Seq(Hosts) /\ Seeds # << >>
    /\ \A i, j \in DOMAIN Seeds : Seeds[i] = Seeds[j] => i = j
    /\ DOMAIN Labels = Hosts
    /\ Enabled \subseteq Sources
    /\ Unseen \in States
    /\ MaxSyncs \in Nat \ {0} /\ MaxStarts \in Nat

VARIABLES
    runs,           \* the outside world: what each host runs, or Unseen
    phase,          \* the process: "down", "starting", "serving", "stopping"
    cancelled,      \* the signal's context is done
    snapshot, hostsByID, ready,                         \* memory.Store
    pc, hosts, previous,                                \* Sync and its locals
    tick,                                               \* the ticker's channel
    call,                                               \* the requests of readers
    stamp, starts,  \* the number of the newest sync, and of process starts
    since,          \* history: what each host was since the newest sync began
    newest          \* history: the sync of the newest record each reader was shown

world   == <<runs, since>>
process == <<phase, cancelled, starts>>
store   == <<snapshot, hostsByID, ready>>
syncing == <<pc, hosts, previous, stamp>>
readers == <<call, newest>>
vars    == <<world, process, store, syncing, tick, readers>>

\* The zero time and the nil pointer.
Never == 0

NoMetadata ==
    [isPartial |-> FALSE, totalHosts |-> 0, failedHosts |-> 0, lastSyncAt |-> Never,
     lastSuccessfulSyncAt |-> Never, lastFullSyncAt |-> Never, lastPartialSyncAt |-> Never]
NewStore == [hosts |-> << >>, metadata |-> NoMetadata]
NoIndex == [id \in {} |-> NoMetadata]
NoCall  == [op |-> "none"]

------------------------------------------------------------------------------
(* One host *)

\* What a collection of host h makes of it, with cAdvisor's answer; the other sources
\* are placeholders that fail when they are enabled.  `sync` is history.
Collected(h, answer) ==
    LET status == [s \in Sources |->
                    IF s \notin Enabled THEN "disabled"
                    ELSE IF s = "cadvisor" /\ answer # Unseen THEN "ok" ELSE "error"]
        succeeded == \E s \in Sources : status[s] = "ok"
        failed    == \E s \in Sources : status[s] = "error"
    IN  [id |-> h, sourceStatus |-> status,
         workloads |-> IF succeeded THEN answer ELSE {},
         lastObservedAt |-> IF succeeded THEN stamp ELSE Never,
         status |-> CASE Enabled = {}           -> "bootstrap_only"
                      [] failed /\ succeeded    -> "partial"
                      [] failed /\ ~succeeded   -> "error"
                      [] OTHER                  -> "ok",
         sync |-> stamp]

\* Mutation only: a host that cannot be seen keeps the workloads it was last seen with.
AnswersOrKept(h) ==
    {IF runs[h] = Unseen /\ h \in DOMAIN hostsByID THEN hostsByID[h].workloads ELSE runs[h]}

\* What cAdvisor answers to a collection of h: a cancelled context may cut it short.
Answers(h) == {runs[h]} \cup IF cancelled THEN {Unseen} ELSE {}

\* Mutation only: a host with one good source counts as a success.
FailedHostsOnly(list) == {i \in DOMAIN list : list[i].status = "error"}

FailedHosts(list) == {i \in DOMAIN list : list[i].status \in {"partial", "error"}}

\* Mutation only: a partial sync forgets when the last full one was.
MetadataForgets(list) ==
    LET isPartial == FailedHosts(list) # {}
    IN  [isPartial |-> isPartial,
         totalHosts |-> Len(list), failedHosts |-> Cardinality(FailedHosts(list)),
         lastSyncAt |-> stamp, lastSuccessfulSyncAt |-> stamp,
         lastFullSyncAt    |-> IF isPartial THEN Never ELSE stamp,
         lastPartialSyncAt |-> IF isPartial THEN stamp ELSE previous.lastPartialSyncAt]

Metadata(list) ==
    LET isPartial == FailedHosts(list) # {}
    IN  [isPartial |-> isPartial,
         totalHosts |-> Len(list), failedHosts |-> Cardinality(FailedHosts(list)),
         lastSyncAt |-> stamp,
         lastSuccessfulSyncAt |->
            IF list # << >> THEN stamp ELSE previous.lastSuccessfulSyncAt,
         lastFullSyncAt    |-> IF isPartial THEN previous.lastFullSyncAt ELSE stamp,
         lastPartialSyncAt |-> IF isPartial THEN stamp ELSE previous.lastPartialSyncAt]

------------------------------------------------------------------------------
(* The world *)

\* Containers come and go, cAdvisor stops answering and answers again.
Change(h) ==
    /\ \E s \in States : runs' = [runs EXCEPT ![h] = s]
    /\ since' = [since EXCEPT ![h] = @ \cup {runs'[h]}]
    /\ UNCHANGED <<process, store, syncing, tick, readers>>

------------------------------------------------------------------------------
(* Sync *)

BeginSync ==
    /\ pc' = "next" /\ hosts' = << >>
    /\ previous' = snapshot.metadata
    /\ stamp' = IF stamp < MaxSyncs THEN stamp + 1 ELSE stamp
    /\ since' = [h \in Hosts |-> {runs[h]}]

Seed == Seeds[Len(hosts) + 1]

\* The context is looked at before each host.
NextHost ==
    /\ pc = "next" /\ Len(hosts) < Len(Seeds) /\ ~cancelled
    /\ pc' = "collect"
    /\ UNCHANGED <<world, process, store, hosts, previous, stamp, tick, readers>>

\* Mutation only: a host is asked again until it answers.
CollectUntilSeen ==
    /\ pc = "collect"
    /\ \E answer \in Answers(Seed) :
        hosts' = IF answer = Unseen THEN hosts ELSE Append(hosts, Collected(Seed, answer))
    /\ pc' = "next"
    /\ UNCHANGED <<world, process, store, previous, stamp, tick, readers>>

CollectHost ==
    /\ pc = "collect"
    /\ \E answer \in Answers(Seed) : hosts' = Append(hosts, Collected(Seed, answer))
    /\ pc' = "next"
    /\ UNCHANGED <<world, process, store, previous, stamp, tick, readers>>

SyncCancelled ==
    /\ pc = "next" /\ Len(hosts) < Len(Seeds) /\ cancelled /\ phase # "starting"
    /\ pc' = "idle"
    /\ UNCHANGED <<world, process, store, hosts, previous, stamp, tick, readers>>

\* Mutation only: the index is made of the snapshot that is being replaced.
ReplaceStaleIndex ==
    /\ pc = "next" /\ Len(hosts) = Len(Seeds)
    /\ snapshot' = [hosts |-> hosts, metadata |-> Metadata(hosts)]
    /\ hostsByID' = [id \in {snapshot.hosts[i].id : i \in DOMAIN snapshot.hosts} |->
                        snapshot.hosts[CHOOSE i \in DOMAIN snapshot.hosts :
                                        snapshot.hosts[i].id = id]]
    /\ pc' = IF phase = "starting" THEN "synced" ELSE "idle"
    /\ UNCHANGED <<world, process, ready, hosts, previous, stamp, tick, readers>>

\* Store.Replace.  Nothing looks at the context after the last host.
Replace ==
    /\ pc = "next" /\ Len(hosts) = Len(Seeds)
    /\ snapshot' = [hosts |-> hosts, metadata |-> Metadata(hosts)]
    /\ hostsByID' = [id \in Hosts |-> hosts[CHOOSE i \in DOMAIN hosts : hosts[i].id = id]]
    /\ pc' = IF phase = "starting" THEN "synced" ELSE "idle"
    /\ UNCHANGED <<world, process, ready, hosts, previous, stamp, tick, readers>>

------------------------------------------------------------------------------
(* The process *)

Init ==
    /\ runs \in [Hosts -> States] /\ since = [h \in Hosts |-> {runs[h]}]
    /\ phase = "down" /\ cancelled = FALSE /\ starts = 0
    /\ snapshot = NewStore /\ hostsByID = NoIndex /\ ready = FALSE
    /\ pc = "off" /\ hosts = << >> /\ previous = NoMetadata /\ stamp = Never
    /\ tick = FALSE
    /\ call = [c \in Clients |-> NoCall] /\ newest = [c \in Clients |-> Never]

\* main and Run up to the initial sync.
StartProcess ==
    /\ phase = "down" /\ starts < MaxStarts
    /\ phase' = "starting" /\ starts' = starts + 1
    /\ BeginSync
    /\ UNCHANGED <<runs, cancelled, store, tick, readers>>

\* Mutation only: the server is up while the initial sync runs.
ServeEarly ==
    /\ phase = "starting"
    /\ phase' = "serving" /\ ready' = (pc = "synced")
    /\ UNCHANGED <<world, cancelled, starts, snapshot, hostsByID, syncing, tick, readers>>

\* SetReady, then the scheduler and the server.
Serve ==
    /\ pc = "synced"
    /\ ready' = TRUE /\ phase' = "serving" /\ pc' = "idle"
    /\ UNCHANGED <<world, cancelled, starts, snapshot, hostsByID, hosts, previous, stamp,
                   tick, readers>>

Tick ==
    /\ pc \in {"next", "collect", "idle"} /\ phase \in {"serving", "stopping"} /\ ~tick
    /\ tick' = TRUE
    /\ UNCHANGED <<world, process, store, syncing, readers>>

\* Mutation only: a partial sync ends the ticker's loop.
SchedulerReceivesUnlessPartial ==
    /\ pc = "idle" /\ tick /\ ~snapshot.metadata.isPartial
    /\ tick' = FALSE
    /\ BeginSync
    /\ UNCHANGED <<runs, process, store, readers>>

\* The select of Scheduler.Start; with both cases ready it takes either.
SchedulerReceivesTick ==
    /\ pc = "idle" /\ tick
    /\ tick' = FALSE
    /\ BeginSync
    /\ UNCHANGED <<runs, process, store, readers>>

SchedulerStops ==
    /\ pc = "idle" /\ cancelled
    /\ pc' = "off" /\ tick' = FALSE
    /\ UNCHANGED <<world, process, store, hosts, previous, stamp, readers>>

Signal ==
    /\ phase \in {"starting", "serving"} /\ ~cancelled
    /\ cancelled' = TRUE
    /\ UNCHANGED <<world, phase, starts, store, syncing, tick, readers>>

\* Server.Shutdown: requests in flight are let go on.
Shutdown ==
    /\ phase = "serving" /\ cancelled
    /\ phase' = "stopping"
    /\ UNCHANGED <<world, cancelled, starts, store, syncing, tick, readers>>

\* What a process keeps in memory is gone.
Gone ==
    /\ phase' = "down" /\ cancelled' = FALSE
    /\ snapshot' = NewStore /\ hostsByID' = NoIndex /\ ready' = FALSE
    /\ pc' = "off" /\ hosts' = << >> /\ previous' = NoMetadata /\ tick' = FALSE
    /\ call' = [c \in Clients |-> NoCall]
    /\ UNCHANGED <<world, starts, stamp, newest>>

\* Run returns: the initial sync was cancelled; the requests have ended, or 10 seconds.
InitialSyncFails ==
    /\ pc = "next" /\ Len(hosts) < Len(Seeds) /\ cancelled /\ phase = "starting"
    /\ Gone
Exit  == phase = "stopping" /\ Gone
Crash == phase # "down" /\ Gone

------------------------------------------------------------------------------
(* The readers *)

Reply(c, answer) ==
    /\ call' = [call EXCEPT ![c] = answer]
    /\ UNCHANGED <<world, process, store, syncing, tick>>

Arrives(c) == phase = "serving" /\ call[c].op \in {"none", "answer"}

MatchesAll(h, filter) == filter \subseteq Labels[h]

\* GET /api/v1/hosts: one read of the store.
ListHosts(c, filter) ==
    /\ Arrives(c)
    /\ LET matching == {i \in DOMAIN snapshot.hosts :
                            MatchesAll(snapshot.hosts[i].id, filter)}
       IN  Reply(c, [op |-> "answer", status |-> 200,
                     hosts |-> {snapshot.hosts[i] : i \in matching},
                     metadata |-> snapshot.metadata])
    /\ newest' = [newest EXCEPT ![c] = snapshot.metadata.lastSyncAt]

\* GET /api/v1/hosts/{id}: the host under one lock, the metadata under another.
GetHostByID(c, id) ==
    /\ Arrives(c)
    /\ Reply(c, IF id \in DOMAIN hostsByID
                THEN [op |-> "get", host |-> hostsByID[id]]
                ELSE [op |-> "answer", status |-> 404])
    /\ UNCHANGED newest

GetHost(c) ==
    /\ call[c].op = "get"
    /\ Reply(c, [op |-> "answer", status |-> 200, hosts |-> {call[c].host},
                 metadata |-> snapshot.metadata])
    /\ newest' = [newest EXCEPT ![c] = call[c].host.sync]

\* GET /readyz: the metadata under one lock, the flag under another.
ReadyzMetadata(c) ==
    /\ Arrives(c)
    /\ Reply(c, [op |-> "readyz", metadata |-> snapshot.metadata])
    /\ UNCHANGED newest

Readyz(c) ==
    /\ call[c].op = "readyz"
    /\ Reply(c, [op |-> "answer", status |-> IF ready THEN 200 ELSE 503,
                 hosts |-> {}, metadata |-> call[c].metadata])
    /\ UNCHANGED newest

------------------------------------------------------------------------------
(* Specification *)

SyncStep ==
    NextHost \/ CollectHost \/ SyncCancelled \/ InitialSyncFails \/ Replace \/ Serve
SchedulerStep == SchedulerReceivesTick \/ SchedulerStops
ReaderStep(c) ==
    \/ \E filter \in Filters : ListHosts(c, filter)
    \/ \E id \in Hosts : GetHostByID(c, id)
    \/ GetHost(c)
    \/ ReadyzMetadata(c) \/ Readyz(c)

Next ==
    \/ \E h \in Hosts : Change(h)
    \/ SyncStep \/ SchedulerStep \/ Tick
    \/ StartProcess \/ Signal \/ Shutdown \/ Exit \/ Crash
    \/ \E c \in Clients : ReaderStep(c)

Spec == Init /\ [][Next]_vars

\* Every request of a sync ends by its timeout, and the ticker ticks.
FairSpec == Spec /\ WF_vars(SyncStep) /\ WF_vars(SchedulerStep) /\ WF_vars(Tick)

------------------------------------------------------------------------------
(* Properties *)

Published == snapshot.metadata.lastSyncAt # Never

HostRecords ==
    [id : Hosts, sourceStatus : [Sources -> {"ok", "error", "disabled"}],
     workloads : SUBSET Workloads, lastObservedAt : Nat,
     status : {"ok", "partial", "error", "bootstrap_only"}, sync : Nat]
MetadataRecords ==
    [isPartial : BOOLEAN, totalHosts : Nat, failedHosts : Nat, lastSyncAt : Nat,
     lastSuccessfulSyncAt : Nat, lastFullSyncAt : Nat, lastPartialSyncAt : Nat]

Calls ==
    [op : {"none"}] \cup [op : {"get"}, host : HostRecords]
        \cup [op : {"readyz"}, metadata : MetadataRecords]
        \cup [op : {"answer"}, status : {404}]
        \cup [op : {"answer"}, status : {200, 503}, hosts : SUBSET HostRecords,
              metadata : MetadataRecords]

\* Every variable has its type, and the index of the store is that of its list.
TypeOK ==
    /\ runs \in [Hosts -> States] /\ since \in [Hosts -> SUBSET States]
    /\ phase \in {"down", "starting", "serving", "stopping"}
    /\ cancelled \in BOOLEAN /\ ready \in BOOLEAN /\ tick \in BOOLEAN
    /\ pc \in {"off", "next", "collect", "synced", "idle"}
    /\ stamp \in 0..MaxSyncs /\ starts \in 0..MaxStarts
    /\ hosts \in Seq(HostRecords) /\ previous \in MetadataRecords
    /\ snapshot \in [hosts : Seq(HostRecords), metadata : MetadataRecords]
    /\ newest \in [Clients -> Nat] /\ call \in [Clients -> Calls]
    /\ hostsByID = [id \in DOMAIN hostsByID |-> hostsByID[id]]
    /\ DOMAIN hostsByID = {snapshot.hosts[i].id : i \in DOMAIN snapshot.hosts}
    /\ \A i \in DOMAIN snapshot.hosts : hostsByID[snapshot.hosts[i].id] = snapshot.hosts[i]

\* The counters and stamps of the metadata fit the hosts they are served with: a host
\* with an enabled source that failed is counted whatever its other sources said, and
\* of the stamps of the full and the partial sync the newer one is the last sync's.
MetadataFits ==
    LET m == snapshot.metadata
        failing == {i \in DOMAIN snapshot.hosts :
                        \E s \in Enabled : snapshot.hosts[i].sourceStatus[s] = "error"}
    IN  Published =>
            /\ m.totalHosts = Len(Seeds) /\ m.failedHosts = Cardinality(failing)
            /\ m.isPartial <=> failing # {}
            /\ m.lastSyncAt = IF m.isPartial THEN m.lastPartialSyncAt ELSE m.lastFullSyncAt
            /\ m.lastFullSyncAt <= m.lastSyncAt /\ m.lastPartialSyncAt <= m.lastSyncAt

\* A snapshot never takes back what an earlier one of the process said of the times of
\* its syncs.
StampsAdvance ==
    [][phase' # "down" =>
        \A f \in {"lastSyncAt", "lastSuccessfulSyncAt", "lastFullSyncAt", "lastPartialSyncAt"} :
            snapshot'.metadata[f] >= snapshot.metadata[f]]_vars

\* An answer with hosts or with the flag is about a sync that is over: no 200 before the
\* first one, no known host missing, and no host newer than the metadata next to it.
AnswersAreLate ==
    \A c \in Clients : call[c].op = "answer" =>
        /\ call[c].status = 200
        /\ call[c].metadata.lastSyncAt # Never
        /\ \A r \in call[c].hosts : r.sync <= call[c].metadata.lastSyncAt

\* What a reader is shown never goes back in time, whichever of the two endpoints it
\* uses and also over a restart.
ReadersMoveForward == [][\A c \in Clients : newest'[c] >= newest[c]]_vars

\* docs/02-components/01-inventory/index.md, section 10: the API reads a consistent
\* snapshot during an update.
AnswersAreConsistent ==
    \A c \in Clients : call[c].op = "answer" /\ call[c].status = 200 =>
        \A r \in call[c].hosts : r.sync = call[c].metadata.lastSyncAt

\* What the snapshot makes of a host.
Shown(r) == IF r.sourceStatus["cadvisor"] = "ok" THEN r.workloads ELSE Unseen

Contract == INSTANCE InventoryContract WITH
    Blind <- Unseen, Nothing <- NoIndex, excused <- cancelled,
    shown <- [id \in DOMAIN hostsByID |-> Shown(hostsByID[id])]

\* The published inventory is what the hosts were during its sync.
IsInventory == Contract!Spec

\* A state of a host that lasts is served in the end, and stays so.
Converges ==
    \A h \in Hosts : \A s \in States :
        <>[](runs[h] = s /\ phase = "serving" /\ ~cancelled)
            => <>[](h \in DOMAIN hostsByID /\ Shown(hostsByID[h]) = s)

\* No sync lasts forever, and a signalled scheduler stops.
SyncEnds == pc \in {"next", "collect"} ~> pc \notin {"next", "collect"}
==============================================================================
