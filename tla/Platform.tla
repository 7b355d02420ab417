-------------------------------- MODULE Platform --------------------------------
(***************************************************************************)
(* The control loop: InventorySvc looks at the hosts, DriftDetectorSvc       *)
(* compares what it published with the desired state and commands,           *)
(* ReconcilerSvc queues and runs the commands, which change the hosts.       *)
(*                                                                         *)
(* Each service is reduced to what its own module shows of it: a sync looks  *)
(* at the hosts one after the other and is published at once                 *)
(* (InventoryContract), a command waits for the cooldown of its key and is   *)
(* taken at most MaxAttempts times (DriftDetector), jobs are run in their    *)
(* order (JobPool), a successful job leaves its container up (AnsibleRuns).  *)
(* The matching and the detectors are those of Detectors.                   *)
(***************************************************************************)
EXTENDS Detectors, Integers, FiniteSets

CONSTANTS
    Desired,        \* Seq(DesiredHosts): /desired-state, which does not change
    Seeds,          \* Seq([id, fqdn]): the hosts InventorySvc was started with
    Enabled,        \* Seq(Components): detection.enabledComponents
    Cooldown,       \* in units of time
    MaxAttempts,    \* bound on how often one command is taken
    Capacity,       \* queue_capacity
    MaxFaults,      \* bound: containers that stop, answers that are missed
    MaxCrashes,     \* bound: processes that are killed
    MaxSetBack      \* bound: units by which the detector's clock is set back

ASSUME PlatformAssumption ==
    /\ Desired \in Seq(DesiredHosts)
    /\ \A i \in DOMAIN Desired : Fold[Desired[i].fqdn] # Blank
    /\ Seeds \in Seq([id : Spelling, fqdn : Spelling])
    /\ Enabled \in Seq(Registered)
    /\ Desired # << >> /\ Enabled # << >>
    /\ Fold["error"] # "ok"
    /\ {Cooldown, MaxAttempts, Capacity, MaxFaults, MaxCrashes, MaxSetBack} \subseteq Nat

VARIABLES
    up,         \* the containers that run: a set of keys
    draft,      \* the hosts collected by the sync under way
    published,  \* the hosts of the stored snapshot
    turn,       \* the comparison the detector's cycle is at, 0 between cycles
    actual,     \* the hosts the cycle fetched
    age,        \* time since the mark of a key, Old when it cannot matter any more
    queue, job, \* accepted commands, and the one a worker has
    faults, crashes, setBack,
    answered    \* history: the FQDNs of hosts whose cAdvisor has answered

inventory  == <<draft, published>>
detector   == <<turn, actual, age>>
reconciler == <<queue, job>>
bounds     == <<faults, crashes, setBack>>
vars       == <<up, inventory, detector, reconciler, bounds, answered>>

NoJob == <<>>
Old == Cooldown + MaxSetBack
Turns == 1..(Len(Desired) * Len(Enabled))

\* The two loops of a cycle, hosts outside and components inside.
DesiredHost(t) == Desired[((t - 1) \div Len(Enabled)) + 1]
TurnComponent(t) == Enabled[((t - 1) % Len(Enabled)) + 1]

WantedKeys ==
    {BuildKey(TurnComponent(t), DesiredHost(t).fqdn) :
        t \in {u \in Turns : Wanted(DesiredHost(u), TurnComponent(u))}}

Source(status) == [x \in {Cadvisor} |-> [enabled |-> TRUE, status |-> status]]

Init ==
    /\ up \in SUBSET WantedKeys
    /\ draft = << >> /\ published = << >>
    /\ turn = 0 /\ actual = << >> /\ age = [k \in WantedKeys |-> Old]
    /\ queue = << >> /\ job = NoJob
    /\ faults = 0 /\ crashes = 0 /\ setBack = 0 /\ answered = {}

------------------------------------------------------------------------------
(* The hosts and InventorySvc *)

Stops(k) ==
    /\ k \in up /\ faults < MaxFaults
    /\ up' = up \ {k} /\ faults' = faults + 1
    /\ UNCHANGED <<inventory, detector, reconciler, crashes, setBack, answered>>

Seed == Seeds[Len(draft) + 1]

Collected(status, workloads) ==
    draft' = Append(draft, [id |-> Seed.id, fqdn |-> Seed.fqdn,
                            sources |-> Source(status), workloads |-> workloads])

\* A host's cAdvisor shows the containers that run, its own among them.
Answers ==
    /\ Len(draft) < Len(Seeds)
    /\ BuildKey(Cadvisor, Seed.fqdn) \in up
    /\ Collected("ok", SelectSeq(Enabled, LAMBDA c : BuildKey(c, Seed.fqdn) \in up))
    /\ answered' = answered \cup {Fold[Seed.fqdn]}
    /\ UNCHANGED <<up, published, detector, reconciler, bounds>>

\* No answer in time, because cAdvisor does not run or although it does.
DoesNotAnswer ==
    /\ Len(draft) < Len(Seeds)
    /\ IF BuildKey(Cadvisor, Seed.fqdn) \in up
       THEN faults < MaxFaults /\ faults' = faults + 1
       ELSE UNCHANGED faults
    /\ Collected("error", << >>)
    /\ UNCHANGED <<up, published, detector, reconciler, crashes, setBack, answered>>

\* Mutation only: the first snapshot stays.
PublishFirst ==
    /\ Len(draft) = Len(Seeds)
    /\ published' = (IF published = << >> THEN draft ELSE published) /\ draft' = << >>
    /\ UNCHANGED <<up, detector, reconciler, bounds, answered>>

Publish ==
    /\ Len(draft) = Len(Seeds)
    /\ published' = draft /\ draft' = << >>
    /\ UNCHANGED <<up, detector, reconciler, bounds, answered>>

------------------------------------------------------------------------------
(* DriftDetectorSvc *)

\* A cycle fetches both states.  The server of InventorySvc is up after its first sync.
BeginCycle ==
    /\ turn = 0 /\ published # << >>
    /\ turn' = 1 /\ actual' = published
    /\ UNCHANGED <<up, inventory, age, reconciler, bounds, answered>>

\* The key of the present comparison, if it finds a drift.
Drifting ==
    LET d == DesiredHost(turn)
        c == TurnComponent(turn)
        matches == {actual[i] : i \in {LookupActualHost(d, actual)} \ {0}}
    IN  {BuildKey(c, TargetFQDN(d, a)) : a \in {m \in matches : Detect(c, d, m) = "drift"}}

CanSend(k) == age[k] >= Cooldown

\* The command to be sent, if it is not suppressed.
Due == IF turn = 0 THEN {} ELSE {k \in Drifting : CanSend(k)}

\* The next comparison, or the end of the cycle.
NextTurn ==
    IF turn < Cardinality(Turns)
    THEN turn' = turn + 1 /\ UNCHANGED actual
    ELSE turn' = 0 /\ actual' = << >>

Passes ==
    /\ turn # 0 /\ Due = {}
    /\ NextTurn
    /\ UNCHANGED <<up, inventory, age, reconciler, bounds, answered>>

Taken(k, copies) ==
    /\ Len(queue) + copies <= Capacity
    /\ queue' = queue \o [i \in 1..copies |-> k]
    /\ NextTurn
    /\ UNCHANGED <<up, inventory, job, bounds, answered>>

\* Every attempt failed, though some may have been taken.
NotAcknowledged(k, copies) == k \in Due /\ Taken(k, copies) /\ UNCHANGED age

\* The last attempt was answered 202, and the cooldown begins.
Acknowledged(k, copies) ==
    k \in Due /\ copies > 0 /\ Taken(k, copies) /\ age' = [age EXCEPT ![k] = 0]

TimePasses ==
    /\ \E k \in WantedKeys : age[k] < Old
    /\ age' = [k \in WantedKeys |-> IF age[k] < Old THEN age[k] + 1 ELSE Old]
    /\ UNCHANGED <<up, inventory, turn, actual, reconciler, bounds, answered>>

\* A mark of age Old stays older than the cooldown.
ClockSetBack ==
    /\ setBack < MaxSetBack /\ \E k \in WantedKeys : age[k] < Old
    /\ age' = [k \in WantedKeys |-> IF age[k] < Old THEN age[k] - 1 ELSE Old]
    /\ setBack' = setBack + 1
    /\ UNCHANGED <<up, inventory, turn, actual, reconciler, faults, crashes, answered>>

DetectorRestarts ==
    /\ crashes < MaxCrashes /\ crashes' = crashes + 1
    /\ turn' = 0 /\ actual' = << >> /\ age' = [k \in WantedKeys |-> Old]
    /\ UNCHANGED <<up, inventory, reconciler, faults, setBack, answered>>

------------------------------------------------------------------------------
(* ReconcilerSvc *)

BeginJob ==
    /\ job = NoJob /\ queue # << >>
    /\ job' = Head(queue) /\ queue' = Tail(queue)
    /\ UNCHANGED <<up, inventory, detector, bounds, answered>>

JobSucceeds(k) ==
    /\ job = k
    /\ up' = up \cup {k} /\ job' = NoJob
    /\ UNCHANGED <<inventory, detector, queue, bounds, answered>>

\* Logged, and nobody is told.
JobFails ==
    /\ job # NoJob
    /\ job' = NoJob
    /\ UNCHANGED <<up, inventory, detector, queue, bounds, answered>>

\* The queue is lost, and the job cut off.
ReconcilerKilled ==
    /\ crashes < MaxCrashes /\ crashes' = crashes + 1
    /\ queue' = << >> /\ job' = NoJob
    /\ UNCHANGED <<up, inventory, detector, faults, setBack, answered>>

------------------------------------------------------------------------------
Sync == Answers \/ DoesNotAnswer \/ Publish
Cycle ==
    \/ BeginCycle \/ Passes
    \/ \E k \in Due, n \in 0..MaxAttempts : NotAcknowledged(k, n) \/ Acknowledged(k, n)
Work == BeginJob \/ JobFails \/ \E k \in Key : JobSucceeds(k)

Next ==
    \/ Sync \/ Cycle \/ TimePasses \/ Work
    \/ \E k \in Key : Stops(k)
    \/ ClockSetBack \/ DetectorRestarts \/ ReconcilerKilled

Spec == Init /\ [][Next]_vars

\* Tickers tick, timeouts end what does not answer, and time passes.  Of the world: a
\* command that is sent over and over is acknowledged at last, and a job that is run over
\* and over succeeds at last.
FairSpec ==
    /\ Spec
    /\ WF_vars(Sync) /\ WF_vars(Cycle) /\ WF_vars(TimePasses) /\ WF_vars(Work)
    /\ \A k \in WantedKeys : SF_vars(Acknowledged(k, 1)) /\ SF_vars(JobSucceeds(k))

------------------------------------------------------------------------------
(* Properties *)

\* Nobody commands blindly: node_exporter is only sent to a host whose cAdvisor has been
\* read, whatever was lost, repeated or restarted on the way.
NoBlindCommand ==
    \A k \in {queue[i] : i \in DOMAIN queue} \cup ({job} \ {NoJob}) :
        k[1] = NodeExporter => k[2] \in answered

\* The platform does what it is for: every wanted container runs in the end and for good,
\* although commands are lost or repeated, jobs fail without anybody being told, the queue
\* and the cooldown are forgotten and the clock is set back.
HostsConverge == \A k \in WantedKeys : <>[](k \in up)

\* It leaves healthy hosts alone: once nothing fails any more the commands come to an end,
\* those of old snapshots and of earlier attempts included.
Quiesces == <>[](queue = << >> /\ job = NoJob)
==============================================================================
