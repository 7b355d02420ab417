------------------------------ MODULE AnsibleRuns ------------------------------
(***************************************************************************)
(* What a reconcile job does on a host: the ansible run that ReconcilerSvc   *)
(* starts for it, task by task, with the host's docker, beside other runs,   *)
(* faults of the host and a timeout at any moment.                          *)
(*                                                                         *)
(* The runs share ansible-runner's private_data_dir.  Its file of hosts is   *)
(* written whole by a run and read later by the run's ansible-playbook.     *)
(***************************************************************************)
EXTENDS Naturals, FiniteSets

CONSTANTS
    Jobs,           \* accepted jobs
    Hosts, Components,
    Target,         \* [Jobs -> Hosts]: the fqdn of a job's plan
    Component,      \* [Jobs -> Components]: its operator, playbook, role and container
    MaxParallel,    \* max_parallel_reconciliations
    MaxFaults,      \* bound: what happens to the hosts
    NoHost

ASSUME RunsAssumption ==
    /\ Target \in [Jobs -> Hosts] /\ Component \in [Jobs -> Components]
    /\ MaxParallel \in Nat /\ MaxFaults \in Nat
    /\ NoHost \notin Hosts

VARIABLES
    docker,         \* of a host: "absent", "stopped" or "up"
    container,      \* of a host and component: "absent", "stopped" (or created) or "running"
    file,           \* the host in private_data_dir/inventory/hosts.json
    at,             \* a job's next task
    playsOn,        \* the host its ansible-playbook was told
    exists, runs,   \* the registered results of the two checks
    outcome,        \* what the executor logs
    faults,
    \* history: jobs whose container, or its docker, was stopped or removed since the
    \* play began; jobs in whose play some play of the same container was cut short
    disturbed, hindered

world   == <<docker, container>>
history == <<faults, disturbed, hindered>>
vars    == <<world, file, at, playsOn, exists, runs, outcome, history>>

Container == Hosts \X Components
Tasks == {"package", "service", "exists", "running", "create", "start"}

Playing == {j \in Jobs : at[j] \in Tasks}
Active  == {j \in Jobs : at[j] \in {"written"} \cup Tasks}
Place(j) == <<playsOn[j], Component[j]>>

\* A container of the role is restarted with its docker ("unless-stopped").
Up(k) == docker[k[1]] = "up" /\ container[k] = "running"

Init ==
    /\ docker \in [Hosts -> {"absent", "stopped", "up"}]
    /\ container \in [Container -> {"absent", "stopped", "running"}]
    /\ \A k \in Container : docker[k[1]] = "absent" => container[k] = "absent"
    /\ file = NoHost
    /\ at = [j \in Jobs |-> "queued"]
    /\ playsOn = [j \in Jobs |-> NoHost]
    /\ exists = [j \in Jobs |-> FALSE] /\ runs = [j \in Jobs |-> FALSE]
    /\ outcome = [j \in Jobs |-> "none"]
    /\ faults = 0 /\ disturbed = {} /\ hindered = {}

------------------------------------------------------------------------------
(* The adapter *)

\* A worker takes the job; ansible-runner writes the inventory it is given.
WriteInventory(j) ==
    /\ at[j] = "queued" /\ Cardinality(Active) < MaxParallel
    /\ file' = Target[j]
    /\ at' = [at EXCEPT ![j] = "written"]
    /\ UNCHANGED <<world, playsOn, exists, runs, outcome, history>>

\* The SSH variables are missing: an exception, which the executor logs.
NoSSH(j) ==
    /\ at[j] = "queued" /\ Cardinality(Active) < MaxParallel
    /\ at' = [at EXCEPT ![j] = "ended"]
    /\ outcome' = [outcome EXCEPT ![j] = "failed"]
    /\ UNCHANGED <<world, file, playsOn, exists, runs, history>>

\* ansible-playbook starts, for "all" hosts of the file.
ReadInventory(j) ==
    /\ at[j] = "written"
    /\ playsOn' = [playsOn EXCEPT ![j] = file]
    /\ at' = [at EXCEPT ![j] = "package"]
    /\ UNCHANGED <<world, file, exists, runs, outcome, history>>

\* The result of the last task, and the adapter's reading of it.
Ends(j, result) ==
    /\ at' = [at EXCEPT ![j] = "ended"]
    /\ outcome' = [outcome EXCEPT ![j] = result]

\* A task fails because of something outside the model (the host cannot be reached, is
\* of another OS, has no package or image, a port is taken), or run_timeout_seconds ends
\* the play.  Plays of the same container that are under way are not alone to blame.
CutShort(j) ==
    /\ at[j] \in Tasks
    /\ Ends(j, "failed")
    /\ hindered' = hindered \cup {i \in Playing : Place(i) = Place(j)}

Fails(j) ==
    /\ CutShort(j)
    /\ UNCHANGED <<world, file, playsOn, exists, runs, faults, disturbed>>

------------------------------------------------------------------------------
(* The tasks of a role *)

\* Some packages start the service they install.
InstallDocker(j) ==
    /\ at[j] = "package"
    /\ LET h == playsOn[j]
       IN  IF docker[h] = "absent"
           THEN \E s \in {"stopped", "up"} : docker' = [docker EXCEPT ![h] = s]
           ELSE UNCHANGED docker
    /\ at' = [at EXCEPT ![j] = "service"]
    /\ UNCHANGED <<container, file, playsOn, exists, runs, outcome, history>>

StartDocker(j) ==
    /\ at[j] = "service" /\ docker[playsOn[j]] # "absent"
    /\ docker' = [docker EXCEPT ![playsOn[j]] = "up"]
    /\ at' = [at EXCEPT ![j] = "exists"]
    /\ UNCHANGED <<container, file, playsOn, exists, runs, outcome, history>>

Exists(j) == docker[playsOn[j]] = "up" /\ container[Place(j)] # "absent"

\* Mutation only: `docker ps` without -a.
CheckExistsRunning(j) ==
    /\ at[j] = "exists"
    /\ exists' = [exists EXCEPT ![j] = Up(Place(j))]
    /\ at' = [at EXCEPT ![j] = "running"]
    /\ UNCHANGED <<world, file, playsOn, runs, outcome, history>>

\* `docker ps -a`, which prints nothing when docker does not answer and never fails.
CheckExists(j) ==
    /\ at[j] = "exists"
    /\ exists' = [exists EXCEPT ![j] = Exists(j)]
    /\ at' = [at EXCEPT ![j] = "running"]
    /\ UNCHANGED <<world, file, playsOn, runs, outcome, history>>

\* `docker ps`
CheckRunning(j) ==
    /\ at[j] = "running"
    /\ runs' = [runs EXCEPT ![j] = Up(Place(j))]
    /\ at' = [at EXCEPT ![j] = "create"]
    /\ UNCHANGED <<world, file, playsOn, exists, outcome, history>>

SkipCreate(j) ==
    /\ at[j] = "create" /\ exists[j]
    /\ at' = [at EXCEPT ![j] = "start"]
    /\ UNCHANGED <<world, file, playsOn, exists, runs, outcome, history>>

\* `docker run`
Create(j) ==
    /\ at[j] = "create" /\ ~exists[j]
    /\ docker[playsOn[j]] = "up" /\ container[Place(j)] = "absent"
    /\ container' = [container EXCEPT ![Place(j)] = "running"]
    /\ at' = [at EXCEPT ![j] = "start"]
    /\ UNCHANGED <<docker, file, playsOn, exists, runs, outcome, history>>

\* `docker run` creates the container and fails to start it, or is not heard of again.
CreateCutShort(j) ==
    /\ CutShort(j)
    /\ at[j] = "create" /\ ~exists[j]
    /\ docker[playsOn[j]] = "up" /\ container[Place(j)] = "absent"
    /\ \E s \in {"stopped", "running"} : container' = [container EXCEPT ![Place(j)] = s]
    /\ UNCHANGED <<docker, file, playsOn, exists, runs, faults, disturbed>>

\* Mutation only: the failure of `docker run` is ignored.
CreateIgnored(j) ==
    /\ at[j] = "create" /\ ~exists[j]
    /\ docker[playsOn[j]] # "up" \/ container[Place(j)] # "absent"
    /\ at' = [at EXCEPT ![j] = "start"]
    /\ UNCHANGED <<world, file, playsOn, exists, runs, outcome, history>>

\* Docker does not answer, or the name is in use by now.
CreateRefused(j) ==
    /\ at[j] = "create" /\ ~exists[j]
    /\ docker[playsOn[j]] # "up" \/ container[Place(j)] # "absent"
    /\ Ends(j, "failed")
    /\ UNCHANGED <<world, file, playsOn, exists, runs, history>>

SkipStart(j) ==
    /\ at[j] = "start" /\ (~exists[j] \/ runs[j])
    /\ Ends(j, "successful")
    /\ UNCHANGED <<world, file, playsOn, exists, runs, history>>

\* `docker start`, which a container that runs does not mind.
Start(j) ==
    /\ at[j] = "start" /\ exists[j] /\ ~runs[j]
    /\ Exists(j)
    /\ container' = [container EXCEPT ![Place(j)] = "running"]
    /\ Ends(j, "successful")
    /\ UNCHANGED <<docker, file, playsOn, exists, runs, history>>

StartRefused(j) ==
    /\ at[j] = "start" /\ exists[j] /\ ~runs[j]
    /\ ~Exists(j)
    /\ Ends(j, "failed")
    /\ UNCHANGED <<world, file, playsOn, exists, runs, history>>

------------------------------------------------------------------------------
(* The hosts *)

Disturb(ks) ==
    /\ faults < MaxFaults /\ faults' = faults + 1
    /\ disturbed' = disturbed \cup {j \in Jobs : Place(j) \in ks}
    /\ UNCHANGED <<file, at, playsOn, exists, runs, outcome, hindered>>

StopOrRemove(k) ==
    /\ container[k] # "absent"
    /\ \E s \in {"stopped", "absent"} : container' = [container EXCEPT ![k] = s]
    /\ UNCHANGED docker
    /\ Disturb({k})

DockerStops(h) ==
    /\ docker[h] = "up"
    /\ docker' = [docker EXCEPT ![h] = "stopped"]
    /\ UNCHANGED container
    /\ Disturb({h} \X Components)

------------------------------------------------------------------------------
Step(j) ==
    \/ WriteInventory(j) \/ NoSSH(j) \/ ReadInventory(j) \/ Fails(j)
    \/ InstallDocker(j) \/ StartDocker(j) \/ CheckExists(j) \/ CheckRunning(j)
    \/ SkipCreate(j) \/ Create(j) \/ CreateCutShort(j) \/ CreateRefused(j)
    \/ SkipStart(j) \/ Start(j) \/ StartRefused(j)

Next ==
    \/ \E j \in Jobs : Step(j)
    \/ \E k \in Container : StopOrRemove(k)
    \/ \E h \in Hosts : DockerStops(h)

Spec == Init /\ [][Next]_vars

------------------------------------------------------------------------------
(* Properties *)

\* Every variable has its type; a job plays on a host from its first task on.
TypeOK ==
    /\ docker \in [Hosts -> {"absent", "stopped", "up"}]
    /\ container \in [Container -> {"absent", "stopped", "running"}]
    /\ file \in Hosts \cup {NoHost}
    /\ at \in [Jobs -> {"queued", "written", "ended"} \cup Tasks]
    /\ (\E j \in Jobs : at[j] = "written") => file \in Hosts
    /\ playsOn \in [Jobs -> Hosts \cup {NoHost}]
    /\ \A j \in Playing : playsOn[j] \in Hosts
    /\ exists \in [Jobs -> BOOLEAN] /\ runs \in [Jobs -> BOOLEAN]
    /\ outcome \in [Jobs -> {"none", "successful", "failed"}]
    /\ faults \in Nat /\ disturbed \subseteq Jobs /\ hindered \subseteq Jobs

\* A run that is logged as successful is no empty promise: where it played, its container
\* is up from then on until someone stops or removes it, whatever other runs for the same
\* container did between its checks and its commands.
SuccessMeansUp ==
    \A j \in Jobs : outcome[j] = "successful" /\ j \notin disturbed => Up(Place(j))

\* A run repairs whatever earlier ones left, half-created containers included: unless it
\* is cut short or disturbed itself the container is up when it ends.  It may be logged
\* as failed, when another run created the container between its check and its command.
ReplayHeals ==
    \A j \in Jobs :
        at[j] = "ended" /\ playsOn[j] # NoHost /\ j \notin disturbed \cup hindered
            => Up(Place(j))

\* The inventory of a run is the fqdn of its job: a run that is logged as successful
\* played on the host of its job.
SuccessOnTarget ==
    \A j \in Jobs : outcome[j] = "successful" => playsOn[j] = Target[j]
==============================================================================
