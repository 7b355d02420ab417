--------------------------- MODULE AnsibleRunsProofs ---------------------------
(***************************************************************************)
(* Theorems about AnsibleRuns, for any number of jobs, hosts, parallel runs  *)
(* and faults.                                                              *)
(***************************************************************************)
EXTENDS AnsibleRuns, TLAPS

USE RunsAssumption

------------------------------------------------------------------------------
(* Types *)

\* A step of a job keeps the types of the hosts.
LEMMA StepTypes ==
    ASSUME TypeOK, NEW j \in Jobs, Step(j)
    PROVE  TypeOK'
<1> USE DEF TypeOK, Tasks, Playing, Container, world, history
<1>1. CASE WriteInventory(j)
    BY <1>1 DEF WriteInventory
<1>2. CASE NoSSH(j)
    BY <1>2 DEF NoSSH
<1>3. CASE ReadInventory(j)
    BY <1>3 DEF ReadInventory
<1>4. CASE Fails(j)
    BY <1>4 DEF Fails, CutShort, Ends
<1>5. CASE InstallDocker(j)
    BY <1>5 DEF InstallDocker
<1>6. CASE StartDocker(j)
    BY <1>6 DEF StartDocker
<1>7. CASE CheckExists(j)
    BY <1>7 DEF CheckExists, Exists
<1>8. CASE CheckRunning(j)
    BY <1>8 DEF CheckRunning, Up
<1>9. CASE SkipCreate(j)
    BY <1>9 DEF SkipCreate
<1>10. CASE Create(j)
    BY <1>10 DEF Create
<1>11. CASE CreateCutShort(j)
    BY <1>11 DEF CreateCutShort, CutShort, Ends
<1>12. CASE CreateRefused(j)
    BY <1>12 DEF CreateRefused, Ends
<1>13. CASE SkipStart(j)
    BY <1>13 DEF SkipStart, Ends
<1>14. CASE Start(j)
    BY <1>14 DEF Start, Ends
<1>15. CASE StartRefused(j)
    BY <1>15 DEF StartRefused, Ends
<1> QED
    BY <1>1, <1>2, <1>3, <1>4, <1>5, <1>6, <1>7, <1>8, <1>9, <1>10, <1>11, <1>12, <1>13,
       <1>14, <1>15 DEF Step

LEMMA FaultTypes ==
    ASSUME TypeOK,
           \/ \E k \in Container : StopOrRemove(k)
           \/ \E h \in Hosts : DockerStops(h)
    PROVE  TypeOK'
BY DEF TypeOK, Tasks, Playing, Container, StopOrRemove, DockerStops, Disturb

LEMMA TypeInit == Init => TypeOK
BY DEF Init, TypeOK, Tasks, Playing, Container

LEMMA TypeStep == TypeOK /\ [Next]_vars => TypeOK'
<1> SUFFICES ASSUME TypeOK, [Next]_vars PROVE TypeOK'
    OBVIOUS
<1>1. CASE UNCHANGED vars
    BY <1>1 DEF vars, world, history, TypeOK, Playing
<1>2. CASE Next
    BY <1>2, StepTypes, FaultTypes DEF Next
<1> QED
    BY <1>1, <1>2

\* Every variable keeps its type, and a job plays on a host from its first task on.
THEOREM TypeCorrect == Spec => []TypeOK
<1> QED
    BY TypeInit, TypeStep, PTL DEF Spec

------------------------------------------------------------------------------
(* What a play knows of the place it plays on *)

Fresh(j)      == j \notin disturbed
Unhindered(j) == j \notin disturbed \cup hindered

\* A job that ended as successful, that saw its container run, or that created it.
Claims(j) ==
    \/ outcome[j] = "successful"
    \/ runs[j]
    \/ at[j] = "start" /\ ~exists[j]

\* The order of the tasks: a job that knows something plays on a host.
InOrder(j) ==
    /\ at[j] = "queued" => playsOn[j] = NoHost
    /\ outcome[j] = "successful" => at[j] = "ended" /\ playsOn[j] \in Hosts
    /\ runs[j] => at[j] \in {"create", "start", "ended"} /\ playsOn[j] \in Hosts

\* What a job has seen or done is still so, unless its place was disturbed.
StillTrue(j) ==
    Fresh(j) =>
        /\ Claims(j) => Up(Place(j))
        /\ at[j] \in {"exists", "running", "create", "start"} => docker[playsOn[j]] = "up"
        /\ exists[j] /\ at[j] \in {"running", "create", "start"}
               => container[Place(j)] # "absent"

\* Beside plays that are not cut short a container that was absent is only ever created
\* running; at its end an unhindered job leaves its container up.
Heals(j) ==
    Unhindered(j) =>
        /\ ~exists[j] /\ at[j] \in {"running", "create"}
               => container[Place(j)] \in {"absent", "running"}
        /\ at[j] = "ended" /\ playsOn[j] # NoHost => Up(Place(j))

IInv == TypeOK /\ \A j \in Jobs : InOrder(j) /\ StillTrue(j) /\ Heals(j)


\* A step of a job takes nothing from a container that any job may count on: docker that
\* is up and a container that runs stay so, and a container that is there does not go.
\* Only a play of the container that is cut short leaves one that was absent stopped.
LEMMA StepKeeps ==
    ASSUME TypeOK, NEW i \in Jobs, Step(i), NEW h \in Hosts, NEW c \in Components
    PROVE  /\ docker[h] = "up" => docker'[h] = "up"
           /\ container[<<h, c>>] = "running" => container'[<<h, c>>] = "running"
           /\ container[<<h, c>>] # "absent" => container'[<<h, c>>] # "absent"
           /\ container[<<h, c>>] \in {"absent", "running"} =>
                  \/ container'[<<h, c>>] \in {"absent", "running"}
                  \/ CutShort(i) /\ Place(i) = <<h, c>>
<1> USE DEF TypeOK, Tasks, Playing, Container, world, Place
<1>1. CASE UNCHANGED world
    BY <1>1
<1>2. CASE InstallDocker(i) \/ StartDocker(i)
    BY <1>2 DEF InstallDocker, StartDocker
<1>3. CASE Create(i)
    BY <1>3 DEF Create
<1>4. CASE CreateCutShort(i)
    BY <1>4 DEF CreateCutShort
<1>5. CASE Start(i)
    BY <1>5 DEF Start
<1>6. CASE WriteInventory(i) \/ NoSSH(i) \/ ReadInventory(i) \/ Fails(i) \/ CheckExists(i)
           \/ CheckRunning(i) \/ SkipCreate(i) \/ CreateRefused(i) \/ SkipStart(i)
           \/ StartRefused(i)
    BY <1>1, <1>6 DEF WriteInventory, NoSSH, ReadInventory, Fails, CheckExists, CheckRunning,
       SkipCreate, CreateRefused, SkipStart, StartRefused
<1> QED
    BY <1>2, <1>3, <1>4, <1>5, <1>6 DEF Step

\* A step of a job leaves what is known of the other jobs.
LEMMA StepLeaves ==
    ASSUME TypeOK, NEW i \in Jobs, Step(i), NEW j \in Jobs, j # i
    PROVE  /\ at'[j] = at[j] /\ playsOn'[j] = playsOn[j] /\ exists'[j] = exists[j]
           /\ runs'[j] = runs[j] /\ outcome'[j] = outcome[j]
<1> USE DEF TypeOK
<1>1. CASE WriteInventory(i) \/ NoSSH(i) \/ ReadInventory(i) \/ Fails(i) \/ InstallDocker(i)
    BY <1>1 DEF WriteInventory, NoSSH, ReadInventory, Fails, InstallDocker, CutShort, Ends
<1>2. CASE StartDocker(i) \/ CheckExists(i) \/ CheckRunning(i) \/ SkipCreate(i) \/ Create(i)
    BY <1>2 DEF StartDocker, CheckExists, CheckRunning, SkipCreate, Create
<1>3. CASE CreateCutShort(i) \/ CreateRefused(i) \/ SkipStart(i) \/ Start(i) \/ StartRefused(i)
    BY <1>3 DEF CreateCutShort, CreateRefused, SkipStart, Start, StartRefused, CutShort, Ends
<1> QED
    BY <1>1, <1>2, <1>3 DEF Step

\* No step of a job forgets what befell the plays.
LEMMA StepRemembers ==
    ASSUME NEW i \in Jobs, Step(i)
    PROVE  disturbed' = disturbed /\ hindered \subseteq hindered'
<1>1. CASE WriteInventory(i) \/ NoSSH(i) \/ ReadInventory(i) \/ Fails(i) \/ InstallDocker(i)
    BY <1>1 DEF WriteInventory, NoSSH, ReadInventory, Fails, InstallDocker, CutShort, history
<1>2. CASE StartDocker(i) \/ CheckExists(i) \/ CheckRunning(i) \/ SkipCreate(i) \/ Create(i)
    BY <1>2 DEF StartDocker, CheckExists, CheckRunning, SkipCreate, Create, history
<1>3. CASE CreateCutShort(i) \/ CreateRefused(i) \/ SkipStart(i) \/ Start(i) \/ StartRefused(i)
    BY <1>3 DEF CreateCutShort, CreateRefused, SkipStart, Start, StartRefused, CutShort,
       history
<1> QED
    BY <1>1, <1>2, <1>3 DEF Step

\* A step of one job, seen by another.
LEMMA OthersKnow ==
    ASSUME TypeOK, TypeOK', NEW i \in Jobs, Step(i), NEW j \in Jobs, j # i,
           InOrder(j), StillTrue(j), Heals(j)
    PROVE  InOrder(j)' /\ StillTrue(j)' /\ Heals(j)'
<1>1. /\ at'[j] = at[j] /\ playsOn'[j] = playsOn[j] /\ exists'[j] = exists[j]
      /\ runs'[j] = runs[j] /\ outcome'[j] = outcome[j]
    BY StepLeaves
<1>2. disturbed' = disturbed /\ hindered \subseteq hindered'
    BY StepRemembers
<1>3. InOrder(j)'
    BY <1>1 DEF InOrder
<1>4. CASE playsOn[j] \notin Hosts
    <2>1. at[j] \notin Tasks /\ playsOn[j] = NoHost
        BY <1>4 DEF TypeOK, Playing
    <2> QED
        BY <1>1, <1>3, <1>4, <2>1 DEF StillTrue, Heals, Claims, InOrder, Tasks
<1>5. CASE playsOn[j] \in Hosts
    <2> DEFINE h == playsOn[j]
               c == Component[j]
    <2>1. h \in Hosts /\ c \in Components
        BY <1>5
    <2>2. /\ docker[h] = "up" => docker'[h] = "up"
          /\ container[<<h, c>>] = "running" => container'[<<h, c>>] = "running"
          /\ container[<<h, c>>] # "absent" => container'[<<h, c>>] # "absent"
          /\ container[<<h, c>>] \in {"absent", "running"} =>
                 \/ container'[<<h, c>>] \in {"absent", "running"}
                 \/ CutShort(i) /\ Place(i) = <<h, c>>
        BY <2>1, StepKeeps
    <2>3. Place(j) = <<h, c>> /\ Place(j)' = <<h, c>>
        BY <1>1 DEF Place
    <2>4. StillTrue(j)'
        BY <1>1, <1>2, <2>2, <2>3 DEF StillTrue, Fresh, Claims, Up
    <2>5. CutShort(i) /\ Place(i) = <<h, c>> /\ at[j] \in Tasks => j \in hindered'
        BY <2>3 DEF CutShort, Playing
    <2>6. Heals(j)'
        BY <1>1, <1>2, <2>2, <2>3, <2>5 DEF Heals, Unhindered, Up, Tasks
    <2> QED
        BY <1>3, <2>4, <2>6
<1> QED
    BY <1>4, <1>5

\* A step of a job, seen by the job itself.
LEMMA OwnStep ==
    ASSUME TypeOK, TypeOK', NEW j \in Jobs, Step(j), InOrder(j), StillTrue(j), Heals(j)
    PROVE  InOrder(j)' /\ StillTrue(j)' /\ Heals(j)'
<1> USE DEF TypeOK, Container, InOrder
<1> DEFINE h == playsOn[j]
           c == Component[j]
<1>1. Place(j) = <<h, c>> /\ Place(j)' = <<h', c>>
    BY DEF Place
<1>2. disturbed' = disturbed /\ hindered \subseteq hindered'
    BY StepRemembers
<1>3. h \in Hosts =>
          /\ docker[h] = "up" => docker'[h] = "up"
          /\ container[<<h, c>>] = "running" => container'[<<h, c>>] = "running"
          /\ container[<<h, c>>] # "absent" => container'[<<h, c>>] # "absent"
    BY StepKeeps
<1>4. at[j] \in Tasks => h \in Hosts
    BY DEF Playing
<1> USE <1>1, <1>2 DEF StillTrue, Heals, Fresh, Unhindered, Claims, Up, Tasks
<1>5. CASE WriteInventory(j) \/ NoSSH(j)
    BY <1>5 DEF WriteInventory, NoSSH, Ends, world, history
<1>6. CASE ReadInventory(j)
    BY <1>6 DEF ReadInventory, world, history
<1>7. CASE Fails(j)
    <2>1. j \in hindered'
        BY <1>7 DEF Fails, CutShort, Playing
    <2> QED
        BY <1>3, <1>4, <1>7, <2>1 DEF Fails, CutShort, Ends, world
<1>8. CASE InstallDocker(j) \/ StartDocker(j)
    BY <1>3, <1>4, <1>8 DEF InstallDocker, StartDocker, history
<1>9. CASE CheckExists(j)
    BY <1>3, <1>4, <1>9 DEF CheckExists, Exists, world, history
<1>10. CASE CheckRunning(j)
    BY <1>3, <1>4, <1>10 DEF CheckRunning, world, history
<1>11. CASE SkipCreate(j)
    BY <1>3, <1>4, <1>11 DEF SkipCreate, world, history
<1>12. CASE Create(j)
    BY <1>3, <1>4, <1>12 DEF Create, history
<1>13. CASE CreateCutShort(j)
    <2>1. j \in hindered'
        BY <1>13 DEF CreateCutShort, CutShort, Playing
    <2> QED
        BY <1>3, <1>4, <1>13, <2>1 DEF CreateCutShort, CutShort, Ends
<1>14. CASE CreateRefused(j)
    BY <1>3, <1>4, <1>14 DEF CreateRefused, Ends, world, history
<1>15. CASE SkipStart(j)
    BY <1>3, <1>4, <1>15 DEF SkipStart, Ends, world, history
<1>16. CASE Start(j)
    BY <1>3, <1>4, <1>16 DEF Start, Exists, Ends, history
<1>17. CASE StartRefused(j)
    BY <1>3, <1>4, <1>17 DEF StartRefused, Exists, Ends, world, history
<1> QED
    BY <1>5, <1>6, <1>7, <1>8, <1>9, <1>10, <1>11, <1>12, <1>13, <1>14, <1>15, <1>16, <1>17
       DEF Step

\* What befalls a host takes knowledge only from the plays it is noted for.
LEMMA FaultKnown ==
    ASSUME TypeOK, TypeOK', NEW j \in Jobs, InOrder(j), StillTrue(j), Heals(j),
           \/ \E k \in Container : StopOrRemove(k)
           \/ \E h \in Hosts : DockerStops(h)
    PROVE  InOrder(j)' /\ StillTrue(j)' /\ Heals(j)'
<1> USE DEF TypeOK, Container, Place, InOrder
<1>1. CASE \E k \in Container : StopOrRemove(k)
    <2>1. PICK k \in Container : StopOrRemove(k)
        BY <1>1
    <2>2. Place(j) = k => j \in disturbed'
        BY <2>1 DEF StopOrRemove, Disturb
    <2>3. Place(j) # k /\ playsOn[j] \in Hosts => container'[Place(j)] = container[Place(j)]
        BY <2>1 DEF StopOrRemove
    <2>4. /\ UNCHANGED <<docker, at, playsOn, exists, runs, outcome, hindered>>
          /\ disturbed \subseteq disturbed'
        BY <2>1 DEF StopOrRemove, Disturb
    <2> QED
        BY <2>2, <2>3, <2>4 DEF StillTrue, Heals, Fresh, Unhindered, Claims, Up, Playing, Tasks
<1>2. CASE \E h \in Hosts : DockerStops(h)
    <2>1. PICK h \in Hosts : DockerStops(h)
        BY <1>2
    <2>2. playsOn[j] = h => j \in disturbed'
        BY <2>1 DEF DockerStops, Disturb
    <2>3. playsOn[j] # h /\ playsOn[j] \in Hosts => docker'[playsOn[j]] = docker[playsOn[j]]
        BY <2>1 DEF DockerStops
    <2>4. /\ UNCHANGED <<container, at, playsOn, exists, runs, outcome, hindered>>
          /\ disturbed \subseteq disturbed'
        BY <2>1 DEF DockerStops, Disturb
    <2> QED
        BY <2>2, <2>3, <2>4 DEF StillTrue, Heals, Fresh, Unhindered, Claims, Up, Playing, Tasks
<1> QED
    BY <1>1, <1>2

LEMMA KnownInit == Init => IInv
<1> SUFFICES ASSUME Init PROVE IInv
    OBVIOUS
<1>1. TypeOK
    BY TypeInit
<1>2. ASSUME NEW j \in Jobs PROVE InOrder(j) /\ StillTrue(j) /\ Heals(j)
    BY DEF Init, InOrder, StillTrue, Heals, Claims
<1> QED
    BY <1>1, <1>2 DEF IInv

LEMMA KnownStep == IInv /\ [Next]_vars => IInv'
<1> SUFFICES ASSUME IInv, [Next]_vars PROVE IInv'
    OBVIOUS
<1>1. TypeOK /\ TypeOK'
    BY TypeStep DEF IInv
<1>2. ASSUME NEW j \in Jobs PROVE InOrder(j)' /\ StillTrue(j)' /\ Heals(j)'
    <2>1. InOrder(j) /\ StillTrue(j) /\ Heals(j)
        BY DEF IInv
    <2>2. CASE UNCHANGED vars
        BY <2>1, <2>2 DEF vars, world, history, InOrder, StillTrue, Heals, Fresh, Unhindered,
           Claims, Up, Place
    <2>3. CASE Next
        BY <1>1, <2>1, <2>3, OwnStep, OthersKnow, FaultKnown DEF Next
    <2> QED
        BY <2>2, <2>3
<1> QED
    BY <1>1, <1>2 DEF IInv

LEMMA KnownAlways == Spec => []IInv
<1> QED
    BY KnownInit, KnownStep, PTL DEF Spec

\* A run that is logged as successful leaves its container up, until someone disturbs it.
THEOREM SuccessIsKept == Spec => []SuccessMeansUp
<1>1. IInv => SuccessMeansUp
    BY DEF IInv, SuccessMeansUp, StillTrue, Fresh, Claims
<1> QED
    BY <1>1, KnownAlways, PTL

\* An undisturbed run that is not cut short leaves its container up, whatever it found.
THEOREM RunHeals == Spec => []ReplayHeals
<1>1. IInv => ReplayHeals
    BY DEF IInv, ReplayHeals, Heals, Unhindered
<1> QED
    BY <1>1, KnownAlways, PTL

==============================================================================
