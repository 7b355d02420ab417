---------------------------- MODULE DriftDetector ----------------------------
(***************************************************************************)
(* DriftDetectorSvc: the detection cycle, the three ways to start one, the   *)
(* cooldown store that limits how often a component of a host is sent for    *)
(* reconciliation, and the HTTP client that sends with retries.              *)
(*                                                                         *)
(* A caller of RunCycle is the start of the process ("startup"), the ticker  *)
(* goroutine ("scheduler") or an HTTP request (a member of Manual).  Each    *)
(* runs the code of RunCycle between two points where another goroutine, a   *)
(* peer service or a signal can act.                                         *)
(***************************************************************************)
EXTENDS Integers, FiniteSets, Detectors

CONSTANTS
    Manual,         \* requests POST /api/v1/detection/run
    Readers,        \* requests GET /readyz
    Enabled,        \* detection.enabledComponents, in order
    MaxAttempts,    \* clients.*.retry.maxAttempts
    Cooldown,       \* antiSpam.reconcileCooldown, in ticks of clock
    ActualStates,   \* the answers GET /api/v1/hosts of InventorySvc may give
    DesiredStates,  \* the answers GET /api/v1/desired-state of ParserSvc may give
    \* Bounds of the model, not of the code:
    MaxClock,       \* how far time runs
    MaxCycles,      \* how many cycles are begun
    MaxRestarts,    \* how many times the process is replaced
    MaxSignalled    \* how many of the processes, from the first, may get SIGTERM

Callers == {"startup", "scheduler"} \cup Manual

ASSUME ConstantsAssumption ==
    /\ "startup" \notin Manual /\ "scheduler" \notin Manual
    /\ Enabled \in Seq(Components)
    /\ MaxAttempts \in Nat \ {0}
    /\ Cooldown \in Nat
    /\ MaxClock \in Nat /\ MaxCycles \in Nat
    /\ MaxRestarts \in Nat /\ MaxSignalled \in Nat

ASSUME StatesAssumption ==
    /\ ActualStates \subseteq [isPartial : BOOLEAN, hosts : Seq(ActualHosts)]
    /\ DesiredStates \subseteq [ready : BOOLEAN, hosts : Seq(DesiredHosts)]

VARIABLES
    \* Service (guarded by its mutex) and cooldown.Store
    running, ready, lastResult, lastSent,
    \* the locals of RunCycle, runCycle and the clients, per caller
    pc, report, actual, desired, host, comp, noData, cmd, attempt, sleeping,
    \* the process: phase, cancelled contexts, the ticker's channel, /readyz readers
    phase, stopping, gone, tick, probe,
    \* wall time, cycle ids, process generations
    clock, cycles, restarts,
    \* the network and the reconciler, seen from the client, and two histories of
    \* this process generation: the POSTs the reconciler took, the commands it
    \* acknowledged
    wire, taken, acked

service == <<running, ready, lastResult, lastSent>>
locals  == <<report, actual, desired, host, comp, noData, cmd, attempt, sleeping>>
process == <<phase, stopping, gone, tick, probe>>
world   == <<clock, cycles, restarts, wire, taken, acked>>
vars    == <<service, pc, locals, process, world>>

------------------------------------------------------------------------------
(* Data *)

Never == -1            \* a key absent from the lastSent map
NoResult == [cycle |-> 0]
NoCommand == [cycle |-> 0]
NoState == [hosts |-> << >>]
NoProbe == [at |-> "idle"]

NewReport(id) ==
    [cycle |-> id, partial |-> FALSE, desired |-> 0, compared |-> 0, noHost |-> 0,
     noData |-> 0, drifts |-> 0, sent |-> 0, suppressed |-> 0, errors |-> 0]

\* One POST of a command: the request of attempt number n.
Post(c, n) == [cmd |-> c, attempt |-> n]

\* The context a caller passes down: the process's, or its HTTP request's.
CtxDone(p) == IF p \in Manual THEN p \in gone ELSE stopping

\* Where a caller of RunCycle is: at rest, at the call, or inside a cycle.
Sending   == {"send", "wait", "mark"}
Examining == {"component"} \cup Sending
InCycle   == {"inventory", "parser", "host", "completed", "failed", "release"}
             \cup Examining

\* Mutation only: the ticker goroutine returns after its first task.
AtRestOnce(p) == IF p \in Manual THEN "idle" ELSE "off"

AtRest(p) == IF p = "startup" THEN "off" ELSE "idle"
Active(p) == pc[p] \in InCycle

DesiredHost(p) == desired[p].hosts[host[p]]
MatchedHost(p) == LookupActualHost(DesiredHost(p), actual[p].hosts)
Component(p)   == Enabled[comp[p]]

------------------------------------------------------------------------------
(* The cooldown store *)

\* Mutation only: a key may be sent while its cooldown runs.
CanSendOffByOne(key, now) ==
    \/ Cooldown = 0 \/ lastSent[key] = Never
    \/ now - lastSent[key] >= Cooldown - 1

CanSend(key, now) ==
    \/ Cooldown = 0
    \/ lastSent[key] = Never
    \/ now - lastSent[key] >= Cooldown

MarkSent(key, at) == lastSent' = [lastSent EXCEPT ![key] = at]

------------------------------------------------------------------------------
(* The initial state of a process, of its callers' locals and of its histories *)

FreshLocals ==
    /\ report = [p \in Callers |-> NewReport(0)]
    /\ actual = [p \in Callers |-> NoState]
    /\ desired = [p \in Callers |-> NoState]
    /\ host = [p \in Callers |-> 0]
    /\ comp = [p \in Callers |-> 0]
    /\ noData = [p \in Callers |-> FALSE]
    /\ cmd = [p \in Callers |-> NoCommand]
    /\ attempt = [p \in Callers |-> 0]
    /\ sleeping = [p \in Callers |-> FALSE]

NewProcess ==
    /\ running = FALSE /\ ready = FALSE /\ lastResult = NoResult
    /\ lastSent = [k \in Key |-> Never]
    /\ FreshLocals
    /\ stopping = FALSE /\ gone = {} /\ tick = FALSE /\ probe = [r \in Readers |-> NoProbe]
    /\ wire = {} /\ taken = {} /\ acked = {}

Init ==
    /\ NewProcess
    /\ pc = [p \in Callers |-> IF p = "startup" THEN "call" ELSE "off"]
    /\ phase = "starting"
    /\ clock = 0 /\ cycles = 0 /\ restarts = 0

------------------------------------------------------------------------------
(* RunCycle: entry and exit *)

\* beginCycle returns true.
BeginCycle(p) == ~running /\ running' = TRUE

\* The start of RunCycle and runCycle, up to the first request to InventorySvc.
EnterRunCycle(p) ==
    /\ pc[p] = "call"
    /\ BeginCycle(p)
    /\ cycles' = cycles + 1
    /\ report' = [report EXCEPT ![p] = NewReport(cycles')]
    /\ attempt' = [attempt EXCEPT ![p] = 1]
    /\ pc' = [pc EXCEPT ![p] = "inventory"]
    /\ UNCHANGED <<ready, lastResult, lastSent, actual, desired, host, comp, noData,
                   cmd, sleeping, process, clock, restarts, wire, taken, acked>>

\* Mutation only: finishCycle is deferred before beginCycle's answer is looked at.
RefuseAndRelease(p) ==
    /\ pc[p] = "call"
    /\ running
    /\ running' = FALSE
    /\ pc' = [pc EXCEPT ![p] = AtRest(p)]
    /\ UNCHANGED <<ready, lastResult, lastSent, locals, process, world>>

\* beginCycle returns false: ErrCycleAlreadyRunning, a skipped tick or a 409.
RefuseRunCycle(p) ==
    /\ pc[p] = "call"
    /\ running
    /\ pc' = [pc EXCEPT ![p] = AtRest(p)]
    /\ gone' = gone \ {p}
    /\ UNCHANGED <<service, locals, phase, stopping, tick, probe, world>>

\* Mutation only: the lock is released before the result is stored.
PersistUnlocked(p) ==
    /\ lastResult' = report[p]
    /\ ready' = (ready \/ pc[p] = "completed")
    /\ running' = FALSE

\* persistResult(result, err == nil)
Persist(p) ==
    /\ lastResult' = report[p]
    /\ ready' = (ready \/ pc[p] = "completed")
    /\ UNCHANGED running

PersistResult(p) ==
    /\ pc[p] \in {"completed", "failed"}
    /\ Persist(p)
    /\ pc' = [pc EXCEPT ![p] = "release"]
    /\ UNCHANGED <<lastSent, locals, process, world>>

\* The deferred finishCycle; the locals of the call are gone with it.
FinishCycle(p) ==
    /\ pc[p] = "release"
    /\ running' = FALSE
    /\ pc' = [pc EXCEPT ![p] = AtRest(p)]
    /\ gone' = gone \ {p}
    /\ report' = [report EXCEPT ![p] = NewReport(0)]
    /\ actual' = [actual EXCEPT ![p] = NoState]
    /\ desired' = [desired EXCEPT ![p] = NoState]
    /\ host' = [host EXCEPT ![p] = 0]
    /\ comp' = [comp EXCEPT ![p] = 0]
    /\ noData' = [noData EXCEPT ![p] = FALSE]
    /\ UNCHANGED <<ready, lastResult, lastSent, cmd, attempt, sleeping, phase, stopping, tick, probe,
                   world>>

------------------------------------------------------------------------------
(* The retry loop, the same in the three clients.  A request that fails with no   *)
(* status or a 5xx is repeated after a pause, up to MaxAttempts requests.         *)

\* Mutation only: one attempt too many.
MayRetryOnceMore(p, retryable) == retryable /\ attempt[p] <= MaxAttempts

MayRetry(p, retryable) == retryable /\ attempt[p] < MaxAttempts

\* The call returns an error: the cycle fails, or this command does.  The locals of
\* the call go out of scope.
GiveUp(p) ==
    /\ report' = [report EXCEPT ![p].errors = @ + 1]
    /\ cmd' = [cmd EXCEPT ![p] = NoCommand]
    /\ attempt' = [attempt EXCEPT ![p] = 0]
    /\ IF pc[p] \in {"inventory", "parser"}
       THEN pc' = [pc EXCEPT ![p] = "failed"] /\ UNCHANGED comp
       ELSE pc' = [pc EXCEPT ![p] = "component"] /\ comp' = [comp EXCEPT ![p] = @ + 1]

\* A request failed: pause before the next attempt, or give up.
CallFails(p, retryable) ==
    \/ /\ MayRetry(p, retryable)
       /\ sleeping' = [sleeping EXCEPT ![p] = TRUE]
       /\ pc' = [pc EXCEPT ![p] = IF @ = "wait" THEN "send" ELSE @]
       /\ UNCHANGED <<report, comp, cmd, attempt>>
    \/ ~MayRetry(p, retryable) /\ GiveUp(p) /\ UNCHANGED sleeping

\* The rest of the state, for the steps of a call.
CallUnchanged == UNCHANGED <<service, actual, desired, host, noData, process, clock,
                             cycles, restarts, acked>>

\* Mutation only: the loop forgets to count, or counts down.
SameAttempt(p) == attempt[p]
PreviousAttempt(p) == attempt[p] - 1

NextAttempt(p) == attempt[p] + 1

PauseEnds(p) ==
    /\ sleeping[p]
    /\ sleeping' = [sleeping EXCEPT ![p] = FALSE]
    /\ attempt' = [attempt EXCEPT ![p] = NextAttempt(p)]
    /\ UNCHANGED <<pc, report, comp, cmd, wire, taken>> /\ CallUnchanged

\* sleepWithContext returns false: the call returns ctx.Err().
PauseCancelled(p) ==
    /\ sleeping[p] /\ CtxDone(p)
    /\ sleeping' = [sleeping EXCEPT ![p] = FALSE]
    /\ GiveUp(p)
    /\ UNCHANGED <<wire, taken>> /\ CallUnchanged

------------------------------------------------------------------------------
(* The two fetches *)

FetchActualState(p) ==
    /\ pc[p] = "inventory" /\ ~sleeping[p] /\ ~CtxDone(p)
    /\ \E s \in ActualStates : actual' = [actual EXCEPT ![p] = s]
    /\ attempt' = [attempt EXCEPT ![p] = 1]
    /\ pc' = [pc EXCEPT ![p] = "parser"]
    /\ UNCHANGED <<service, report, desired, host, comp, noData, cmd, sleeping, process,
                   world>>

\* ... and the preparation of the comparison that follows it.
FetchDesiredState(p) ==
    /\ pc[p] = "parser" /\ ~sleeping[p] /\ ~CtxDone(p)
    /\ \E s \in DesiredStates :
        /\ desired' = [desired EXCEPT ![p] = s]
        /\ report' = [report EXCEPT ![p].partial = actual[p].isPartial \/ ~s.ready,
                                    ![p].desired = Len(s.hosts)]
    /\ host' = [host EXCEPT ![p] = 1]
    /\ attempt' = [attempt EXCEPT ![p] = 0]
    /\ pc' = [pc EXCEPT ![p] = "host"]
    /\ UNCHANGED <<service, actual, comp, noData, cmd, sleeping, process, world>>

\* A cancelled context fails a request with no status.
FetchFails(p) ==
    /\ pc[p] \in {"inventory", "parser"} /\ ~sleeping[p]
    /\ \E retryable \in BOOLEAN : (CtxDone(p) => retryable) /\ CallFails(p, retryable)
    /\ UNCHANGED <<wire, taken>> /\ CallUnchanged

------------------------------------------------------------------------------
(* The comparison: a loop over desired hosts, a loop over enabled components *)

LocalStep == UNCHANGED <<service, actual, desired, attempt, sleeping, process, world>>

\* No actual host: a warning, a partial result, not a drift.
SkipHost(p) ==
    /\ pc[p] = "host" /\ host[p] <= Len(desired[p].hosts)
    /\ MatchedHost(p) = 0
    /\ report' = [report EXCEPT ![p].partial = TRUE, ![p].noHost = @ + 1]
    /\ host' = [host EXCEPT ![p] = @ + 1]
    /\ UNCHANGED <<pc, comp, noData, cmd>> /\ LocalStep

CompareHost(p) ==
    /\ pc[p] = "host" /\ host[p] <= Len(desired[p].hosts)
    /\ MatchedHost(p) # 0
    /\ report' = [report EXCEPT ![p].compared = @ + 1]
    /\ comp' = [comp EXCEPT ![p] = 1]
    /\ noData' = [noData EXCEPT ![p] = FALSE]
    /\ pc' = [pc EXCEPT ![p] = "component"]
    /\ UNCHANGED <<host, cmd>> /\ LocalStep

HostsCompared(p) ==
    /\ pc[p] = "host" /\ host[p] > Len(desired[p].hosts)
    /\ pc' = [pc EXCEPT ![p] = "completed"]
    /\ UNCHANGED <<report, host, comp, noData, cmd>> /\ LocalStep

ComponentsCompared(p) ==
    /\ pc[p] = "component" /\ comp[p] > Len(Enabled)
    /\ host' = [host EXCEPT ![p] = @ + 1]
    /\ pc' = [pc EXCEPT ![p] = "host"]
    /\ UNCHANGED <<report, comp, noData, cmd>> /\ LocalStep

Verdict(p) ==
    Detect(Component(p), DesiredHost(p), actual[p].hosts[MatchedHost(p)])

\* The report r after a verdict that sends nothing; a host without data is
\* counted once, whatever the number of its components.
Concluded(r, verdict, counted) ==
    CASE verdict = "no_detector"  -> [r EXCEPT !.errors = @ + 1]
      [] verdict = "missing_data" ->
            [r EXCEPT !.partial = TRUE, !.noData = IF counted THEN @ ELSE @ + 1]
      [] OTHER -> r

NoDrift(p) ==
    /\ pc[p] = "component" /\ comp[p] <= Len(Enabled)
    /\ Verdict(p) # "drift"
    /\ report' = [report EXCEPT ![p] = Concluded(@, Verdict(p), noData[p])]
    /\ noData' = [noData EXCEPT ![p] = @ \/ Verdict(p) = "missing_data"]
    /\ comp' = [comp EXCEPT ![p] = @ + 1]
    /\ UNCHANGED <<pc, host, cmd>> /\ LocalStep

CommandKey(p) ==
    BuildKey(Component(p),
             TargetFQDN(DesiredHost(p), actual[p].hosts[MatchedHost(p)]))

\* Mutation only: a suppressed drift is no longer a drift found.
CountSuppressedOnly(r) == [r EXCEPT !.suppressed = @ + 1]

CountSuppressed(r) == [r EXCEPT !.drifts = @ + 1, !.suppressed = @ + 1]

\* A drift whose key is in its cooldown.
SuppressDrift(p) ==
    /\ pc[p] = "component" /\ comp[p] <= Len(Enabled)
    /\ Verdict(p) = "drift"
    /\ ~CanSend(CommandKey(p), clock)
    /\ report' = [report EXCEPT ![p] = CountSuppressed(@)]
    /\ comp' = [comp EXCEPT ![p] = @ + 1]
    /\ UNCHANGED <<pc, host, noData, cmd>> /\ LocalStep

\* A drift to be sent: `now` is read here, before the first POST.
DecideCommand(p) ==
    /\ pc[p] = "component" /\ comp[p] <= Len(Enabled)
    /\ Verdict(p) = "drift"
    /\ CanSend(CommandKey(p), clock)
    /\ report' = [report EXCEPT ![p].drifts = @ + 1]
    /\ cmd' = [cmd EXCEPT ![p] =
            [cycle |-> report[p].cycle, host |-> host[p], comp |-> comp[p],
             key |-> CommandKey(p), decided |-> clock]]
    /\ attempt' = [attempt EXCEPT ![p] = 1]
    /\ pc' = [pc EXCEPT ![p] = "send"]
    /\ UNCHANGED <<service, actual, desired, host, comp, noData, sleeping, process, world>>

------------------------------------------------------------------------------
(* SendReconcile: one POST at a time *)

SendPost(p) ==
    /\ pc[p] = "send" /\ ~sleeping[p] /\ ~CtxDone(p)
    /\ wire' = wire \cup {Post(cmd[p], attempt[p])}
    /\ pc' = [pc EXCEPT ![p] = "wait"]
    /\ UNCHANGED <<report, comp, cmd, attempt, sleeping, taken>> /\ CallUnchanged

\* The context is cancelled: nothing is sent, the attempt fails with no status.
SendCancelled(p) ==
    /\ pc[p] = "send" /\ ~sleeping[p] /\ CtxDone(p)
    /\ CallFails(p, TRUE)
    /\ UNCHANGED <<wire, taken>> /\ CallUnchanged

\* Mutation only: a POST without a reply is taken for an accepted one.
NoReplyIsAccepted(p) ==
    /\ pc[p] = "wait"
    /\ pc' = [pc EXCEPT ![p] = "mark"]
    /\ UNCHANGED <<service, locals, process, world>>

\* Timeout, broken connection or cancelled context: no status.  The POST may have
\* been taken, and if not it may still be.
NoReply(p) ==
    /\ pc[p] = "wait"
    /\ CallFails(p, TRUE)
    /\ UNCHANGED <<wire, taken>> /\ CallUnchanged

\* 503 and 500 are repeated, 400 and 422 are not; none of them queues a job.
Refused(p) ==
    /\ pc[p] = "wait" /\ Post(cmd[p], attempt[p]) \in wire
    /\ \E retryable \in BOOLEAN : CallFails(p, retryable)
    /\ wire' = wire \ {Post(cmd[p], attempt[p])}
    /\ UNCHANGED taken /\ CallUnchanged

\* A 202 whose body cannot be read or decoded: an error that is not repeated.
UnreadableReply(p) ==
    /\ pc[p] = "wait" /\ Post(cmd[p], attempt[p]) \in taken
    /\ CallFails(p, FALSE)
    /\ UNCHANGED <<wire, taken>> /\ CallUnchanged

Acknowledged(p) ==
    /\ pc[p] = "wait" /\ Post(cmd[p], attempt[p]) \in taken
    /\ ~CtxDone(p)
    /\ pc' = [pc EXCEPT ![p] = "mark"]
    /\ UNCHANGED <<service, locals, process, world>>

MarkCommand(p) ==
    /\ pc[p] = "mark"
    /\ MarkSent(cmd[p].key, cmd[p].decided)
    /\ acked' = acked \cup {cmd[p]}
    /\ cmd' = [cmd EXCEPT ![p] = NoCommand]
    /\ attempt' = [attempt EXCEPT ![p] = 0]
    /\ report' = [report EXCEPT ![p].sent = @ + 1]
    /\ comp' = [comp EXCEPT ![p] = @ + 1]
    /\ pc' = [pc EXCEPT ![p] = "component"]
    /\ UNCHANGED <<running, ready, lastResult, actual, desired, host, noData, sleeping,
                   process, clock, cycles, restarts, wire, taken>>

------------------------------------------------------------------------------
(* The peer: ReconcilerSvc takes a POST that reached it, at any later time, or  *)
(* the POST never reaches it (or is refused when nobody waits for the answer).  *)

PeerUnchanged == UNCHANGED <<service, pc, locals, process, clock, cycles, restarts, acked>>

Take(post) ==
    /\ post \in wire
    /\ wire' = wire \ {post} /\ taken' = taken \cup {post}
    /\ PeerUnchanged

Lose(post) ==
    /\ post \in wire
    /\ wire' = wire \ {post} /\ UNCHANGED taken
    /\ PeerUnchanged

------------------------------------------------------------------------------
(* The process: app.Run, scheduler.Start, the HTTP handlers *)

\* Mutation only: the server starts beside the first cycle.
StartupOverAtOnce == TRUE

StartupOver == pc["startup"] = "off"

StartServing ==
    /\ phase = "starting" /\ StartupOver
    /\ phase' = "serving"
    /\ pc' = [p \in Callers |-> IF p = "startup" THEN pc[p] ELSE "idle"]
    /\ UNCHANGED <<service, locals, stopping, gone, tick, probe, world>>

\* The ticker's channel holds one tick; a tick that finds it full is dropped.
Tick ==
    /\ pc["scheduler"] # "off" /\ ~tick /\ cycles < MaxCycles
    /\ tick' = TRUE
    /\ UNCHANGED <<service, pc, locals, phase, stopping, gone, probe, world>>

SchedulerReceivesTick ==
    /\ pc["scheduler"] = "idle" /\ tick
    /\ tick' = FALSE
    /\ pc' = [pc EXCEPT !["scheduler"] = "call"]
    /\ UNCHANGED <<service, locals, phase, stopping, gone, probe, world>>

SchedulerStops ==
    /\ pc["scheduler"] = "idle" /\ stopping
    /\ pc' = [pc EXCEPT !["scheduler"] = "off"]
    /\ UNCHANGED <<service, locals, process, world>>

\* RunDetectionCycle; its reply needs no state.
ManualTrigger(p) ==
    /\ phase = "serving" /\ pc[p] = "idle" /\ cycles < MaxCycles
    /\ pc' = [pc EXCEPT ![p] = "call"]
    /\ UNCHANGED <<service, locals, process, world>>

\* The HTTP client of a manual trigger goes away.
ClientGone(p) ==
    /\ Active(p) /\ p \notin gone
    /\ gone' = gone \cup {p}
    /\ UNCHANGED <<service, pc, locals, phase, stopping, tick, probe, world>>

\* Readyz takes the lock twice: LastCycleResult, then IsReady.
ReadyzReadsResult(r) ==
    /\ phase = "serving" /\ probe[r].at = "idle"
    /\ probe' = [probe EXCEPT ![r] = [at |-> "read", cycle |-> lastResult.cycle]]
    /\ UNCHANGED <<service, pc, locals, phase, stopping, gone, tick, world>>

ReadyzReplies(r) ==
    /\ probe[r].at = "read"
    /\ probe' = [probe EXCEPT ![r] = [at |-> "replied", cycle |-> @.cycle, ok |-> ready]]
    /\ UNCHANGED <<service, pc, locals, phase, stopping, gone, tick, world>>

\* SIGTERM cancels the process context; the main goroutine then shuts the server
\* down and returns, within ten seconds, whatever still runs.
Signal ==
    /\ phase \in {"starting", "serving"} /\ ~stopping /\ restarts < MaxSignalled
    /\ stopping' = TRUE
    /\ UNCHANGED <<service, pc, locals, phase, gone, tick, probe, world>>

Drain ==
    /\ phase = "serving" /\ stopping
    /\ phase' = "draining"
    /\ UNCHANGED <<service, pc, locals, stopping, gone, tick, probe, world>>

\* The end of the process: main returned, or a crash at any point.
Exit ==
    /\ phase # "exited"
    /\ phase' = "exited"
    /\ running' = FALSE /\ ready' = FALSE /\ lastResult' = NoResult
    /\ lastSent' = [k \in Key |-> Never]
    /\ report' = [p \in Callers |-> NewReport(0)]
    /\ actual' = [p \in Callers |-> NoState]
    /\ desired' = [p \in Callers |-> NoState]
    /\ host' = [p \in Callers |-> 0]
    /\ comp' = [p \in Callers |-> 0]
    /\ noData' = [p \in Callers |-> FALSE]
    /\ cmd' = [p \in Callers |-> NoCommand]
    /\ attempt' = [p \in Callers |-> 0]
    /\ sleeping' = [p \in Callers |-> FALSE]
    /\ stopping' = FALSE /\ gone' = {} /\ tick' = FALSE /\ probe' = [r \in Readers |-> NoProbe]
    /\ wire' = {} /\ taken' = {} /\ acked' = {}
    /\ pc' = [p \in Callers |-> "off"]
    /\ UNCHANGED <<clock, cycles, restarts>>

Restart ==
    /\ phase = "exited" /\ restarts < MaxRestarts
    /\ phase' = "starting"
    /\ pc' = [pc EXCEPT !["startup"] = "call"]
    /\ restarts' = restarts + 1
    /\ UNCHANGED <<service, locals, stopping, gone, tick, probe, clock, cycles, wire,
                   taken, acked>>

\* The process is over and nobody starts it again.
Stopped == phase = "exited" /\ restarts = MaxRestarts /\ UNCHANGED vars

ClockTick ==
    /\ clock < MaxClock
    /\ clock' = clock + 1
    /\ UNCHANGED <<service, pc, locals, process, cycles, restarts, wire, taken, acked>>

------------------------------------------------------------------------------
(* Specification *)

\* What the goroutine of a call does by itself.
CallerStep(p) ==
    \/ EnterRunCycle(p) \/ RefuseRunCycle(p) \/ PersistResult(p) \/ FinishCycle(p)
    \/ PauseEnds(p) \/ PauseCancelled(p)
    \/ FetchActualState(p) \/ FetchDesiredState(p) \/ FetchFails(p)
    \/ SkipHost(p) \/ CompareHost(p) \/ HostsCompared(p) \/ ComponentsCompared(p)
    \/ NoDrift(p) \/ SuppressDrift(p) \/ DecideCommand(p)
    \/ SendPost(p) \/ SendCancelled(p) \/ NoReply(p) \/ Refused(p)
    \/ UnreadableReply(p) \/ Acknowledged(p) \/ MarkCommand(p)

Next ==
    \/ \E p \in Callers : CallerStep(p)
    \/ \E p \in Manual : ManualTrigger(p) \/ ClientGone(p)
    \/ \E post \in wire : Take(post) \/ Lose(post)
    \/ StartServing \/ Tick \/ SchedulerReceivesTick \/ SchedulerStops
    \/ \E r \in Readers : ReadyzReadsResult(r) \/ ReadyzReplies(r)
    \/ Signal \/ Drain \/ Exit \/ Restart \/ Stopped \/ ClockTick

Spec == Init /\ [][Next]_vars

\* The goroutines run; the clients' timeouts end every request.  Nothing is
\* assumed of the peers, the network, the callers or the ticker.
Fairness ==
    /\ \A p \in Callers : WF_vars(CallerStep(p))
    /\ WF_vars(StartServing) /\ WF_vars(SchedulerReceivesTick)

FairSpec == Spec /\ Fairness

------------------------------------------------------------------------------
(* Types *)

Reports ==
    [cycle : Nat, partial : BOOLEAN, desired : Nat, compared : Nat, noHost : Nat,
     noData : Nat, drifts : Nat, sent : Nat, suppressed : Nat, errors : Nat]

Commands == [cycle : Nat, host : Nat, comp : Nat, key : Key, decided : Nat]
Posts    == [cmd : Commands, attempt : Nat]

Probes   == {NoProbe} \cup [at : {"read"}, cycle : Nat]
            \cup [at : {"replied"}, cycle : Nat, ok : BOOLEAN]

ServiceTypeOK ==
    /\ running \in BOOLEAN /\ ready \in BOOLEAN
    /\ lastResult \in Reports \cup {NoResult}
    /\ lastSent \in [Key -> Nat \cup {Never}]

LocalsTypeOK ==
    /\ pc \in [Callers -> InCycle \cup {"off", "idle", "call"}]
    /\ report \in [Callers -> Reports]
    /\ actual \in [Callers -> ActualStates \cup {NoState}]
    /\ desired \in [Callers -> DesiredStates \cup {NoState}]
    /\ host \in [Callers -> Nat] /\ comp \in [Callers -> Nat]
    /\ noData \in [Callers -> BOOLEAN] /\ sleeping \in [Callers -> BOOLEAN]
    /\ attempt \in [Callers -> Nat]
    /\ cmd \in [Callers -> Commands \cup {NoCommand}]

ProcessTypeOK ==
    /\ phase \in {"starting", "serving", "draining", "exited"}
    /\ stopping \in BOOLEAN /\ gone \subseteq Callers /\ tick \in BOOLEAN
    /\ probe \in [Readers -> Probes]

WorldTypeOK ==
    /\ clock \in Nat /\ cycles \in Nat /\ restarts \in Nat
    /\ wire \subseteq Posts /\ taken \subseteq Posts /\ acked \subseteq Commands

\* Where a caller is tells what its locals hold: the answers it fetched, a host of the
\* desired state that has an actual one, an enabled component, a command.
LocalsInPlace ==
    \A p \in Callers :
        /\ pc[p] \in {"parser", "host"} \cup Examining => actual[p] \in ActualStates
        /\ pc[p] \in {"host"} \cup Examining =>
             desired[p] \in DesiredStates /\ host[p] # 0
        /\ pc[p] \in Examining =>
             host[p] <= Len(desired[p].hosts) /\ MatchedHost(p) # 0 /\ comp[p] # 0
        /\ pc[p] \in Sending => comp[p] <= Len(Enabled) /\ cmd[p] \in Commands
        /\ sleeping[p] => pc[p] \in {"inventory", "parser", "send"}

\* A process that starts has one goroutine, one that is gone has none.
CallersInPlace ==
    /\ phase = "starting" => \A p \in Callers \ {"startup"} : pc[p] = "off"
    /\ phase = "exited" => \A p \in Callers : pc[p] = "off"

\* Every variable has its type, and the locals of a cycle are set when they are used.
TypeOK ==
    /\ ServiceTypeOK /\ LocalsTypeOK /\ ProcessTypeOK /\ WorldTypeOK
    /\ LocalsInPlace /\ CallersInPlace

------------------------------------------------------------------------------
(* Safety *)

\* At most one goroutine is between beginCycle and finishCycle, and the running
\* flag is set exactly then: it is released on every way out of a cycle.
CycleLock ==
    /\ \A p, q \in Callers : Active(p) /\ Active(q) => p = q
    /\ running = (\E p \in Callers : Active(p))

Before(c, d) == c.cycle < d.cycle \/ (c.cycle = d.cycle /\ c.host < d.host)

\* After a command was acknowledged, no POST for its component and FQDN leaves the
\* service on a decision made less than Cooldown later: not from the same cycle (two
\* desired hosts of one FQDN), nor from another caller's, nor on a retry.
CooldownRespected ==
    \A c \in acked : \A post \in wire \cup taken :
        post.cmd.key = c.key /\ Before(c, post.cmd)
            => post.cmd.decided - c.decided >= Cooldown

\* A cooldown is earned: a key is suppressed only from the decision of a command of
\* which ReconcilerSvc really took a POST; a command that failed starts no cooldown.
CooldownEarned ==
    \A k \in Key : lastSent[k] # Never =>
        \E post \in taken : post.cmd.key = k /\ post.cmd.decided = lastSent[k]

\* However replies are lost, ReconcilerSvc sees a command at most MaxAttempts times.
BoundedDelivery ==
    \A post \in wire \cup taken :
        Cardinality({q \in wire \cup taken : q.cmd = post.cmd}) <= MaxAttempts

\* The stored report of a cycle that compared hosts accounts for every host and every
\* drift exactly once, and its number of sends is the number of acknowledged commands.
ReportAddsUp ==
    lastResult # NoResult /\ lastResult.desired > 0 =>
        /\ lastResult.desired = lastResult.compared + lastResult.noHost
        /\ lastResult.drifts =
             lastResult.sent + lastResult.suppressed + lastResult.errors
        /\ lastResult.sent = Cardinality({c \in acked : c.cycle = lastResult.cycle})
        /\ lastResult.noHost + lastResult.noData > 0 => lastResult.partial

\* A command in flight is for a component that the desired host of the very cycle
\* wants; node_exporter is never sent for a host whose workloads nobody could see.
CommandJustified ==
    \A p \in Callers : pc[p] \in Sending =>
        LET d == DesiredHost(p)
            a == actual[p].hosts[MatchedHost(p)]
        IN  /\ MatchedHost(p) # 0
            /\ cmd[p].key = CommandKey(p) /\ cmd[p].cycle = report[p].cycle
            /\ Wanted(d, Component(p))
            /\ ~(IsSourceHealthy(a, Cadvisor) /\ HasWorkload(a, Component(p)))
            /\ Component(p) = NodeExporter => IsSourceHealthy(a, Cadvisor)

\* /readyz answers 200 only with the id of a finished cycle in its body, although it
\* reads the result and the flag under two locks.
ReadyzHonest ==
    \A r \in Readers : probe[r].at = "replied" /\ probe[r].ok => probe[r].cycle # 0

\* What docs/02-components/02-drift-detector/index.md, section 7, says of a host whose
\* cadvisor source is not ok: its components are skipped, missing data is no drift.
NoDriftWithoutData ==
    \A p \in Callers : pc[p] \in Sending =>
        IsSourceHealthy(actual[p].hosts[MatchedHost(p)], Cadvisor)

------------------------------------------------------------------------------
(* Action and liveness properties *)

\* A stored result is only ever replaced by the result of a later cycle.
ResultsInOrder ==
    [][lastResult' # lastResult /\ lastResult' # NoResult
        => lastResult'.cycle > lastResult.cycle]_vars

\* Every cycle ends, whatever the peers and the network do.
CycleEnds == \A p \in Callers : Active(p) ~> ~Active(p)

\* A tick is not left in the channel while the process runs, even if cycles of other
\* callers keep the service busy: it begins a cycle or is skipped.
TickServed == tick ~> (~tick \/ stopping)

------------------------------------------------------------------------------
(* Refinement *)

Contract == INSTANCE DetectionContract WITH
                busy <- running, granted <- lastSent, now <- clock

\* The service implements its contract: with lost replies, retries, cancelled requests,
\* shutdown and restart, cycles exclude each other and sends keep their distance.
ContractHolds == Contract!Spec
==============================================================================
