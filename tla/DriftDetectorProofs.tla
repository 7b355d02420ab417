------------------------- MODULE DriftDetectorProofs -------------------------
(***************************************************************************)
(* Theorems of DriftDetector, for every number of callers, hosts and        *)
(* attempts, every cooldown and every answer of the peers: types, cycles,    *)
(* cooldowns, results, the contract, then why a command is decided, how often *)
(* it is delivered and how it is counted in the report of its cycle.         *)
(***************************************************************************)
EXTENDS DriftDetector, SequenceFacts, FiniteSetTheorems, SequenceTheorems

------------------------------------------------------------------------------
(* Types *)

LEMMA CallersFacts ==
    /\ "startup" \in Callers /\ "scheduler" \in Callers /\ Manual \subseteq Callers
    /\ \A p \in Callers : AtRest(p) \in {"off", "idle"}
BY DEF Callers, AtRest

LEMMA NewReportType == \A id \in Nat : NewReport(id) \in Reports
BY DEF NewReport, Reports

LEMMA InitTypes == Init => TypeOK
<1> SUFFICES ASSUME Init PROVE TypeOK
    OBVIOUS
<1> USE DEF Init, NewProcess, FreshLocals
<1>1. ServiceTypeOK
    BY DEF ServiceTypeOK, Never
<1>2. LocalsTypeOK
    BY NewReportType DEF LocalsTypeOK, InCycle
<1>3. ProcessTypeOK
    BY DEF ProcessTypeOK, Probes
<1>4. WorldTypeOK
    BY DEF WorldTypeOK
<1>5. LocalsInPlace
    BY DEF LocalsInPlace, Examining, Sending
<1>6. CallersInPlace
    BY DEF CallersInPlace
<1> QED
    BY <1>1, <1>2, <1>3, <1>4, <1>5, <1>6 DEF TypeOK

------------------------------------------------------------------------------
(* The updates of a report *)

LEMMA OneFieldTypes ==
    ASSUME NEW r \in Reports
    PROVE  /\ [r EXCEPT !.errors = @ + 1] \in Reports
           /\ [r EXCEPT !.sent = @ + 1] \in Reports
           /\ [r EXCEPT !.drifts = @ + 1] \in Reports
           /\ [r EXCEPT !.compared = @ + 1] \in Reports
           /\ \A n \in Nat : [r EXCEPT !.noHost = n] \in Reports
           /\ \A n \in Nat : [r EXCEPT !.noData = n] \in Reports
           /\ \A n \in Nat : [r EXCEPT !.suppressed = n] \in Reports
           /\ \A n \in Nat : [r EXCEPT !.desired = n] \in Reports
           /\ \A b \in BOOLEAN : [r EXCEPT !.partial = b] \in Reports
BY DEF Reports

\* A host without an actual one.
LEMMA SkippedTypes ==
    ASSUME NEW r \in Reports
    PROVE  [r EXCEPT !.partial = TRUE, !.noHost = @ + 1] \in Reports
<1> DEFINE q == [r EXCEPT !.partial = TRUE]
<1>1. q \in Reports
    BY DEF Reports
<1>2. r.noHost + 1 \in Nat
    BY DEF Reports
<1>3. [r EXCEPT !.partial = TRUE, !.noHost = @ + 1] = [q EXCEPT !.noHost = r.noHost + 1]
    OBVIOUS
<1> QED
    <2> HIDE DEF q
    <2> QED
        BY <1>1, <1>2, <1>3, OneFieldTypes

\* The two fetches are over.
LEMMA PreparedTypes ==
    ASSUME NEW r \in Reports, NEW b \in BOOLEAN, NEW n \in Nat
    PROVE  [r EXCEPT !.partial = b, !.desired = n] \in Reports
<1> DEFINE q == [r EXCEPT !.partial = b]
<1>1. q \in Reports
    BY DEF Reports
<1>2. [r EXCEPT !.partial = b, !.desired = n] = [q EXCEPT !.desired = n]
    OBVIOUS
<1> QED
    <2> HIDE DEF q
    <2> QED
        BY <1>1, <1>2, OneFieldTypes

LEMMA CountSuppressedTypes ==
    ASSUME NEW r \in Reports
    PROVE  CountSuppressed(r) \in Reports
<1> DEFINE q == [r EXCEPT !.drifts = @ + 1]
<1>1. q \in Reports /\ r.suppressed + 1 \in Nat
    BY DEF Reports
<1>2. CountSuppressed(r) = [q EXCEPT !.suppressed = r.suppressed + 1]
    BY DEF CountSuppressed
<1> QED
    <2> HIDE DEF q
    <2> QED
        BY <1>1, <1>2, OneFieldTypes

LEMMA ConcludedTypes ==
    ASSUME NEW r \in Reports, NEW v, NEW b \in BOOLEAN
    PROVE  Concluded(r, v, b) \in Reports
<1>1. CASE v = "no_detector"
    BY <1>1, OneFieldTypes DEF Concluded
<1>2. CASE v = "missing_data"
    <2> DEFINE q == [r EXCEPT !.partial = TRUE]
    <2> DEFINE n == IF b THEN r.noData ELSE r.noData + 1
    <2>1. q \in Reports
        BY DEF Reports
    <2>2. n \in Nat
        BY DEF Reports
    <2>3. Concluded(r, v, b) = [q EXCEPT !.noData = n]
        BY <1>2 DEF Concluded
    <2> HIDE DEF q, n
    <2> QED
        BY <2>1, <2>2, <2>3, OneFieldTypes
<1>3. CASE v \notin {"no_detector", "missing_data"}
    BY <1>3 DEF Concluded
<1> QED
    BY <1>1, <1>2, <1>3

------------------------------------------------------------------------------
(* What a command is about *)

\* What lookupActualHost finds is an index into the inventory's answer, or 0.
LEMMA LookupRange ==
    ASSUME NEW d, NEW hosts, Len(hosts) \in Nat
    PROVE  LookupActualHost(d, hosts) \in 0..Len(hosts)
<1> DEFINE I == {i \in 1..Len(hosts) : Fold[hosts[i].id] = Fold[d.id]}
           J == {i \in 1..Len(hosts) : Fold[hosts[i].fqdn] = Fold[d.fqdn]}
<1>1. IsLastOf(IF I # {} THEN Max(I) ELSE 0, I) /\ IsLastOf(IF J # {} THEN Max(J) ELSE 0, J)
    BY LastOf
<1>2. IndexByID(hosts, Fold[d.id]) \in 0..Len(hosts)
    BY <1>1 DEF IndexByID, SelectLastInSeq, IsLastOf
<1>3. IndexByFQDN(hosts, Fold[d.fqdn]) \in 0..Len(hosts)
    BY <1>1 DEF IndexByFQDN, SelectLastInSeq, IsLastOf
<1> QED
    BY <1>2, <1>3 DEF LookupActualHost

LEMMA DriftMeans ==
    ASSUME NEW c, NEW d, NEW a, Detect(c, d, a) = "drift"
    PROVE  /\ Wanted(d, c)
           /\ ~(IsSourceHealthy(a, Cadvisor) /\ HasWorkload(a, c))
           /\ c = NodeExporter => IsSourceHealthy(a, Cadvisor)
BY RegisteredAssumption
   DEF Detect, NodeExporterDetect, CadvisorDetect, NodeExporter, Cadvisor, Components

\* The FQDN of a command is one of the names in the two answers.
LEMMA CommandKeyType ==
    ASSUME TypeOK, NEW p \in Callers, pc[p] \in Examining, comp[p] <= Len(Enabled)
    PROVE  CommandKey(p) \in Key /\ Component(p) \in Components
<1>1. actual[p] \in ActualStates /\ desired[p] \in DesiredStates
    BY DEF TypeOK, LocalsInPlace
<1>2. actual[p].hosts \in Seq(ActualHosts) /\ desired[p].hosts \in Seq(DesiredHosts)
    BY <1>1, StatesAssumption
<1>3. MatchedHost(p) \in 1..Len(actual[p].hosts)
    <2>1. MatchedHost(p) \in 0..Len(actual[p].hosts)
        BY <1>2, LookupRange DEF MatchedHost
    <2>2. MatchedHost(p) # 0
        BY DEF TypeOK, LocalsInPlace
    <2> QED
        BY <1>2, <2>1, <2>2
<1>4. host[p] \in 1..Len(desired[p].hosts)
    BY <1>2 DEF TypeOK, LocalsTypeOK, LocalsInPlace, Examining
<1>5. DesiredHost(p) \in DesiredHosts /\ actual[p].hosts[MatchedHost(p)] \in ActualHosts
    BY <1>2, <1>3, <1>4 DEF DesiredHost
<1>6. TargetFQDN(DesiredHost(p), actual[p].hosts[MatchedHost(p)]) \in Spelling
    BY <1>5 DEF TargetFQDN, DesiredHosts, ActualHosts
<1>7. Component(p) \in Components
    <2>1. comp[p] \in 1..Len(Enabled)
        BY ConstantsAssumption DEF TypeOK, LocalsTypeOK, LocalsInPlace
    <2> QED
        BY <2>1, ConstantsAssumption DEF Component
<1> QED
    BY <1>6, <1>7 DEF CommandKey, BuildKey, Key

------------------------------------------------------------------------------
(* Type correctness: one lemma per action *)

LEMMA EnterTypes ==
    ASSUME TypeOK, NEW p \in Callers, EnterRunCycle(p) PROVE TypeOK'
<1> USE DEF TypeOK, EnterRunCycle
<1>1. ServiceTypeOK' /\ ProcessTypeOK' /\ WorldTypeOK'
    BY DEF ServiceTypeOK, ProcessTypeOK, WorldTypeOK, BeginCycle, process
<1>2. LocalsTypeOK'
    BY NewReportType DEF LocalsTypeOK, InCycle, Examining, Sending, WorldTypeOK
<1>3. LocalsInPlace'
    BY DEF LocalsTypeOK, LocalsInPlace, MatchedHost, DesiredHost, Examining, Sending,
           WorldTypeOK
<1>4. CallersInPlace'
    BY DEF LocalsTypeOK, CallersInPlace, Examining, Sending, process
<1> QED
    BY <1>1, <1>2, <1>3, <1>4

LEMMA RefuseTypes ==
    ASSUME TypeOK, NEW p \in Callers, RefuseRunCycle(p) PROVE TypeOK'
<1> USE DEF TypeOK, RefuseRunCycle
<1>1. ServiceTypeOK' /\ ProcessTypeOK' /\ WorldTypeOK'
    BY DEF ServiceTypeOK, ProcessTypeOK, WorldTypeOK, service, world
<1>2. LocalsTypeOK'
    BY CallersFacts DEF LocalsTypeOK, InCycle, Examining, Sending, locals
<1>3. LocalsInPlace'
    BY CallersFacts DEF LocalsTypeOK, LocalsInPlace, MatchedHost, DesiredHost,
                        Examining, Sending, locals
<1>4. CallersInPlace'
    BY CallersFacts DEF LocalsTypeOK, CallersInPlace, Examining, Sending, process
<1> QED
    BY <1>1, <1>2, <1>3, <1>4

LEMMA PersistTypes ==
    ASSUME TypeOK, NEW p \in Callers, PersistResult(p) PROVE TypeOK'
<1> USE DEF TypeOK, PersistResult, Persist
<1>1. ServiceTypeOK' /\ ProcessTypeOK' /\ WorldTypeOK'
    BY DEF ServiceTypeOK, ProcessTypeOK, WorldTypeOK, process, world, LocalsTypeOK
<1>2. LocalsTypeOK'
    BY DEF LocalsTypeOK, InCycle, Examining, Sending, locals
<1>3. LocalsInPlace'
    BY DEF LocalsTypeOK, LocalsInPlace, MatchedHost, DesiredHost, Examining, Sending,
           locals
<1>4. CallersInPlace'
    BY DEF LocalsTypeOK, CallersInPlace, Examining, Sending, process
<1> QED
    BY <1>1, <1>2, <1>3, <1>4

LEMMA FinishTypes ==
    ASSUME TypeOK, NEW p \in Callers, FinishCycle(p) PROVE TypeOK'
<1> USE DEF TypeOK, FinishCycle
<1>1. ServiceTypeOK' /\ ProcessTypeOK' /\ WorldTypeOK'
    BY DEF ServiceTypeOK, ProcessTypeOK, WorldTypeOK, world
<1>2. LocalsTypeOK'
    BY NewReportType, CallersFacts DEF LocalsTypeOK, InCycle, Examining, Sending
<1>3. LocalsInPlace'
    BY CallersFacts DEF LocalsTypeOK, LocalsInPlace, MatchedHost, DesiredHost,
                        Examining, Sending
<1>4. CallersInPlace'
    BY CallersFacts DEF LocalsTypeOK, CallersInPlace, Examining, Sending, process
<1> QED
    BY <1>1, <1>2, <1>3, <1>4

LEMMA FetchActualTypes ==
    ASSUME TypeOK, NEW p \in Callers, FetchActualState(p) PROVE TypeOK'
<1> USE DEF TypeOK, FetchActualState
<1>1. ServiceTypeOK' /\ ProcessTypeOK' /\ WorldTypeOK'
    BY DEF ServiceTypeOK, ProcessTypeOK, WorldTypeOK, service, process, world
<1>2. LocalsTypeOK'
    BY DEF LocalsTypeOK, InCycle, Examining, Sending
<1>3. LocalsInPlace'
    BY DEF LocalsTypeOK, LocalsInPlace, MatchedHost, DesiredHost, Examining, Sending
<1>4. CallersInPlace'
    BY DEF LocalsTypeOK, CallersInPlace, Examining, Sending, process
<1> QED
    BY <1>1, <1>2, <1>3, <1>4

LEMMA FetchDesiredTypes ==
    ASSUME TypeOK, NEW p \in Callers, FetchDesiredState(p) PROVE TypeOK'
<1> USE DEF TypeOK, FetchDesiredState
<1>1. PICK s \in DesiredStates :
        /\ desired' = [desired EXCEPT ![p] = s]
        /\ report' = [report EXCEPT ![p].partial = actual[p].isPartial \/ ~s.ready,
                                    ![p].desired = Len(s.hosts)]
    OBVIOUS
<1>2. Len(s.hosts) \in Nat /\ (actual[p].isPartial \/ ~s.ready) \in BOOLEAN
    BY StatesAssumption
<1>3. report' \in [Callers -> Reports]
    <2> DEFINE b == actual[p].isPartial \/ ~s.ready
    <2> DEFINE n == Len(s.hosts)
    <2> DEFINE prepared == [report[p] EXCEPT !.partial = b, !.desired = n]
    <2>1. report[p] \in Reports
        BY DEF LocalsTypeOK
    <2>2. prepared \in Reports
        <3>1. b \in BOOLEAN /\ n \in Nat
            BY <1>2
        <3> HIDE DEF b, n
        <3> QED
            BY ONLY <2>1, <3>1, PreparedTypes
    <2>3. report' = [report EXCEPT ![p] = prepared]
        BY <1>1
    <2> QED
        BY <2>2, <2>3 DEF LocalsTypeOK
<1>4. ServiceTypeOK' /\ ProcessTypeOK' /\ WorldTypeOK'
    BY DEF ServiceTypeOK, ProcessTypeOK, WorldTypeOK, service, process, world
<1>5. LocalsTypeOK'
    BY <1>1, <1>3 DEF LocalsTypeOK, InCycle, Examining, Sending
<1>6. LocalsInPlace'
    BY <1>1 DEF LocalsTypeOK, LocalsInPlace, MatchedHost, DesiredHost, Examining,
                Sending
<1>7. CallersInPlace'
    BY DEF LocalsTypeOK, CallersInPlace, Examining, Sending, process
<1> QED
    BY <1>4, <1>5, <1>6, <1>7

LEMMA SkipTypes ==
    ASSUME TypeOK, NEW p \in Callers, SkipHost(p) PROVE TypeOK'
<1> USE DEF TypeOK, SkipHost, LocalStep
<1>1. report'[p] \in Reports
    BY SkippedTypes DEF LocalsTypeOK
<1>2. ServiceTypeOK' /\ ProcessTypeOK' /\ WorldTypeOK'
    BY DEF ServiceTypeOK, ProcessTypeOK, WorldTypeOK, service, process, world
<1>3. LocalsTypeOK'
    BY <1>1 DEF LocalsTypeOK, InCycle, Examining, Sending
<1>4. LocalsInPlace'
    BY DEF LocalsTypeOK, LocalsInPlace, MatchedHost, DesiredHost, Examining, Sending
<1>5. CallersInPlace'
    BY DEF LocalsTypeOK, CallersInPlace, Examining, Sending, process
<1> QED
    BY <1>2, <1>3, <1>4, <1>5

LEMMA CompareTypes ==
    ASSUME TypeOK, NEW p \in Callers, CompareHost(p) PROVE TypeOK'
<1> USE DEF TypeOK, CompareHost, LocalStep
<1>1. ServiceTypeOK' /\ ProcessTypeOK' /\ WorldTypeOK'
    BY DEF ServiceTypeOK, ProcessTypeOK, WorldTypeOK, service, process, world
<1>2. LocalsTypeOK'
    BY OneFieldTypes DEF LocalsTypeOK, InCycle, Examining, Sending
<1>3. LocalsInPlace'
    BY DEF LocalsTypeOK, LocalsInPlace, MatchedHost, DesiredHost, Examining, Sending
<1>4. CallersInPlace'
    BY DEF LocalsTypeOK, CallersInPlace, Examining, Sending, process
<1> QED
    BY <1>1, <1>2, <1>3, <1>4

LEMMA HostsComparedTypes ==
    ASSUME TypeOK, NEW p \in Callers, HostsCompared(p) PROVE TypeOK'
<1> USE DEF TypeOK, HostsCompared, LocalStep
<1>1. ServiceTypeOK' /\ ProcessTypeOK' /\ WorldTypeOK'
    BY DEF ServiceTypeOK, ProcessTypeOK, WorldTypeOK, service, process, world
<1>2. LocalsTypeOK'
    BY DEF LocalsTypeOK, InCycle, Examining, Sending
<1>3. LocalsInPlace'
    BY DEF LocalsTypeOK, LocalsInPlace, MatchedHost, DesiredHost, Examining, Sending
<1>4. CallersInPlace'
    BY DEF LocalsTypeOK, CallersInPlace, Examining, Sending, process
<1> QED
    BY <1>1, <1>2, <1>3, <1>4

LEMMA ComponentsComparedTypes ==
    ASSUME TypeOK, NEW p \in Callers, ComponentsCompared(p) PROVE TypeOK'
<1> USE DEF TypeOK, ComponentsCompared, LocalStep
<1>1. ServiceTypeOK' /\ ProcessTypeOK' /\ WorldTypeOK'
    BY DEF ServiceTypeOK, ProcessTypeOK, WorldTypeOK, service, process, world
<1>2. LocalsTypeOK'
    BY DEF LocalsTypeOK, InCycle, Examining, Sending
<1>3. LocalsInPlace'
    BY DEF LocalsTypeOK, LocalsInPlace, MatchedHost, DesiredHost, Examining, Sending
<1>4. CallersInPlace'
    BY DEF LocalsTypeOK, CallersInPlace, Examining, Sending, process
<1> QED
    BY <1>1, <1>2, <1>3, <1>4

LEMMA NoDriftTypes ==
    ASSUME TypeOK, NEW p \in Callers, NoDrift(p) PROVE TypeOK'
<1> USE DEF TypeOK, NoDrift, LocalStep
<1>1. ServiceTypeOK' /\ ProcessTypeOK' /\ WorldTypeOK'
    BY DEF ServiceTypeOK, ProcessTypeOK, WorldTypeOK, service, process, world
<1>2. LocalsTypeOK'
    BY ConcludedTypes DEF LocalsTypeOK, InCycle, Examining, Sending
<1>3. LocalsInPlace'
    BY DEF LocalsTypeOK, LocalsInPlace, MatchedHost, DesiredHost, Examining, Sending
<1>4. CallersInPlace'
    BY DEF LocalsTypeOK, CallersInPlace, Examining, Sending, process
<1> QED
    BY <1>1, <1>2, <1>3, <1>4

LEMMA SuppressTypes ==
    ASSUME TypeOK, NEW p \in Callers, SuppressDrift(p) PROVE TypeOK'
<1> USE DEF TypeOK, SuppressDrift, LocalStep
<1>1. ServiceTypeOK' /\ ProcessTypeOK' /\ WorldTypeOK'
    BY DEF ServiceTypeOK, ProcessTypeOK, WorldTypeOK, service, process, world
<1>2. LocalsTypeOK'
    BY CountSuppressedTypes DEF LocalsTypeOK, InCycle, Examining, Sending
<1>3. LocalsInPlace'
    BY DEF LocalsTypeOK, LocalsInPlace, MatchedHost, DesiredHost, Examining, Sending
<1>4. CallersInPlace'
    BY DEF LocalsTypeOK, CallersInPlace, Examining, Sending, process
<1> QED
    BY <1>1, <1>2, <1>3, <1>4

LEMMA DecideTypes ==
    ASSUME TypeOK, NEW p \in Callers, DecideCommand(p) PROVE TypeOK'
<1> USE DEF TypeOK, DecideCommand
<1>1. CommandKey(p) \in Key
    BY CommandKeyType DEF Examining
<1>2. cmd' \in [Callers -> Commands \cup {NoCommand}] /\ cmd'[p] \in Commands
    BY <1>1 DEF LocalsTypeOK, WorldTypeOK, Commands, Reports
<1>3. ServiceTypeOK' /\ ProcessTypeOK' /\ WorldTypeOK'
    BY DEF ServiceTypeOK, ProcessTypeOK, WorldTypeOK, service, process, world
<1>4. LocalsTypeOK'
    BY <1>2, OneFieldTypes DEF LocalsTypeOK, InCycle, Examining, Sending
<1>5. LocalsInPlace'
    BY <1>2 DEF LocalsTypeOK, LocalsInPlace, MatchedHost, DesiredHost, Examining,
                Sending
<1>6. CallersInPlace'
    BY DEF LocalsTypeOK, CallersInPlace, Examining, Sending, process
<1> QED
    BY <1>3, <1>4, <1>5, <1>6

\* A step of the retry loop, whatever made the request fail.
LEMMA GiveUpTypes ==
    ASSUME TypeOK, NEW p \in Callers, GiveUp(p), CallUnchanged, sleeping'[p] = FALSE,
           pc[p] \in {"inventory", "parser", "send", "wait"},
           sleeping' \in [Callers -> BOOLEAN],
           \A q \in Callers : q # p => sleeping'[q] = sleeping[q]
    PROVE  LocalsTypeOK' /\ LocalsInPlace' /\ CallersInPlace'
<1> USE DEF TypeOK, GiveUp, CallUnchanged
<1>1. report' \in [Callers -> Reports]
    BY OneFieldTypes DEF LocalsTypeOK
<1>2. pc' \in [Callers -> InCycle \cup {"off", "idle", "call"}]
    BY DEF LocalsTypeOK, InCycle, Examining
<1>3. LocalsTypeOK'
    BY <1>1, <1>2 DEF LocalsTypeOK
<1>4. LocalsInPlace'
    BY DEF LocalsTypeOK, LocalsInPlace, MatchedHost, DesiredHost, Examining, Sending
<1>5. CallersInPlace'
    BY DEF LocalsTypeOK, CallersInPlace, process
<1> QED
    BY <1>3, <1>4, <1>5

LEMMA CallFailsTypes ==
    ASSUME TypeOK, NEW p \in Callers, NEW retryable \in BOOLEAN,
           CallFails(p, retryable), CallUnchanged, wire' \subseteq wire, taken' = taken,
           ~sleeping[p], pc[p] \in {"inventory", "parser", "send", "wait"}
    PROVE  TypeOK'
<1> USE DEF TypeOK, CallUnchanged
<1>1. ServiceTypeOK' /\ ProcessTypeOK' /\ WorldTypeOK'
    BY DEF ServiceTypeOK, ProcessTypeOK, WorldTypeOK, service, process
<1>2. CASE MayRetry(p, retryable)
    <2>1. LocalsTypeOK'
        BY <1>2 DEF CallFails, LocalsTypeOK, InCycle, Examining, Sending
    <2>2. LocalsInPlace'
        BY <1>2 DEF CallFails, LocalsTypeOK, LocalsInPlace, MatchedHost, DesiredHost,
                    Examining, Sending
    <2>3. CallersInPlace'
        BY <1>2 DEF CallFails, LocalsTypeOK, CallersInPlace, process
    <2> QED
        BY <1>1, <2>1, <2>2, <2>3
<1>3. CASE ~MayRetry(p, retryable)
    <2>1. GiveUp(p) /\ sleeping' = sleeping
        BY <1>3 DEF CallFails
    <2>2. LocalsTypeOK' /\ LocalsInPlace' /\ CallersInPlace'
        BY <2>1, GiveUpTypes DEF LocalsTypeOK
    <2> QED
        BY <1>1, <2>2
<1> QED
    BY <1>2, <1>3

LEMMA PauseCancelledTypes ==
    ASSUME TypeOK, NEW p \in Callers, PauseCancelled(p) PROVE TypeOK'
<1>1. ServiceTypeOK' /\ ProcessTypeOK' /\ WorldTypeOK'
    BY DEF TypeOK, PauseCancelled, CallUnchanged, ServiceTypeOK, ProcessTypeOK,
           WorldTypeOK, service, process
<1>2. pc[p] \in {"inventory", "parser", "send", "wait"}
    BY DEF TypeOK, PauseCancelled, LocalsInPlace
<1>3. LocalsTypeOK' /\ LocalsInPlace' /\ CallersInPlace'
    BY <1>2, GiveUpTypes DEF PauseCancelled, TypeOK, LocalsTypeOK
<1> QED
    BY <1>1, <1>3 DEF TypeOK

LEMMA FetchFailsTypes ==
    ASSUME TypeOK, NEW p \in Callers, FetchFails(p) PROVE TypeOK'
BY CallFailsTypes DEF FetchFails

LEMMA SendCancelledTypes ==
    ASSUME TypeOK, NEW p \in Callers, SendCancelled(p) PROVE TypeOK'
BY CallFailsTypes DEF SendCancelled

LEMMA NoReplyTypes ==
    ASSUME TypeOK, NEW p \in Callers, NoReply(p) PROVE TypeOK'
<1>1. ~sleeping[p]
    BY DEF TypeOK, LocalsInPlace, NoReply
<1> QED
    BY <1>1, CallFailsTypes DEF NoReply

LEMMA RefusedTypes ==
    ASSUME TypeOK, NEW p \in Callers, Refused(p) PROVE TypeOK'
<1>1. ~sleeping[p]
    BY DEF TypeOK, LocalsInPlace, Refused
<1> QED
    BY <1>1, CallFailsTypes DEF Refused

LEMMA UnreadableTypes ==
    ASSUME TypeOK, NEW p \in Callers, UnreadableReply(p) PROVE TypeOK'
<1>1. ~sleeping[p]
    BY DEF TypeOK, LocalsInPlace, UnreadableReply
<1> QED
    BY <1>1, CallFailsTypes DEF UnreadableReply

LEMMA PauseEndsTypes ==
    ASSUME TypeOK, NEW p \in Callers, PauseEnds(p) PROVE TypeOK'
<1> USE DEF TypeOK, PauseEnds, CallUnchanged
<1>1. ServiceTypeOK' /\ ProcessTypeOK' /\ WorldTypeOK'
    BY DEF ServiceTypeOK, ProcessTypeOK, WorldTypeOK, service, process
<1>2. LocalsTypeOK'
    BY DEF LocalsTypeOK, InCycle, Examining, Sending, NextAttempt
<1>3. LocalsInPlace'
    BY DEF LocalsTypeOK, LocalsInPlace, MatchedHost, DesiredHost, Examining, Sending,
           NextAttempt
<1>4. CallersInPlace'
    BY DEF LocalsTypeOK, CallersInPlace, Examining, Sending, process
<1> QED
    BY <1>1, <1>2, <1>3, <1>4

LEMMA SendPostTypes ==
    ASSUME TypeOK, NEW p \in Callers, SendPost(p) PROVE TypeOK'
<1> USE DEF TypeOK, SendPost, CallUnchanged
<1>1. Post(cmd[p], attempt[p]) \in Posts
    BY DEF Post, Posts, LocalsTypeOK, LocalsInPlace, Sending
<1>2. ServiceTypeOK' /\ ProcessTypeOK' /\ WorldTypeOK'
    BY <1>1 DEF ServiceTypeOK, ProcessTypeOK, WorldTypeOK, service, process
<1>3. LocalsTypeOK'
    BY DEF LocalsTypeOK, InCycle, Examining, Sending
<1>4. LocalsInPlace'
    BY DEF LocalsTypeOK, LocalsInPlace, MatchedHost, DesiredHost, Examining, Sending
<1>5. CallersInPlace'
    BY DEF LocalsTypeOK, CallersInPlace, Examining, Sending, process
<1> QED
    BY <1>2, <1>3, <1>4, <1>5

LEMMA AcknowledgedTypes ==
    ASSUME TypeOK, NEW p \in Callers, Acknowledged(p) PROVE TypeOK'
<1> USE DEF TypeOK, Acknowledged
<1>1. ServiceTypeOK' /\ ProcessTypeOK' /\ WorldTypeOK'
    BY DEF ServiceTypeOK, ProcessTypeOK, WorldTypeOK, service, process, world
<1>2. LocalsTypeOK'
    BY DEF LocalsTypeOK, InCycle, Examining, Sending, locals
<1>3. LocalsInPlace'
    BY DEF LocalsTypeOK, LocalsInPlace, MatchedHost, DesiredHost, Examining, Sending,
           locals
<1>4. CallersInPlace'
    BY DEF LocalsTypeOK, CallersInPlace, Examining, Sending, process
<1> QED
    BY <1>1, <1>2, <1>3, <1>4

LEMMA MarkTypes ==
    ASSUME TypeOK, NEW p \in Callers, MarkCommand(p) PROVE TypeOK'
<1> USE DEF TypeOK, MarkCommand, MarkSent
<1>1. cmd[p] \in Commands /\ cmd[p].key \in Key /\ cmd[p].decided \in Nat
    BY DEF LocalsInPlace, Commands, Sending
<1>2. report' \in [Callers -> Reports]
    BY OneFieldTypes DEF LocalsTypeOK
<1>3. ServiceTypeOK' /\ ProcessTypeOK' /\ WorldTypeOK'
    BY <1>1 DEF ServiceTypeOK, ProcessTypeOK, WorldTypeOK, process
<1>4. LocalsTypeOK'
    BY <1>2 DEF LocalsTypeOK, InCycle, Examining, Sending
<1>5. LocalsInPlace'
    BY DEF LocalsTypeOK, LocalsInPlace, MatchedHost, DesiredHost, Examining, Sending
<1>6. CallersInPlace'
    BY DEF LocalsTypeOK, CallersInPlace, Examining, Sending, process
<1> QED
    BY <1>3, <1>4, <1>5, <1>6

LEMMA CallerStepTypes ==
    ASSUME TypeOK, NEW p \in Callers, CallerStep(p) PROVE TypeOK'
BY EnterTypes, RefuseTypes, PersistTypes, FinishTypes, PauseEndsTypes,
   PauseCancelledTypes, FetchActualTypes, FetchDesiredTypes, FetchFailsTypes, SkipTypes,
   CompareTypes, HostsComparedTypes, ComponentsComparedTypes, NoDriftTypes,
   SuppressTypes, DecideTypes, SendPostTypes, SendCancelledTypes, NoReplyTypes,
   RefusedTypes, UnreadableTypes, AcknowledgedTypes, MarkTypes
   DEF CallerStep

LEMMA ManualTypes ==
    ASSUME TypeOK, NEW p \in Manual, ManualTrigger(p) PROVE TypeOK'
<1> USE DEF TypeOK, ManualTrigger
<1>1. ServiceTypeOK' /\ ProcessTypeOK' /\ WorldTypeOK'
    BY DEF ServiceTypeOK, ProcessTypeOK, WorldTypeOK, service, process, world
<1>2. LocalsTypeOK'
    BY CallersFacts DEF LocalsTypeOK, locals
<1>3. LocalsInPlace'
    BY CallersFacts DEF LocalsTypeOK, LocalsInPlace, MatchedHost, DesiredHost,
                        Examining, Sending, locals
<1>4. CallersInPlace'
    BY CallersFacts DEF LocalsTypeOK, CallersInPlace, process
<1> QED
    BY <1>1, <1>2, <1>3, <1>4

LEMMA ClientGoneTypes ==
    ASSUME TypeOK, NEW p \in Manual, ClientGone(p) PROVE TypeOK'
<1> USE DEF TypeOK, ClientGone
<1>1. ServiceTypeOK' /\ ProcessTypeOK' /\ WorldTypeOK'
    BY CallersFacts DEF ServiceTypeOK, ProcessTypeOK, WorldTypeOK, service, world
<1>2. LocalsTypeOK'
    BY DEF LocalsTypeOK, locals
<1>3. LocalsInPlace'
    BY DEF LocalsTypeOK, LocalsInPlace, MatchedHost, DesiredHost, Examining, Sending,
           locals
<1>4. CallersInPlace'
    BY DEF LocalsTypeOK, CallersInPlace, process
<1> QED
    BY <1>1, <1>2, <1>3, <1>4

LEMMA TakeTypes ==
    ASSUME TypeOK, NEW post \in wire, Take(post) PROVE TypeOK'
<1> USE DEF TypeOK, Take, PeerUnchanged
<1>1. ServiceTypeOK' /\ ProcessTypeOK' /\ WorldTypeOK'
    BY DEF ServiceTypeOK, ProcessTypeOK, WorldTypeOK, service, process
<1>2. LocalsTypeOK'
    BY DEF LocalsTypeOK, locals
<1>3. LocalsInPlace'
    BY DEF LocalsTypeOK, LocalsInPlace, MatchedHost, DesiredHost, Examining, Sending,
           locals
<1>4. CallersInPlace'
    BY DEF LocalsTypeOK, CallersInPlace, process
<1> QED
    BY <1>1, <1>2, <1>3, <1>4

LEMMA LoseTypes ==
    ASSUME TypeOK, NEW post \in wire, Lose(post) PROVE TypeOK'
<1> USE DEF TypeOK, Lose, PeerUnchanged
<1>1. ServiceTypeOK' /\ ProcessTypeOK' /\ WorldTypeOK'
    BY DEF ServiceTypeOK, ProcessTypeOK, WorldTypeOK, service, process
<1>2. LocalsTypeOK'
    BY DEF LocalsTypeOK, locals
<1>3. LocalsInPlace'
    BY DEF LocalsTypeOK, LocalsInPlace, MatchedHost, DesiredHost, Examining, Sending,
           locals
<1>4. CallersInPlace'
    BY DEF LocalsTypeOK, CallersInPlace, process
<1> QED
    BY <1>1, <1>2, <1>3, <1>4

LEMMA StartServingTypes ==
    ASSUME TypeOK, StartServing PROVE TypeOK'
<1> USE DEF TypeOK, StartServing, CallersInPlace
<1>1. ServiceTypeOK' /\ ProcessTypeOK' /\ WorldTypeOK'
    BY DEF ServiceTypeOK, ProcessTypeOK, WorldTypeOK, service, world
<1>2. LocalsTypeOK'
    BY DEF LocalsTypeOK, locals, StartupOver
<1>3. LocalsInPlace'
    BY DEF LocalsTypeOK, LocalsInPlace, MatchedHost, DesiredHost, Examining, Sending,
           locals, StartupOver
<1>4. CallersInPlace'
    BY DEF LocalsTypeOK, CallersInPlace, process
<1> QED
    BY <1>1, <1>2, <1>3, <1>4

LEMMA TickTypes ==
    ASSUME TypeOK, Tick PROVE TypeOK'
<1> USE DEF TypeOK, Tick
<1>1. ServiceTypeOK' /\ ProcessTypeOK' /\ WorldTypeOK'
    BY DEF ServiceTypeOK, ProcessTypeOK, WorldTypeOK, service, world
<1>2. LocalsTypeOK'
    BY DEF LocalsTypeOK, locals
<1>3. LocalsInPlace'
    BY DEF LocalsTypeOK, LocalsInPlace, MatchedHost, DesiredHost, Examining, Sending,
           locals
<1>4. CallersInPlace'
    BY DEF LocalsTypeOK, CallersInPlace, process
<1> QED
    BY <1>1, <1>2, <1>3, <1>4

LEMMA ReceiveTypes ==
    ASSUME TypeOK, SchedulerReceivesTick PROVE TypeOK'
<1> USE DEF TypeOK, SchedulerReceivesTick
<1>1. ServiceTypeOK' /\ ProcessTypeOK' /\ WorldTypeOK'
    BY DEF ServiceTypeOK, ProcessTypeOK, WorldTypeOK, service, world
<1>2. LocalsTypeOK'
    BY CallersFacts DEF LocalsTypeOK, locals
<1>3. LocalsInPlace'
    BY CallersFacts DEF LocalsTypeOK, LocalsInPlace, MatchedHost, DesiredHost,
                        Examining, Sending, locals
<1>4. CallersInPlace'
    BY CallersFacts DEF LocalsTypeOK, CallersInPlace, process
<1> QED
    BY <1>1, <1>2, <1>3, <1>4

LEMMA SchedulerStopsTypes ==
    ASSUME TypeOK, SchedulerStops PROVE TypeOK'
<1> USE DEF TypeOK, SchedulerStops
<1>1. ServiceTypeOK' /\ ProcessTypeOK' /\ WorldTypeOK'
    BY DEF ServiceTypeOK, ProcessTypeOK, WorldTypeOK, service, process, world
<1>2. LocalsTypeOK'
    BY CallersFacts DEF LocalsTypeOK, locals
<1>3. LocalsInPlace'
    BY CallersFacts DEF LocalsTypeOK, LocalsInPlace, MatchedHost, DesiredHost,
                        Examining, Sending, locals
<1>4. CallersInPlace'
    BY CallersFacts DEF LocalsTypeOK, CallersInPlace, process
<1> QED
    BY <1>1, <1>2, <1>3, <1>4

LEMMA ReadsResultTypes ==
    ASSUME TypeOK, NEW r \in Readers, ReadyzReadsResult(r) PROVE TypeOK'
<1> USE DEF TypeOK, ReadyzReadsResult
<1>1. ServiceTypeOK' /\ ProcessTypeOK' /\ WorldTypeOK'
    BY DEF ServiceTypeOK, ProcessTypeOK, WorldTypeOK, service, world, Probes, Reports,
           NoResult
<1>2. LocalsTypeOK'
    BY DEF LocalsTypeOK, locals
<1>3. LocalsInPlace'
    BY DEF LocalsTypeOK, LocalsInPlace, MatchedHost, DesiredHost, Examining, Sending,
           locals
<1>4. CallersInPlace'
    BY DEF LocalsTypeOK, CallersInPlace, process
<1> QED
    BY <1>1, <1>2, <1>3, <1>4

LEMMA RepliesTypes ==
    ASSUME TypeOK, NEW r \in Readers, ReadyzReplies(r) PROVE TypeOK'
<1> USE DEF TypeOK, ReadyzReplies
<1>1. ServiceTypeOK' /\ ProcessTypeOK' /\ WorldTypeOK'
    BY DEF ServiceTypeOK, ProcessTypeOK, WorldTypeOK, service, world, Probes, NoProbe
<1>2. LocalsTypeOK'
    BY DEF LocalsTypeOK, locals
<1>3. LocalsInPlace'
    BY DEF LocalsTypeOK, LocalsInPlace, MatchedHost, DesiredHost, Examining, Sending,
           locals
<1>4. CallersInPlace'
    BY DEF LocalsTypeOK, CallersInPlace, process
<1> QED
    BY <1>1, <1>2, <1>3, <1>4

LEMMA SignalTypes ==
    ASSUME TypeOK, Signal PROVE TypeOK'
<1> USE DEF TypeOK, Signal
<1>1. ServiceTypeOK' /\ ProcessTypeOK' /\ WorldTypeOK'
    BY DEF ServiceTypeOK, ProcessTypeOK, WorldTypeOK, service, world
<1>2. LocalsTypeOK'
    BY DEF LocalsTypeOK, locals
<1>3. LocalsInPlace'
    BY DEF LocalsTypeOK, LocalsInPlace, MatchedHost, DesiredHost, Examining, Sending,
           locals
<1>4. CallersInPlace'
    BY DEF LocalsTypeOK, CallersInPlace, process
<1> QED
    BY <1>1, <1>2, <1>3, <1>4

LEMMA DrainTypes ==
    ASSUME TypeOK, Drain PROVE TypeOK'
<1> USE DEF TypeOK, Drain
<1>1. ServiceTypeOK' /\ ProcessTypeOK' /\ WorldTypeOK'
    BY DEF ServiceTypeOK, ProcessTypeOK, WorldTypeOK, service, world
<1>2. LocalsTypeOK'
    BY DEF LocalsTypeOK, locals
<1>3. LocalsInPlace'
    BY DEF LocalsTypeOK, LocalsInPlace, MatchedHost, DesiredHost, Examining, Sending,
           locals
<1>4. CallersInPlace'
    BY DEF LocalsTypeOK, CallersInPlace, process
<1> QED
    BY <1>1, <1>2, <1>3, <1>4

LEMMA ExitTypes ==
    ASSUME TypeOK, Exit PROVE TypeOK'
<1> USE DEF TypeOK, Exit
<1>1. ServiceTypeOK' /\ ProcessTypeOK' /\ WorldTypeOK'
    BY DEF ServiceTypeOK, ProcessTypeOK, WorldTypeOK, Never, Probes
<1>2. LocalsTypeOK'
    BY NewReportType DEF LocalsTypeOK, NoState
<1>3. LocalsInPlace'
    BY NewReportType DEF LocalsTypeOK, LocalsInPlace, MatchedHost, DesiredHost,
                         Examining, Sending, NoState
<1>4. CallersInPlace'
    BY NewReportType DEF LocalsTypeOK, CallersInPlace, process
<1> QED
    BY <1>1, <1>2, <1>3, <1>4

LEMMA RestartTypes ==
    ASSUME TypeOK, Restart PROVE TypeOK'
<1> USE DEF TypeOK, Restart, CallersInPlace
<1>1. ServiceTypeOK' /\ ProcessTypeOK' /\ WorldTypeOK'
    BY DEF ServiceTypeOK, ProcessTypeOK, WorldTypeOK, service
<1>2. LocalsTypeOK'
    BY CallersFacts DEF LocalsTypeOK, locals
<1>3. LocalsInPlace'
    BY CallersFacts DEF LocalsTypeOK, LocalsInPlace, MatchedHost, DesiredHost,
                        Examining, Sending, locals
<1>4. CallersInPlace'
    BY CallersFacts DEF LocalsTypeOK, CallersInPlace, process
<1> QED
    BY <1>1, <1>2, <1>3, <1>4

LEMMA ClockTickTypes ==
    ASSUME TypeOK, ClockTick PROVE TypeOK'
<1> USE DEF TypeOK, ClockTick
<1>1. ServiceTypeOK' /\ ProcessTypeOK' /\ WorldTypeOK'
    BY DEF ServiceTypeOK, ProcessTypeOK, WorldTypeOK, service, process
<1>2. LocalsTypeOK'
    BY DEF LocalsTypeOK, locals
<1>3. LocalsInPlace'
    BY DEF LocalsTypeOK, LocalsInPlace, MatchedHost, DesiredHost, Examining, Sending,
           locals
<1>4. CallersInPlace'
    BY DEF LocalsTypeOK, CallersInPlace, process
<1> QED
    BY <1>1, <1>2, <1>3, <1>4

LEMMA StutterTypes ==
    ASSUME TypeOK, UNCHANGED vars PROVE TypeOK'
<1> USE DEF TypeOK, vars
<1>1. ServiceTypeOK' /\ ProcessTypeOK' /\ WorldTypeOK'
    BY DEF ServiceTypeOK, ProcessTypeOK, WorldTypeOK, service, process, world
<1>2. LocalsTypeOK'
    BY DEF LocalsTypeOK, locals
<1>3. LocalsInPlace'
    BY DEF LocalsTypeOK, LocalsInPlace, MatchedHost, DesiredHost, Examining, Sending,
           locals
<1>4. CallersInPlace'
    BY DEF LocalsTypeOK, CallersInPlace, process
<1> QED
    BY <1>1, <1>2, <1>3, <1>4

------------------------------------------------------------------------------
(* Type correctness: the theorem *)

\* Every variable keeps its type, and the locals a step of a cycle reads were set by
\* the steps before it, in every state of the service.
THEOREM TypeCorrect == Spec => []TypeOK
<1>1. Init => TypeOK
    BY InitTypes
<1>2. TypeOK /\ [Next]_vars => TypeOK'
    <2> SUFFICES ASSUME TypeOK, [Next]_vars PROVE TypeOK'
        OBVIOUS
    <2>1. CASE Next
        BY <2>1, CallerStepTypes, ManualTypes, ClientGoneTypes, TakeTypes, LoseTypes,
           StartServingTypes, TickTypes, ReceiveTypes, SchedulerStopsTypes,
           ReadsResultTypes, RepliesTypes, SignalTypes, DrainTypes, ExitTypes,
           RestartTypes, ClockTickTypes, StutterTypes
           DEF Next, Stopped
    <2>2. CASE UNCHANGED vars
        BY <2>2, StutterTypes
    <2> QED
        BY <2>1, <2>2
<1> QED
    BY <1>1, <1>2, PTL DEF Spec

------------------------------------------------------------------------------
(* Cycles exclude each other *)

\* The calls' activity and the lock are as before.
KeepsActivity == running' = running /\ \A p \in Callers : Active(p)' = Active(p)

\* Only the ends of a cycle and of the process change either.
LEMMA ActivityChanges ==
    ASSUME TypeOK, Next
    PROVE  \/ \E p \in Callers : EnterRunCycle(p) \/ FinishCycle(p)
           \/ Exit
           \/ KeepsActivity
<1> USE DEF KeepsActivity, Active, InCycle, Examining, Sending
<1>1. ASSUME NEW p \in Callers, CallerStep(p), ~EnterRunCycle(p), ~FinishCycle(p)
      PROVE  KeepsActivity
    <2> USE DEF TypeOK, LocalsTypeOK
    <2>1. CASE RefuseRunCycle(p)
        BY <2>1, CallersFacts DEF RefuseRunCycle, service
    <2>2. CASE PersistResult(p)
        BY <2>2 DEF PersistResult, Persist
    <2>3. CASE PauseEnds(p)
        BY <2>3 DEF PauseEnds, CallUnchanged, service
    <2>4. ASSUME GiveUp(p), service' = service,
                 pc[p] \in {"inventory", "parser", "send", "wait"}
          PROVE  KeepsActivity
        BY <2>4 DEF GiveUp, service
    <2>5. CASE PauseCancelled(p)
        BY <2>4, <2>5 DEF PauseCancelled, CallUnchanged, LocalsInPlace
    <2>6. ASSUME NEW b, CallFails(p, b), service' = service,
                 pc[p] \in {"inventory", "parser", "send", "wait"}
          PROVE  KeepsActivity
        BY <2>4, <2>6 DEF CallFails, service
    <2>7. CASE FetchFails(p) \/ SendCancelled(p) \/ NoReply(p) \/ Refused(p)
               \/ UnreadableReply(p)
        BY <2>6, <2>7 DEF FetchFails, SendCancelled, NoReply, Refused, UnreadableReply,
                          CallUnchanged
    <2>8. CASE FetchActualState(p) \/ FetchDesiredState(p)
        BY <2>8 DEF FetchActualState, FetchDesiredState, service
    <2>9. CASE SkipHost(p) \/ CompareHost(p) \/ HostsCompared(p) \/ ComponentsCompared(p)
               \/ NoDrift(p) \/ SuppressDrift(p)
        BY <2>9 DEF SkipHost, CompareHost, HostsCompared, ComponentsCompared, NoDrift,
                    SuppressDrift, LocalStep, service
    <2>10. CASE DecideCommand(p)
        BY <2>10 DEF DecideCommand, service
    <2>11. CASE SendPost(p) \/ Acknowledged(p) \/ MarkCommand(p)
        BY <2>11 DEF SendPost, Acknowledged, MarkCommand, CallUnchanged, service
    <2> QED
        BY <1>1, <2>1, <2>2, <2>3, <2>5, <2>7, <2>8, <2>9, <2>10, <2>11 DEF CallerStep
<1>2. ASSUME NEW p \in Manual, ManualTrigger(p) \/ ClientGone(p)
      PROVE  KeepsActivity
    BY <1>2, CallersFacts DEF ManualTrigger, ClientGone, service, TypeOK, LocalsTypeOK
<1>3. ASSUME NEW post \in wire, Take(post) \/ Lose(post)
      PROVE  KeepsActivity
    BY <1>3 DEF Take, Lose, PeerUnchanged, service
<1>4. CASE StartServing
    BY <1>4 DEF StartServing, service, TypeOK, LocalsTypeOK, CallersInPlace
<1>5. CASE SchedulerReceivesTick \/ SchedulerStops
    BY <1>5, CallersFacts DEF SchedulerReceivesTick, SchedulerStops, service, TypeOK,
                              LocalsTypeOK
<1>6. ASSUME NEW r \in Readers, ReadyzReadsResult(r) \/ ReadyzReplies(r)
      PROVE  KeepsActivity
    BY <1>6 DEF ReadyzReadsResult, ReadyzReplies, service
<1>7. CASE Tick \/ Signal \/ Drain \/ ClockTick \/ Stopped
    BY <1>7 DEF Tick, Signal, Drain, ClockTick, Stopped, vars, service
<1>8. CASE Restart
    BY <1>8, CallersFacts DEF Restart, service, TypeOK, LocalsTypeOK, CallersInPlace
<1> QED
    BY <1>1, <1>2, <1>3, <1>4, <1>5, <1>6, <1>7, <1>8 DEF Next

LEMMA LockStep ==
    ASSUME TypeOK, CycleLock, [Next]_vars
    PROVE  CycleLock'
<1>1. ASSUME NEW p \in Callers, EnterRunCycle(p)
      PROVE  CycleLock'
    <2>1. \A q \in Callers : ~Active(q)
        BY <1>1 DEF CycleLock, EnterRunCycle, BeginCycle
    <2>2. \A q \in Callers : Active(q)' <=> q = p
        BY <1>1, <2>1 DEF EnterRunCycle, Active, InCycle, TypeOK, LocalsTypeOK
    <2> QED
        BY <1>1, <2>2 DEF CycleLock, EnterRunCycle, BeginCycle
<1>2. ASSUME NEW p \in Callers, FinishCycle(p)
      PROVE  CycleLock'
    <2>1. \A q \in Callers : Active(q) => q = p
        BY <1>2 DEF CycleLock, FinishCycle, Active, InCycle
    <2>2. \A q \in Callers : ~Active(q)'
        BY <1>2, <2>1, CallersFacts DEF FinishCycle, Active, InCycle, Examining,
                                        Sending,
                                        TypeOK, LocalsTypeOK
    <2> QED
        BY <1>2, <2>2 DEF CycleLock, FinishCycle
<1>3. CASE Exit
    BY <1>3 DEF Exit, CycleLock, Active, InCycle, Examining, Sending
<1>4. CASE KeepsActivity
    BY <1>4 DEF KeepsActivity, CycleLock
<1>5. CASE UNCHANGED vars
    BY <1>5 DEF CycleLock, Active, vars, service
<1> QED
    BY <1>1, <1>2, <1>3, <1>4, <1>5, ActivityChanges

\* At most one caller of RunCycle is inside a cycle, and the running flag is set exactly
\* while one is: no way out of a cycle keeps the lock, no refused caller releases it.
THEOREM CyclesExclude == Spec => []CycleLock
<1>1. Init => CycleLock
    BY DEF Init, NewProcess, CycleLock, Active, InCycle, Examining, Sending
<1>2. TypeOK /\ CycleLock /\ [Next]_vars => CycleLock'
    BY LockStep
<1> QED
    BY <1>1, <1>2, TypeCorrect, PTL DEF Spec

------------------------------------------------------------------------------
(* Sends of one component and FQDN keep their distance *)

\* The cycle that runs has the newest id.
CyclesNumbered == \A p \in Callers : Active(p) => report[p].cycle = cycles

SentInPast == \A k \in Key : lastSent[k] <= clock

\* The store has not changed for the key of a command in flight since it was decided:
\* this is what the lock is for.
CommandsFresh ==
    \A p \in Callers : pc[p] \in Sending =>
        /\ cmd[p].cycle = cycles /\ cmd[p].host = host[p] /\ cmd[p].decided <= clock
        /\ \/ lastSent[cmd[p].key] = Never
           \/ cmd[p].decided - lastSent[cmd[p].key] >= Cooldown

\* No POST is ahead of the cycle that runs.
PostsBehind ==
    \A post \in wire \cup taken :
        /\ post.cmd.cycle <= cycles
        /\ \A p \in Callers : Active(p) /\ post.cmd.cycle = cycles =>
              post.cmd.host <= host[p] /\ pc[p] \notin {"inventory", "parser"}

AcksStored == \A c \in acked : c.decided <= lastSent[c.key]

SendInv ==
    /\ CyclesNumbered /\ SentInPast /\ CommandsFresh /\ PostsBehind /\ AcksStored
    /\ CooldownRespected

\* A step that decides, posts and stores nothing.
QuietStep ==
    /\ lastSent' = lastSent /\ cycles' = cycles /\ acked' = acked
    /\ clock' \in {clock, clock + 1}
    /\ wire' \cup taken' \subseteq wire \cup taken
    /\ \A p \in Callers :
        /\ Active(p)' =>
             /\ Active(p) /\ report'[p].cycle = report[p].cycle
             /\ host'[p] >= host[p] \/ pc[p] \in {"inventory", "parser"}
             /\ pc'[p] \in {"inventory", "parser"} => pc[p] \in {"inventory", "parser"}
        /\ pc'[p] \in Sending =>
             pc[p] \in Sending /\ cmd'[p] = cmd[p] /\ host'[p] = host[p]

LEMMA QuietKeeps ==
    ASSUME TypeOK, TypeOK', SendInv, QuietStep
    PROVE  SendInv'
<1> USE DEF SendInv, QuietStep
<1>1. CyclesNumbered'
    BY DEF CyclesNumbered
<1>2. SentInPast'
    BY DEF SentInPast, TypeOK, ServiceTypeOK, WorldTypeOK, Never
<1>3. CommandsFresh'
    <2> SUFFICES ASSUME NEW p \in Callers, pc'[p] \in Sending
                 PROVE  /\ cmd'[p].cycle = cycles' /\ cmd'[p].host = host'[p]
                        /\ cmd'[p].decided <= clock'
                        /\ \/ lastSent'[cmd'[p].key] = Never
                           \/ cmd'[p].decided - lastSent'[cmd'[p].key] >= Cooldown
        BY DEF CommandsFresh
    <2>1. pc[p] \in Sending /\ cmd'[p] = cmd[p] /\ host'[p] = host[p]
        OBVIOUS
    <2>2. cmd[p] \in Commands
        BY <2>1 DEF TypeOK, LocalsInPlace
    <2>3. cmd[p].decided <= clock'
        BY <2>1, <2>2 DEF CommandsFresh, Commands, TypeOK, WorldTypeOK
    <2> QED
        BY <2>1, <2>3 DEF CommandsFresh
<1>4. PostsBehind'
    <2> SUFFICES ASSUME NEW post \in wire' \cup taken'
                 PROVE  /\ post.cmd.cycle <= cycles'
                        /\ \A p \in Callers : Active(p)' /\ post.cmd.cycle = cycles' =>
                             /\ post.cmd.host <= host'[p]
                             /\ pc'[p] \notin {"inventory", "parser"}
        BY DEF PostsBehind
    <2>1. post \in wire \cup taken
        OBVIOUS
    <2>2. post.cmd.cycle <= cycles'
        BY <2>1 DEF PostsBehind
    <2>3. ASSUME NEW p \in Callers, Active(p)', post.cmd.cycle = cycles'
          PROVE  post.cmd.host <= host'[p] /\ pc'[p] \notin {"inventory", "parser"}
        <3>1. post.cmd.host <= host[p] /\ pc[p] \notin {"inventory", "parser"}
            BY <2>1, <2>3 DEF PostsBehind
        <3>2. post.cmd.host \in Nat /\ host[p] \in Nat /\ host'[p] \in Nat
            BY <2>1 DEF TypeOK, WorldTypeOK, LocalsTypeOK, Posts, Commands
        <3> QED
            BY <2>3, <3>1, <3>2
    <2> QED
        BY <2>2, <2>3
<1>5. AcksStored'
    BY DEF AcksStored
<1>6. CooldownRespected'
    BY DEF CooldownRespected
<1> QED
    BY <1>1, <1>2, <1>3, <1>4, <1>5, <1>6

\* No update of a report changes its cycle.
LEMMA CycleKept ==
    ASSUME NEW r \in Reports
    PROVE  /\ \A b, n : [r EXCEPT !.partial = b, !.desired = n].cycle = r.cycle
           /\ \A b, n : [r EXCEPT !.partial = b, !.noHost = n].cycle = r.cycle
           /\ [r EXCEPT !.compared = @ + 1].cycle = r.cycle
           /\ CountSuppressed(r).cycle = r.cycle
           /\ \A v, b : Concluded(r, v, b).cycle = r.cycle
<1> USE DEF Reports
<1>1. \A b, n : [r EXCEPT !.partial = b, !.desired = n].cycle = r.cycle
    OBVIOUS
<1>2. \A b, n : [r EXCEPT !.partial = b, !.noHost = n].cycle = r.cycle
    OBVIOUS
<1>3. [r EXCEPT !.compared = @ + 1].cycle = r.cycle
    OBVIOUS
<1>4. CountSuppressed(r).cycle = r.cycle
    BY DEF CountSuppressed
<1>5. ASSUME NEW v, NEW b PROVE Concluded(r, v, b).cycle = r.cycle
    <2>1. \A n : [r EXCEPT !.partial = TRUE, !.noData = n].cycle = r.cycle
        OBVIOUS
    <2>2. [r EXCEPT !.errors = @ + 1].cycle = r.cycle
        OBVIOUS
    <2>3. CASE v = "missing_data"
        BY <2>1, <2>3 DEF Concluded
    <2>4. CASE v # "missing_data"
        BY <2>2, <2>4 DEF Concluded
    <2> QED
        BY <2>3, <2>4
<1> QED
    BY <1>1, <1>2, <1>3, <1>4, <1>5

LEMMA SendChanges ==
    ASSUME TypeOK, [Next]_vars
    PROVE  \/ \E p \in Callers : \/ EnterRunCycle(p) \/ DecideCommand(p) \/ SendPost(p)
                                 \/ MarkCommand(p)
           \/ Exit
           \/ QuietStep
<1> USE DEF QuietStep, Active, InCycle, Examining, Sending, TypeOK, LocalsTypeOK
<1>1. ASSUME NEW p \in Callers, CallerStep(p), ~EnterRunCycle(p), ~DecideCommand(p),
             ~SendPost(p), ~MarkCommand(p)
      PROVE  QuietStep
    <2>1. CASE RefuseRunCycle(p)
        BY <2>1, CallersFacts DEF RefuseRunCycle, service, locals, world
    <2>2. CASE PersistResult(p)
        BY <2>2 DEF PersistResult, Persist, locals, world
    <2>3. CASE FinishCycle(p)
        BY <2>3, CallersFacts DEF FinishCycle, world
    <2>4. CASE PauseEnds(p)
        BY <2>4 DEF PauseEnds, CallUnchanged, service
    <2>5. ASSUME GiveUp(p), CallUnchanged, wire' \cup taken' \subseteq wire \cup taken,
                 pc[p] \in {"inventory", "parser", "send", "wait"}
          PROVE  QuietStep
        <3>1. \A q \in Callers : report'[q].cycle = report[q].cycle
            BY <2>5 DEF GiveUp, Reports
        <3> QED
            BY <2>5, <3>1 DEF GiveUp, CallUnchanged, service
    <2>6. CASE PauseCancelled(p)
        BY <2>5, <2>6 DEF PauseCancelled, LocalsInPlace
    <2>7. ASSUME NEW b, CallFails(p, b), CallUnchanged,
                 wire' \cup taken' \subseteq wire \cup taken,
                 pc[p] \in {"inventory", "parser", "send", "wait"}
          PROVE  QuietStep
        <3>1. CASE MayRetry(p, b)
            BY <2>7, <3>1 DEF CallFails, CallUnchanged, service
        <3>2. CASE ~MayRetry(p, b)
            BY <2>5, <2>7, <3>2 DEF CallFails
        <3> QED
            BY <3>1, <3>2
    <2>8. CASE FetchFails(p) \/ SendCancelled(p) \/ NoReply(p) \/ Refused(p)
               \/ UnreadableReply(p)
        BY <2>7, <2>8 DEF FetchFails, SendCancelled, NoReply, Refused, UnreadableReply
    <2>9. CASE FetchActualState(p)
        BY <2>9 DEF FetchActualState, service, world
    <2>10. CASE FetchDesiredState(p)
        <3>1. \A q \in Callers : report'[q].cycle = report[q].cycle
            <4>1. PICK s \in DesiredStates :
                    report' = [report EXCEPT
                        ![p].partial = actual[p].isPartial \/ ~s.ready,
                        ![p].desired = Len(s.hosts)]
                BY <2>10 DEF FetchDesiredState
            <4> DEFINE b == actual[p].isPartial \/ ~s.ready
            <4> DEFINE prepared == [report[p] EXCEPT !.partial = b, !.desired = Len(s.hosts)]
            <4>2. report' = [report EXCEPT ![p] = prepared]
                BY <4>1
            <4>3. prepared.cycle = report[p].cycle
                BY CycleKept
            <4> HIDE DEF prepared
            <4> QED
                BY <4>2, <4>3
        <3> QED
            BY <2>10, <3>1 DEF FetchDesiredState, service, world
    <2>11. CASE SkipHost(p) \/ CompareHost(p)
        <3>1. \A q \in Callers : report'[q].cycle = report[q].cycle
            <4> DEFINE skipped == [report[p] EXCEPT !.partial = TRUE, !.noHost = @ + 1]
            <4> DEFINE compared == [report[p] EXCEPT !.compared = @ + 1]
            <4>1. skipped.cycle = report[p].cycle /\ compared.cycle = report[p].cycle
                BY CycleKept
            <4>2. \/ report' = [report EXCEPT ![p] = skipped]
                  \/ report' = [report EXCEPT ![p] = compared]
                BY <2>11 DEF SkipHost, CompareHost
            <4> HIDE DEF skipped, compared
            <4> QED
                BY <4>1, <4>2
        <3> QED
            BY <2>11, <3>1 DEF SkipHost, CompareHost, LocalStep, service, world
    <2>12. CASE HostsCompared(p) \/ ComponentsCompared(p)
        BY <2>12 DEF HostsCompared, ComponentsCompared, LocalStep, service, world
    <2>13. CASE NoDrift(p) \/ SuppressDrift(p)
        <3>1. \A q \in Callers : report'[q].cycle = report[q].cycle
            <4>1. PICK r : r.cycle = report[p].cycle /\ report' = [report EXCEPT ![p] = r]
                <5>1. /\ CountSuppressed(report[p]).cycle = report[p].cycle
                      /\ \A v, b : Concluded(report[p], v, b).cycle = report[p].cycle
                    BY CycleKept
                <5> QED
                    BY <2>13, <5>1 DEF NoDrift, SuppressDrift
            <4> QED
                BY <4>1
        <3> QED
            BY <2>13, <3>1 DEF NoDrift, SuppressDrift, LocalStep, service, world
    <2>14. CASE Acknowledged(p)
        BY <2>14 DEF Acknowledged, service, locals, world
    <2> QED
        BY <1>1, <2>1, <2>2, <2>3, <2>4, <2>6, <2>8, <2>9, <2>10, <2>11, <2>12, <2>13,
           <2>14 DEF CallerStep
<1>2. ASSUME NEW p \in Manual, ManualTrigger(p) \/ ClientGone(p)
      PROVE  QuietStep
    BY <1>2, CallersFacts DEF ManualTrigger, ClientGone, service, locals, world
<1>3. ASSUME NEW post \in wire, Take(post) \/ Lose(post)
      PROVE  QuietStep
    BY <1>3 DEF Take, Lose, PeerUnchanged, service, locals
<1>4. CASE StartServing
    BY <1>4 DEF StartServing, service, locals, world, CallersInPlace
<1>5. CASE SchedulerReceivesTick \/ SchedulerStops
    BY <1>5, CallersFacts DEF SchedulerReceivesTick, SchedulerStops, service, locals,
                              world
<1>6. ASSUME NEW r \in Readers, ReadyzReadsResult(r) \/ ReadyzReplies(r)
      PROVE  QuietStep
    BY <1>6 DEF ReadyzReadsResult, ReadyzReplies, service, locals, world
<1>7. CASE Tick \/ Signal \/ Drain \/ UNCHANGED vars
    BY <1>7 DEF Tick, Signal, Drain, vars, service, locals, world
<1>8. CASE ClockTick
    BY <1>8 DEF ClockTick, service, locals
<1>9. CASE Restart
    BY <1>9, CallersFacts DEF Restart, service, locals, CallersInPlace
<1> QED
    BY <1>1, <1>2, <1>3, <1>4, <1>5, <1>6, <1>7, <1>8, <1>9 DEF Next, Stopped

LEMMA SendStep ==
    ASSUME TypeOK, TypeOK', CycleLock, SendInv, [Next]_vars
    PROVE  SendInv'
<1>1. ASSUME NEW p \in Callers, EnterRunCycle(p)
      PROVE  SendInv'
    <2> USE <1>1 DEF EnterRunCycle
    <2>1. \A q \in Callers : Active(q)' <=> q = p
        BY DEF CycleLock, BeginCycle, Active, InCycle, TypeOK, LocalsTypeOK
    <2>2. \A q \in Callers : pc'[q] \notin Sending
        BY <2>1 DEF Active, InCycle, Examining, Sending, TypeOK, LocalsTypeOK
    <2>3. CyclesNumbered'
        BY <2>1 DEF CyclesNumbered, NewReport, TypeOK, LocalsTypeOK
    <2>4. SentInPast' /\ CommandsFresh' /\ AcksStored'
        BY <2>2 DEF SendInv, SentInPast, CommandsFresh, AcksStored
    <2>5. PostsBehind'
        <3>1. \A post \in wire \cup taken : post.cmd.cycle \in Nat
            BY DEF TypeOK, WorldTypeOK, Posts, Commands
        <3> QED
            BY <3>1 DEF SendInv, PostsBehind, TypeOK, WorldTypeOK
    <2>6. CooldownRespected'
        BY DEF SendInv, CooldownRespected
    <2> QED
        BY <2>3, <2>4, <2>5, <2>6 DEF SendInv
<1>2. ASSUME NEW p \in Callers, DecideCommand(p)
      PROVE  SendInv'
    <2> USE <1>2 DEF DecideCommand
    <2>1. \A q \in Callers : Active(q) => q = p
        BY DEF CycleLock, Active, InCycle, Examining
    <2>2. \A q \in Callers : Active(q)' <=> Active(q)
        BY DEF Active, InCycle, Examining, Sending, TypeOK, LocalsTypeOK
    <2>3. CyclesNumbered'
        <3>1. [report[p] EXCEPT !.drifts = @ + 1].cycle = report[p].cycle
            BY DEF TypeOK, LocalsTypeOK, Reports
        <3>2. \A q \in Callers : report'[q].cycle = report[q].cycle
            BY <3>1 DEF TypeOK, LocalsTypeOK
        <3> QED
            BY <2>2, <3>2 DEF SendInv, CyclesNumbered, world
    <2>4. SentInPast' /\ AcksStored'
        BY DEF SendInv, SentInPast, AcksStored, service, world
    <2>5. CommandsFresh'
        <3>1. \A q \in Callers : pc'[q] \in Sending => q = p
            BY <2>1, <2>2 DEF Active, InCycle, Examining
        <3>2. cmd'[p] = [cycle |-> report[p].cycle, host |-> host[p], comp |-> comp[p],
                         key |-> CommandKey(p), decided |-> clock]
            BY DEF TypeOK, LocalsTypeOK
        <3>3. report[p].cycle = cycles
            BY DEF SendInv, CyclesNumbered, Active, InCycle, Examining
        <3>4. CommandKey(p) \in Key
            BY CommandKeyType DEF Examining
        <3>5. \/ lastSent[CommandKey(p)] = Never
              \/ clock - lastSent[CommandKey(p)] >= Cooldown
            BY <3>4, ConstantsAssumption
               DEF CanSend, SendInv, SentInPast, TypeOK, ServiceTypeOK, WorldTypeOK
        <3>6. /\ cmd'[p].cycle = cycles' /\ cmd'[p].host = host'[p]
              /\ cmd'[p].decided <= clock'
              /\ \/ lastSent'[cmd'[p].key] = Never
                 \/ cmd'[p].decided - lastSent'[cmd'[p].key] >= Cooldown
            BY <3>2, <3>3, <3>5 DEF service, world, TypeOK, WorldTypeOK
        <3> QED
            BY <3>1, <3>6 DEF CommandsFresh
    <2>6. PostsBehind'
        BY <2>2 DEF SendInv, PostsBehind, world, TypeOK, LocalsTypeOK
    <2>7. CooldownRespected'
        BY DEF SendInv, CooldownRespected, world
    <2> QED
        BY <2>3, <2>4, <2>5, <2>6, <2>7 DEF SendInv
<1>3. ASSUME NEW p \in Callers, SendPost(p)
      PROVE  SendInv'
    <2> USE <1>3 DEF SendPost, CallUnchanged
    <2> DEFINE post == Post(cmd[p], attempt[p])
    <2>1. \A q \in Callers : Active(q)' <=> Active(q)
        BY DEF Active, InCycle, Examining, Sending, TypeOK, LocalsTypeOK
    <2>2. CyclesNumbered' /\ SentInPast' /\ AcksStored'
        BY <2>1 DEF SendInv, CyclesNumbered, SentInPast, AcksStored, service
    <2>3. CommandsFresh'
        BY DEF SendInv, CommandsFresh, service, Sending, TypeOK, LocalsTypeOK
    <2>4. /\ cmd[p].cycle = cycles /\ cmd[p].host = host[p]
          /\ \/ lastSent[cmd[p].key] = Never
             \/ cmd[p].decided - lastSent[cmd[p].key] >= Cooldown
        BY DEF SendInv, CommandsFresh, Sending
    <2>5. post.cmd = cmd[p] /\ wire' \cup taken' = (wire \cup taken) \cup {post}
        BY DEF Post
    <2>6. PostsBehind'
        <3>1. cycles <= cycles /\ host[p] <= host[p]
            BY DEF TypeOK, WorldTypeOK, LocalsTypeOK
        <3>2. \A q \in Callers : Active(q) => q = p
            BY DEF CycleLock, Active, InCycle, Examining, Sending
        <3>3. \A q \in Callers : pc'[q] \in {"inventory", "parser"} =>
                    pc[q] \in {"inventory", "parser"} /\ q # p
            BY DEF TypeOK, LocalsTypeOK
        <3> HIDE DEF post
        <3>4. \A old \in wire \cup taken :
                /\ old.cmd.cycle <= cycles'
                /\ \A q \in Callers : Active(q)' /\ old.cmd.cycle = cycles' =>
                    old.cmd.host <= host'[q] /\ pc'[q] \notin {"inventory", "parser"}
            BY <2>1, <3>3 DEF SendInv, PostsBehind
        <3>5. /\ post.cmd.cycle <= cycles'
              /\ \A q \in Callers : Active(q)' /\ post.cmd.cycle = cycles' =>
                    post.cmd.host <= host'[q] /\ pc'[q] \notin {"inventory", "parser"}
            BY <2>1, <2>4, <2>5, <3>1, <3>2, <3>3
        <3> QED
            BY <2>5, <3>4, <3>5 DEF PostsBehind
    <2>7. CooldownRespected'
        <3>1. ASSUME NEW c \in acked, cmd[p].key = c.key
              PROVE  cmd[p].decided - c.decided >= Cooldown
            <4>1. c \in Commands /\ cmd[p] \in Commands
                BY DEF TypeOK, WorldTypeOK, LocalsInPlace, Sending
            <4>2. c.decided <= lastSent[c.key] /\ c.decided \in Nat /\ c.key \in Key
                BY <4>1 DEF SendInv, AcksStored, Commands
            <4>3. cmd[p].decided \in Nat /\ lastSent[c.key] \in Nat \cup {Never}
                BY <4>1, <4>2 DEF Commands, TypeOK, ServiceTypeOK
            <4> QED
                BY <2>4, <3>1, <4>2, <4>3, ConstantsAssumption DEF Never
        <3> HIDE DEF post
        <3> QED
            BY <2>5, <3>1 DEF SendInv, CooldownRespected
    <2> QED
        BY <2>2, <2>3, <2>6, <2>7 DEF SendInv
<1>4. ASSUME NEW p \in Callers, MarkCommand(p)
      PROVE  SendInv'
    <2> USE <1>4 DEF MarkCommand, MarkSent
    <2> DEFINE c == cmd[p]
    <2>1. \A q \in Callers : Active(q)' <=> Active(q)
        BY DEF Active, InCycle, Examining, Sending, TypeOK, LocalsTypeOK
    <2>2. \A q \in Callers : Active(q) => q = p
        BY DEF CycleLock, Active, InCycle, Examining, Sending
    <2>3. \A q \in Callers : pc'[q] \notin Sending
        BY <2>2 DEF Active, InCycle, Examining, Sending, TypeOK, LocalsTypeOK
    <2>4. /\ c \in Commands /\ c.key \in Key /\ c.decided \in Nat
          /\ c.cycle \in Nat /\ c.host \in Nat
        BY DEF TypeOK, LocalsInPlace, Sending, Commands
    <2>5. /\ c.cycle = cycles /\ c.host = host[p] /\ c.decided <= clock
          /\ \/ lastSent[c.key] = Never
             \/ c.decided - lastSent[c.key] >= Cooldown
        BY DEF SendInv, CommandsFresh, Sending
    <2>6. lastSent[c.key] <= c.decided
        BY <2>4, <2>5, ConstantsAssumption DEF TypeOK, ServiceTypeOK, Never
    <2>7. CyclesNumbered'
        <3>1. [report[p] EXCEPT !.sent = @ + 1].cycle = report[p].cycle
            BY DEF TypeOK, LocalsTypeOK, Reports
        <3>2. \A q \in Callers : report'[q].cycle = report[q].cycle
            BY <3>1 DEF TypeOK, LocalsTypeOK
        <3> QED
            BY <2>1, <3>2 DEF SendInv, CyclesNumbered
    <2>8. SentInPast'
        BY <2>4, <2>5 DEF SendInv, SentInPast, TypeOK, ServiceTypeOK
    <2>9. CommandsFresh'
        BY <2>3 DEF CommandsFresh
    <2>10. PostsBehind'
        BY <2>1 DEF SendInv, PostsBehind, TypeOK, LocalsTypeOK
    <2>11. AcksStored'
        <3>1. \A a \in acked : a.decided \in Nat /\ a.key \in Key
            BY DEF TypeOK, WorldTypeOK, Commands
        <3>2. lastSent'[c.key] = c.decided
            BY <2>4 DEF TypeOK, ServiceTypeOK
        <3>3. \A k \in Key : lastSent[k] <= lastSent'[k]
            BY <2>4, <2>6, <3>2 DEF TypeOK, ServiceTypeOK, Never
        <3>4. \A a \in acked : a.decided <= lastSent'[a.key]
            <4> TAKE a \in acked
            <4>1. a.decided <= lastSent[a.key] /\ lastSent[a.key] <= lastSent'[a.key]
                BY <3>1, <3>3 DEF SendInv, AcksStored
            <4>2. lastSent[a.key] \in Int /\ lastSent'[a.key] \in Int
                BY <3>1 DEF TypeOK, ServiceTypeOK, Never
            <4> QED
                BY <3>1, <4>1, <4>2
        <3>5. c.decided <= lastSent'[c.key]
            BY <2>4, <3>2
        <3> HIDE DEF c
        <3> QED
            BY <3>4, <3>5 DEF AcksStored, c
    <2>12. CooldownRespected'
        <3>1. \A post \in wire \cup taken : ~Before(c, post.cmd)
            <4> TAKE post \in wire \cup taken
            <4>1. post.cmd.cycle \in Nat /\ post.cmd.host \in Nat /\ host[p] \in Nat
                BY DEF TypeOK, WorldTypeOK, LocalsTypeOK, Posts, Commands
            <4>2. post.cmd.cycle <= cycles
                BY DEF SendInv, PostsBehind
            <4>3. post.cmd.cycle = cycles => post.cmd.host <= host[p]
                BY DEF SendInv, PostsBehind, Active, InCycle, Examining, Sending
            <4> QED
                BY <2>4, <2>5, <4>1, <4>2, <4>3 DEF Before
        <3> QED
            BY <3>1 DEF SendInv, CooldownRespected
    <2> QED
        BY <2>7, <2>8, <2>9, <2>10, <2>11, <2>12 DEF SendInv
<1>5. CASE Exit
    <2>1. \A q \in Callers : ~Active(q)' /\ pc'[q] \notin Sending
        BY <1>5 DEF Exit, Active, InCycle, Examining, Sending
    <2> QED
        BY <1>5, <2>1 DEF Exit, SendInv, CyclesNumbered, SentInPast, CommandsFresh,
                          PostsBehind, AcksStored, CooldownRespected, Never, TypeOK,
                          WorldTypeOK
<1>6. CASE QuietStep
    BY <1>6, QuietKeeps
<1> QED
    BY <1>1, <1>2, <1>3, <1>4, <1>5, <1>6, SendChanges

LEMMA SendsInv == Spec => []SendInv
<1>1. Init => SendInv
    BY DEF Init, NewProcess, FreshLocals, SendInv, CyclesNumbered, SentInPast,
           CommandsFresh, PostsBehind, AcksStored, CooldownRespected, Active, InCycle,
           Examining, Sending, Never
<1>2. TypeOK /\ TypeOK' /\ CycleLock /\ SendInv /\ [Next]_vars => SendInv'
    BY SendStep
<1> QED
    BY <1>1, <1>2, TypeCorrect, CyclesExclude, PTL DEF Spec

\* After a command was acknowledged, no POST for its component and FQDN leaves the
\* service, from any caller, host or retry, on a decision made within the cooldown.
THEOREM CooldownHolds == Spec => []CooldownRespected
<1>1. SendInv => CooldownRespected
    BY DEF SendInv
<1> QED
    BY <1>1, SendsInv, PTL

------------------------------------------------------------------------------
(* The service implements its contract *)

\* The steps in which the contract stutters.
LEMMA ContractStutters ==
    ASSUME [Next]_vars, ~Exit, ~ClockTick,
           \A p \in Callers : /\ ~EnterRunCycle(p) /\ ~PersistResult(p)
                              /\ ~FinishCycle(p) /\ ~MarkCommand(p)
    PROVE  UNCHANGED <<running, ready, lastSent, clock>>
<1>1. ASSUME NEW p \in Callers, CallerStep(p)
      PROVE  UNCHANGED <<running, ready, lastSent, clock>>
    BY <1>1 DEF CallerStep, RefuseRunCycle, PauseEnds, PauseCancelled, FetchActualState,
                FetchDesiredState, FetchFails, SkipHost, CompareHost, HostsCompared,
                ComponentsCompared, NoDrift, SuppressDrift, DecideCommand, SendPost,
                SendCancelled, NoReply, Refused, UnreadableReply, Acknowledged,
                CallUnchanged, LocalStep, service, world
<1>2. ASSUME NEW p \in Manual, ManualTrigger(p) \/ ClientGone(p)
      PROVE  UNCHANGED <<running, ready, lastSent, clock>>
    BY <1>2 DEF ManualTrigger, ClientGone, service, world
<1>3. ASSUME NEW post \in wire, Take(post) \/ Lose(post)
      PROVE  UNCHANGED <<running, ready, lastSent, clock>>
    BY <1>3 DEF Take, Lose, PeerUnchanged, service
<1>4. ASSUME NEW r \in Readers, ReadyzReadsResult(r) \/ ReadyzReplies(r)
      PROVE  UNCHANGED <<running, ready, lastSent, clock>>
    BY <1>4 DEF ReadyzReadsResult, ReadyzReplies, service, world
<1>5. ASSUME StartServing \/ Tick \/ SchedulerReceivesTick \/ SchedulerStops
             \/ Signal \/ Drain \/ Restart \/ Stopped \/ UNCHANGED vars
      PROVE  UNCHANGED <<running, ready, lastSent, clock>>
    BY <1>5 DEF StartServing, Tick, SchedulerReceivesTick, SchedulerStops, Signal,
                Drain,
                Restart, Stopped, vars, service, world
<1> QED
    BY <1>1, <1>2, <1>3, <1>4, <1>5 DEF Next

LEMMA ContractStep ==
    ASSUME TypeOK, CycleLock, SendInv, [Next]_vars
    PROVE  [Contract!Next]_(Contract!contract)
<1> USE DEF Contract!Next, Contract!contract
<1>1. ASSUME NEW p \in Callers, EnterRunCycle(p)
      PROVE  Contract!BeginCycle
    BY <1>1 DEF EnterRunCycle, BeginCycle, Contract!BeginCycle
<1>2. ASSUME NEW p \in Callers, FinishCycle(p)
      PROVE  Contract!EndCycle
    <2>1. running
        BY <1>2 DEF CycleLock, Active, InCycle, FinishCycle
    <2> QED
        BY <1>2, <2>1 DEF FinishCycle, world, Contract!EndCycle
<1>3. ASSUME NEW p \in Callers, PersistResult(p)
      PROVE  Contract!BecomeReady \/ UNCHANGED <<running, ready, lastSent, clock>>
    <2>1. running
        BY <1>3 DEF CycleLock, Active, InCycle, PersistResult
    <2>2. running' = running /\ lastSent' = lastSent /\ clock' = clock
        BY <1>3 DEF PersistResult, Persist, world
    <2>3. ready' = TRUE \/ ready' = ready
        BY <1>3 DEF PersistResult, Persist, TypeOK, ServiceTypeOK
    <2> QED
        BY <2>1, <2>2, <2>3 DEF Contract!BecomeReady
<1>4. ASSUME NEW p \in Callers, MarkCommand(p)
      PROVE  \E k \in Key : Contract!Grant(k)
    <2> DEFINE c == cmd[p]
    <2>1. c.key \in Key /\ c.decided \in Nat
        BY <1>4 DEF MarkCommand, TypeOK, LocalsInPlace, Sending, Commands
    <2>2. running
        BY <1>4 DEF CycleLock, Active, InCycle, Examining, Sending, MarkCommand
    <2>3. /\ c.decided <= clock
          /\ lastSent[c.key] = -1 \/ c.decided - lastSent[c.key] >= Cooldown
        BY <1>4 DEF MarkCommand, SendInv, CommandsFresh, Sending, Never
    <2>4. c.decided \in 0..clock
        BY <2>1, <2>3 DEF TypeOK, WorldTypeOK
    <2>5. /\ lastSent' = [lastSent EXCEPT ![c.key] = c.decided]
          /\ UNCHANGED <<running, ready, clock>>
        BY <1>4 DEF MarkCommand, MarkSent
    <2>6. Contract!Grant(c.key)
        BY <2>2, <2>3, <2>4, <2>5 DEF Contract!Grant
    <2> QED
        BY <2>1, <2>6
<1>5. CASE Exit
    BY <1>5 DEF Exit, Never, Contract!NewProcess, Contract!Nothing
<1>6. CASE ClockTick
    BY <1>6 DEF ClockTick, service, Contract!Pass
<1> QED
    BY <1>1, <1>2, <1>3, <1>4, <1>5, <1>6, ContractStutters

\* Every behaviour of the service is one that DetectionContract allows: under lost
\* replies, retries, cancelled requests, shutdown and restart, cycles exclude each
\* other, readiness is reached only from inside one, and a component of a FQDN is
\* granted at moments at least the cooldown apart.
THEOREM Refines == Spec => ContractHolds
<1>1. Init => Contract!Init
    BY DEF Init, NewProcess, Never, Contract!Init, Contract!Nothing
<1>2. TypeOK /\ CycleLock /\ SendInv /\ [Next]_vars => [Contract!Next]_(Contract!contract)
    BY ContractStep
<1> QED
    BY <1>1, <1>2, TypeCorrect, CyclesExclude, SendsInv, PTL
    DEF Spec, ContractHolds, Contract!Spec

------------------------------------------------------------------------------
(* Results *)

\* The cycle that runs is newer than the stored result until it has stored its own.
ResultBehind ==
    /\ lastResult.cycle \in Nat /\ lastResult.cycle <= cycles
    /\ \A p \in Callers : Active(p) /\ pc[p] # "release" => lastResult.cycle < cycles

\* The server runs only after the startup cycle has stored a result.
ServedAfterResult ==
    /\ phase \in {"serving", "draining"} => lastResult.cycle # 0
    /\ phase = "starting" /\ pc["startup"] \in {"release", "off"} => lastResult.cycle # 0
    /\ \A r \in Readers : probe[r].at \in {"read", "replied"} => probe[r].cycle # 0

ResultInv == ResultBehind /\ ServedAfterResult

LEMMA ResultCycleType ==
    ASSUME TypeOK PROVE lastResult.cycle \in Nat /\ cycles \in Nat
BY DEF TypeOK, ServiceTypeOK, WorldTypeOK, Reports, NoResult

\* A step of a cycle that neither begins, nor stores, nor ends.
MiddleOfCycle(p) ==
    /\ UNCHANGED <<lastResult, cycles, phase, probe>>
    /\ Active(p) /\ pc[p] # "release"
    /\ pc'[p] \in InCycle \ {"release"}
    /\ \A q \in Callers : q # p => pc'[q] = pc[q]

LEMMA MiddleSteps ==
    ASSUME TypeOK, NEW p \in Callers, CallerStep(p), ~EnterRunCycle(p),
           ~RefuseRunCycle(p), ~PersistResult(p), ~FinishCycle(p)
    PROVE  MiddleOfCycle(p)
<1> USE DEF MiddleOfCycle, Active, InCycle, Examining, Sending, TypeOK, LocalsTypeOK
<1>1. CASE PauseEnds(p)
    BY <1>1 DEF PauseEnds, CallUnchanged, service, process, LocalsInPlace
<1>2. ASSUME GiveUp(p), CallUnchanged,
             pc[p] \in {"inventory", "parser", "send", "wait"}
      PROVE  MiddleOfCycle(p)
    BY <1>2 DEF GiveUp, CallUnchanged, service, process
<1>3. CASE PauseCancelled(p)
    BY <1>2, <1>3 DEF PauseCancelled, LocalsInPlace
<1>4. ASSUME NEW b, CallFails(p, b), CallUnchanged,
             pc[p] \in {"inventory", "parser", "send", "wait"}
      PROVE  MiddleOfCycle(p)
    BY <1>2, <1>4 DEF CallFails, CallUnchanged, service, process
<1>5. CASE FetchFails(p) \/ SendCancelled(p) \/ NoReply(p) \/ Refused(p)
           \/ UnreadableReply(p)
    BY <1>4, <1>5 DEF FetchFails, SendCancelled, NoReply, Refused, UnreadableReply
<1>6. CASE FetchActualState(p) \/ FetchDesiredState(p)
    BY <1>6 DEF FetchActualState, FetchDesiredState, service, process, world
<1>7. CASE SkipHost(p) \/ CompareHost(p) \/ HostsCompared(p) \/ ComponentsCompared(p)
           \/ NoDrift(p) \/ SuppressDrift(p)
    BY <1>7 DEF SkipHost, CompareHost, HostsCompared, ComponentsCompared, NoDrift,
                SuppressDrift, LocalStep, service, process, world
<1>8. CASE DecideCommand(p)
    BY <1>8 DEF DecideCommand, service, process, world
<1>9. CASE SendPost(p) \/ Acknowledged(p) \/ MarkCommand(p)
    BY <1>9 DEF SendPost, Acknowledged, MarkCommand, CallUnchanged, service, process,
                world
<1> QED
    BY <1>1, <1>3, <1>5, <1>6, <1>7, <1>8, <1>9 DEF CallerStep

LEMMA ResultStep ==
    ASSUME TypeOK, TypeOK', CycleLock, SendInv, ResultInv, [Next]_vars
    PROVE  ResultInv'
<1> USE ResultCycleType DEF ResultInv, ResultBehind, ServedAfterResult, TypeOK, LocalsTypeOK
<1>1. ASSUME NEW p \in Callers, EnterRunCycle(p)
      PROVE  ResultInv'
    BY <1>1 DEF EnterRunCycle, process
<1>2. ASSUME NEW p \in Callers, RefuseRunCycle(p)
      PROVE  ResultInv'
    <2>1. PICK q \in Callers : Active(q)
        BY <1>2 DEF RefuseRunCycle, CycleLock
    <2>2. ~(phase = "starting" /\ p = "startup")
        BY <1>2, <2>1 DEF RefuseRunCycle, CallersInPlace, Active, InCycle, Examining,
                          Sending
    <2>3. \A c \in Callers : Active(c)' => Active(c) /\ pc'[c] = pc[c]
        BY <1>2, CallersFacts DEF RefuseRunCycle, Active, InCycle, Examining, Sending
    <2>4. ResultBehind'
        BY <1>2, <2>3 DEF RefuseRunCycle, service, world
    <2>5. ServedAfterResult'
        BY <1>2, <2>2, CallersFacts DEF RefuseRunCycle, service, world
    <2> QED
        BY <2>4, <2>5
<1>3. ASSUME NEW p \in Callers, PersistResult(p)
      PROVE  ResultInv'
    <2>1. Active(p) /\ \A q \in Callers : Active(q) => q = p
        BY <1>3 DEF PersistResult, CycleLock, Active, InCycle
    <2>2. report[p].cycle = cycles /\ lastResult.cycle < cycles
        BY <1>3, <2>1 DEF PersistResult, SendInv, CyclesNumbered
    <2>3. lastResult'.cycle = cycles /\ cycles' = cycles /\ phase' = phase /\ probe' = probe
        BY <1>3, <2>2 DEF PersistResult, Persist, process, world
    <2>4. cycles \in Nat /\ cycles # 0
        BY <2>2
    <2>5. \A q \in Callers : Active(q)' => pc'[q] = "release"
        BY <1>3, <2>1 DEF PersistResult, Active, InCycle
    <2> QED
        BY <2>3, <2>4, <2>5
<1>4. ASSUME NEW p \in Callers, FinishCycle(p)
      PROVE  ResultInv'
    <2>1. \A q \in Callers : Active(q)' => Active(q) /\ pc'[q] = pc[q]
        BY <1>4, CallersFacts DEF FinishCycle, Active, InCycle, Examining, Sending
    <2>2. UNCHANGED <<lastResult, cycles, phase, probe>>
        BY <1>4 DEF FinishCycle, world
    <2>3. pc'["startup"] \in {"release", "off"} => pc["startup"] \in {"release", "off"}
        BY <1>4 DEF FinishCycle
    <2> QED
        BY <2>1, <2>2, <2>3
<1>5. ASSUME NEW p \in Callers, MiddleOfCycle(p)
      PROVE  ResultInv'
    <2>1. pc'["startup"] \in {"release", "off"} => pc["startup"] \in {"release", "off"}
        BY <1>5, CallersFacts DEF MiddleOfCycle, InCycle, Examining, Sending
    <2> QED
        BY <1>5, <2>1 DEF MiddleOfCycle, Active
<1>6. ASSUME NEW p \in Manual, ManualTrigger(p) \/ ClientGone(p)
      PROVE  ResultInv'
    <2>1. p \in Callers /\ p # "startup"
        BY CallersFacts, ConstantsAssumption
    <2>2. \A q \in Callers : Active(q)' => Active(q) /\ pc'[q] = pc[q]
        BY <1>6, <2>1 DEF ManualTrigger, ClientGone, Active, InCycle, Examining, Sending
    <2> QED
        BY <1>6, <2>1, <2>2 DEF ManualTrigger, ClientGone, service, process, world
<1>7. ASSUME NEW post \in wire, Take(post) \/ Lose(post)
      PROVE  ResultInv'
    BY <1>7 DEF Take, Lose, PeerUnchanged, service, process, Active
<1>8. CASE StartServing
    <2>1. \A q \in Callers : ~Active(q)'
        BY <1>8 DEF StartServing, StartupOver, Active, InCycle, Examining, Sending
    <2> QED
        BY <1>8, <2>1 DEF StartServing, StartupOver, service, world
<1>9. CASE SchedulerReceivesTick \/ SchedulerStops
    <2>1. \A q \in Callers : Active(q)' => Active(q) /\ pc'[q] = pc[q]
        BY <1>9, CallersFacts DEF SchedulerReceivesTick, SchedulerStops, Active,
                                  InCycle,
                                  Examining, Sending
    <2>2. UNCHANGED <<lastResult, cycles, phase, probe>>
        BY <1>9 DEF SchedulerReceivesTick, SchedulerStops, service, process, world
    <2>3. pc'["startup"] = pc["startup"]
        BY <1>9, CallersFacts DEF SchedulerReceivesTick, SchedulerStops
    <2>4. ResultBehind'
        BY <2>1, <2>2
    <2>5. ServedAfterResult'
        BY <2>2, <2>3
    <2> QED
        BY <2>4, <2>5
<1>10. ASSUME NEW r \in Readers, ReadyzReadsResult(r)
       PROVE  ResultInv'
    <2>1. lastResult.cycle # 0
        BY <1>10 DEF ReadyzReadsResult
    <2>2. UNCHANGED <<lastResult, cycles, phase, pc>>
        BY <1>10 DEF ReadyzReadsResult, service, world
    <2>3. probe' = [probe EXCEPT ![r] = [at |-> "read", cycle |-> lastResult.cycle]]
        BY <1>10 DEF ReadyzReadsResult
    <2>4. \A q \in Readers : probe'[q].at \in {"read", "replied"} => probe'[q].cycle # 0
        BY <2>1, <2>3 DEF ProcessTypeOK
    <2> QED
        BY <2>2, <2>4 DEF Active
<1>11. ASSUME NEW r \in Readers, ReadyzReplies(r)
       PROVE  ResultInv'
    <2>1. UNCHANGED <<lastResult, cycles, phase, pc>>
        BY <1>11 DEF ReadyzReplies, service, world
    <2>2. probe' = [probe EXCEPT ![r] =
                        [at |-> "replied", cycle |-> probe[r].cycle, ok |-> ready]]
        BY <1>11 DEF ReadyzReplies
    <2>3. probe[r].cycle # 0
        BY <1>11 DEF ReadyzReplies
    <2>4. \A q \in Readers : probe'[q].at \in {"read", "replied"} => probe'[q].cycle # 0
        BY <2>2, <2>3 DEF ProcessTypeOK
    <2> QED
        BY <2>1, <2>4 DEF Active
<1>12. CASE Tick \/ Signal \/ ClockTick \/ UNCHANGED vars
    BY <1>12 DEF Tick, Signal, ClockTick, vars, service, process, world, Active
<1>13. CASE Drain
    BY <1>13 DEF Drain, service, world, Active
<1>14. CASE Exit
    BY <1>14 DEF Exit, NoResult, NoProbe, Active, InCycle, Examining, Sending
<1>15. CASE Restart
    <2>1. \A q \in Callers : ~Active(q)'
        BY <1>15 DEF Restart, CallersInPlace, Active, InCycle, Examining, Sending
    <2>2. UNCHANGED <<lastResult, cycles, probe>>
        BY <1>15 DEF Restart, service
    <2>3. phase' = "starting" /\ pc'["startup"] = "call"
        BY <1>15, CallersFacts DEF Restart
    <2>4. ResultBehind'
        BY <2>1, <2>2
    <2>5. ServedAfterResult'
        BY <2>2, <2>3
    <2> QED
        BY <2>4, <2>5
<1> QED
    BY <1>1, <1>2, <1>3, <1>4, <1>5, <1>6, <1>7, <1>8, <1>9, <1>10, <1>11, <1>12, <1>13,
       <1>14, <1>15, MiddleSteps DEF Next, Stopped

LEMMA ResultsInv == Spec => []ResultInv
<1>1. Init => ResultInv
    <2> SUFFICES ASSUME Init PROVE ResultInv
        OBVIOUS
    <2>1. lastResult.cycle = 0 /\ cycles = 0 /\ phase = "starting"
        BY DEF Init, NewProcess, NoResult
    <2>2. pc["startup"] = "call" /\ \A p \in Callers : ~Active(p)
        BY CallersFacts DEF Init, Active, InCycle, Examining, Sending
    <2>3. \A r \in Readers : probe[r].at = "idle"
        BY DEF Init, NewProcess, NoProbe
    <2> QED
        BY <2>1, <2>2, <2>3 DEF ResultInv, ResultBehind, ServedAfterResult
<1>2. TypeOK /\ TypeOK' /\ CycleLock /\ SendInv /\ ResultInv /\ [Next]_vars => ResultInv'
    BY ResultStep
<1> QED
    BY <1>1, <1>2, TypeCorrect, CyclesExclude, SendsInv, PTL DEF Spec

\* A 200 of /readyz carries the id of a finished cycle, although the handler reads the
\* result and the flag under two locks.
THEOREM ReadyzIsHonest == Spec => []ReadyzHonest
<1>1. ResultInv => ReadyzHonest
    BY DEF ResultInv, ServedAfterResult, ReadyzHonest
<1> QED
    BY <1>1, ResultsInv, PTL

\* A stored result is only ever replaced by the result of a later cycle, whichever
\* caller ran it.
THEOREM ResultsAdvance == Spec => ResultsInOrder
<1> DEFINE Advance == lastResult' # lastResult /\ lastResult' # NoResult
                        => lastResult'.cycle > lastResult.cycle
<1>1. ASSUME TypeOK, CycleLock, SendInv, ResultInv, Next
      PROVE  Advance
    <2>1. ASSUME NEW p \in Callers, PersistResult(p)
          PROVE  Advance
        <3>1. report[p].cycle = cycles /\ lastResult.cycle < cycles
            BY <1>1, <2>1 DEF PersistResult, SendInv, CyclesNumbered, ResultInv,
                              ResultBehind, Active, InCycle
        <3> QED
            BY <1>1, <2>1, <3>1, ResultCycleType DEF PersistResult, Persist
    <2>2. ASSUME NEW p \in Callers, CallerStep(p), ~PersistResult(p)
          PROVE  lastResult' = lastResult
        BY <1>1, <2>2, MiddleSteps DEF MiddleOfCycle, EnterRunCycle, RefuseRunCycle,
                                      FinishCycle, service
    <2>3. CASE Exit
        BY <2>3 DEF Exit
    <2>4. ASSUME NEW p \in Manual, ManualTrigger(p) \/ ClientGone(p)
          PROVE  lastResult' = lastResult
        BY <2>4 DEF ManualTrigger, ClientGone, service
    <2>5. ASSUME NEW post \in wire, Take(post) \/ Lose(post)
          PROVE  lastResult' = lastResult
        BY <2>5 DEF Take, Lose, PeerUnchanged, service
    <2>6. ASSUME NEW r \in Readers, ReadyzReadsResult(r) \/ ReadyzReplies(r)
          PROVE  lastResult' = lastResult
        BY <2>6 DEF ReadyzReadsResult, ReadyzReplies, service
    <2>7. ASSUME StartServing \/ Tick \/ SchedulerReceivesTick \/ SchedulerStops
                 \/ Signal \/ Drain \/ Restart \/ Stopped \/ ClockTick
          PROVE  lastResult' = lastResult
        BY <2>7 DEF StartServing, Tick, SchedulerReceivesTick, SchedulerStops, Signal,
                    Drain, Restart, Stopped, ClockTick, vars, service
    <2> QED
        BY <1>1, <2>1, <2>2, <2>3, <2>4, <2>5, <2>6, <2>7 DEF Next
<1> QED
    BY <1>1, TypeCorrect, CyclesExclude, SendsInv, ResultsInv, PTL DEF Spec,
                                                                       ResultsInOrder

------------------------------------------------------------------------------
(* A command has its grounds and its number of deliveries: the invariant *)

\* A request in a retry loop is one of MaxAttempts, and a pause is followed by another.
AttemptsBounded ==
    \A p \in Callers :
        /\ pc[p] \in {"inventory", "parser"} \cup Sending => attempt[p] \in 1..MaxAttempts
        /\ sleeping[p] => attempt[p] < MaxAttempts

PostsNumbered == \A post \in wire \cup taken : post.attempt \in 1..MaxAttempts

\* A cooldown is about to be written only for a POST that was taken.
MarkedTaken ==
    \A p \in Callers : pc[p] = "mark" => Post(cmd[p], attempt[p]) \in taken

DeliveryInv ==
    /\ AttemptsBounded /\ PostsNumbered /\ MarkedTaken /\ CooldownEarned
    /\ CommandJustified

\* What a command in flight was decided from is still there.
SameGrounds(p) ==
    /\ host'[p] = host[p] /\ comp'[p] = comp[p] /\ cmd'[p] = cmd[p]
    /\ actual'[p] = actual[p] /\ desired'[p] = desired[p]
    /\ report'[p].cycle = report[p].cycle

\* A step that neither decides, sends, learns of an acceptance nor marks.
KeepsDelivery ==
    /\ lastSent' = lastSent
    /\ taken \subseteq taken' /\ wire' \cup taken' \subseteq wire \cup taken
    /\ \A p \in Callers :
        /\ pc'[p] \in Sending => pc[p] \in Sending /\ SameGrounds(p)
        /\ pc'[p] = "mark" => pc[p] = "mark" /\ attempt'[p] = attempt[p]
    /\ AttemptsBounded'

------------------------------------------------------------------------------
(* A verdict and its grounds *)

\* The grounds of the command of p.
Justified(p) ==
    LET d == DesiredHost(p)
        a == actual[p].hosts[MatchedHost(p)]
    IN  /\ MatchedHost(p) # 0
        /\ cmd[p].key = CommandKey(p) /\ cmd[p].cycle = report[p].cycle
        /\ Wanted(d, Component(p))
        /\ ~(IsSourceHealthy(a, Cadvisor) /\ HasWorkload(a, Component(p)))
        /\ Component(p) = NodeExporter => IsSourceHealthy(a, Cadvisor)

LEMMA JustifiedMeans ==
    /\ CommandJustified <=> \A p \in Callers : pc[p] \in Sending => Justified(p)
    /\ CommandJustified' <=> \A p \in Callers : pc'[p] \in Sending => Justified(p)'
BY DEF CommandJustified, Justified

LEMMA JustifiedKept ==
    ASSUME NEW p \in Callers, Justified(p), SameGrounds(p)
    PROVE  Justified(p)'
<1>1. DesiredHost(p)' = DesiredHost(p) /\ Component(p)' = Component(p)
    BY DEF DesiredHost, Component, SameGrounds
<1>2. MatchedHost(p)' = MatchedHost(p)
    BY <1>1 DEF MatchedHost, SameGrounds
<1>3. CommandKey(p)' = CommandKey(p)
    BY <1>1, <1>2 DEF CommandKey, SameGrounds
<1> QED
    BY <1>1, <1>2, <1>3 DEF Justified, SameGrounds

------------------------------------------------------------------------------
(* Grounds and deliveries, step by step *)

\* The updates of the reports keep their cycles.
LEMMA ReportCycles ==
    ASSUME TypeOK, NEW p \in Callers, GiveUp(p)
    PROVE  \A q \in Callers : report'[q].cycle = report[q].cycle
BY DEF GiveUp, TypeOK, LocalsTypeOK, Reports

LEMMA CallSteps ==
    ASSUME TypeOK, AttemptsBounded, NEW p \in Callers, NEW b \in BOOLEAN,
           pc[p] \in {"inventory", "parser", "send", "wait"},
           taken' = taken, wire' \subseteq wire, CallUnchanged,
           CallFails(p, b) \/ (GiveUp(p) /\ sleeping' = [sleeping EXCEPT ![p] = FALSE]),
           sleeping[p] => sleeping'[p] = FALSE
    PROVE  KeepsDelivery
<1> USE DEF TypeOK, LocalsTypeOK
<1>1. CASE MayRetry(p, b) /\ CallFails(p, b)
    <2>1. /\ sleeping' = [sleeping EXCEPT ![p] = TRUE]
          /\ pc' = [pc EXCEPT ![p] = IF @ = "wait" THEN "send" ELSE @]
          /\ UNCHANGED <<report, comp, cmd, attempt>>
          /\ attempt[p] < MaxAttempts
        BY <1>1 DEF CallFails, MayRetry
    <2>2. AttemptsBounded'
        BY <2>1 DEF AttemptsBounded, Sending
    <2>3. \A q \in Callers : SameGrounds(q)
        BY <2>1 DEF SameGrounds, CallUnchanged
    <2> QED
        BY <2>1, <2>2, <2>3 DEF KeepsDelivery, CallUnchanged, service, Sending
<1>2. CASE GiveUp(p) /\ sleeping'[p] = FALSE /\ \A q \in Callers : q # p => sleeping'[q] = sleeping[q]
    <2>1. \A q \in Callers : q # p => UNCHANGED <<pc[q], comp[q], cmd[q], attempt[q], sleeping[q]>>
        BY <1>2 DEF GiveUp
    <2>2. pc'[p] \in {"failed", "component"}
        BY <1>2 DEF GiveUp
    <2>3. AttemptsBounded'
        BY <1>2, <2>1, <2>2 DEF AttemptsBounded, Sending
    <2>4. \A q \in Callers : q # p => SameGrounds(q)
        BY <1>2, <2>1, ReportCycles DEF SameGrounds, CallUnchanged
    <2> QED
        BY <2>1, <2>2, <2>3, <2>4 DEF KeepsDelivery, CallUnchanged, service, Sending
<1> QED
    BY <1>1, <1>2 DEF CallFails

LEMMA KeepSteps ==
    ASSUME TypeOK, AttemptsBounded, [Next]_vars
    PROVE  \/ \E p \in Callers : \/ DecideCommand(p) \/ SendPost(p) \/ Acknowledged(p)
                                 \/ MarkCommand(p)
           \/ Exit
           \/ KeepsDelivery
<1> USE DEF KeepsDelivery, SameGrounds, Sending, TypeOK, LocalsTypeOK
<1>1. ASSUME NEW p \in Callers, CallerStep(p), ~DecideCommand(p), ~SendPost(p),
             ~Acknowledged(p), ~MarkCommand(p)
      PROVE  KeepsDelivery
    <2>1. CASE EnterRunCycle(p)
        <3>1. ~sleeping[p] /\ MaxAttempts \in Nat \ {0}
            BY <2>1, ConstantsAssumption DEF EnterRunCycle, LocalsInPlace
        <3>2. AttemptsBounded'
            BY <2>1, <3>1 DEF EnterRunCycle, AttemptsBounded
        <3> QED
            BY <2>1, <3>2 DEF EnterRunCycle, process
    <2>2. CASE RefuseRunCycle(p)
        BY <2>2, CallersFacts DEF RefuseRunCycle, service, locals, world, AttemptsBounded
    <2>3. CASE PersistResult(p)
        BY <2>3 DEF PersistResult, Persist, locals, world, AttemptsBounded
    <2>4. CASE FinishCycle(p)
        BY <2>4, CallersFacts DEF FinishCycle, world, AttemptsBounded
    <2>5. CASE PauseEnds(p)
        <3>1. attempt'[p] = attempt[p] + 1 /\ attempt[p] < MaxAttempts /\ ~sleeping'[p]
              /\ attempt[p] \in Nat
            BY <2>5 DEF PauseEnds, NextAttempt, AttemptsBounded
        <3>2. AttemptsBounded'
            BY <2>5, <3>1, ConstantsAssumption DEF PauseEnds, AttemptsBounded, LocalsInPlace
        <3>3. pc[p] # "mark"
            BY <2>5 DEF PauseEnds, LocalsInPlace
        <3> QED
            BY <2>5, <3>2, <3>3 DEF PauseEnds, CallUnchanged, service
    <2>6. CASE PauseCancelled(p)
        BY <2>6, CallSteps DEF PauseCancelled, LocalsInPlace
    <2>7. CASE FetchFails(p) \/ SendCancelled(p)
        BY <2>7, CallSteps DEF FetchFails, SendCancelled
    <2>8. CASE NoReply(p) \/ Refused(p) \/ UnreadableReply(p)
        <3>1. ~sleeping[p]
            BY <2>8 DEF NoReply, Refused, UnreadableReply, LocalsInPlace
        <3> QED
            BY <2>8, <3>1, CallSteps DEF NoReply, Refused, UnreadableReply
    <2>9. CASE FetchActualState(p)
        <3>1. AttemptsBounded'
            BY <2>9, ConstantsAssumption DEF FetchActualState, AttemptsBounded
        <3> QED
            BY <2>9, <3>1 DEF FetchActualState, service, world
    <2>10. CASE FetchDesiredState(p)
        <3>1. AttemptsBounded'
            BY <2>10 DEF FetchDesiredState, AttemptsBounded
        <3> QED
            BY <2>10, <3>1 DEF FetchDesiredState, service, world
    <2>11. CASE SkipHost(p) \/ CompareHost(p) \/ HostsCompared(p) \/ ComponentsCompared(p)
                \/ NoDrift(p) \/ SuppressDrift(p)
        <3>1. AttemptsBounded'
            BY <2>11 DEF SkipHost, CompareHost, HostsCompared, ComponentsCompared, NoDrift,
                         SuppressDrift, LocalStep, AttemptsBounded
        <3> QED
            BY <2>11, <3>1 DEF SkipHost, CompareHost, HostsCompared, ComponentsCompared,
                         NoDrift, SuppressDrift, LocalStep, service, world
    <2> QED
        BY <1>1, <2>1, <2>2, <2>3, <2>4, <2>5, <2>6, <2>7, <2>8, <2>9, <2>10, <2>11
           DEF CallerStep
<1>2. ASSUME NEW p \in Manual, ManualTrigger(p) \/ ClientGone(p)
      PROVE  KeepsDelivery
    BY <1>2, CallersFacts DEF ManualTrigger, ClientGone, service, locals, world,
                              AttemptsBounded, LocalsInPlace
<1>3. ASSUME NEW post \in wire, Take(post) \/ Lose(post)
      PROVE  KeepsDelivery
    BY <1>3 DEF Take, Lose, PeerUnchanged, service, locals, AttemptsBounded
<1>4. CASE StartServing
    BY <1>4 DEF StartServing, service, locals, world, AttemptsBounded
<1>5. CASE SchedulerReceivesTick \/ SchedulerStops
    BY <1>5, CallersFacts DEF SchedulerReceivesTick, SchedulerStops, service, locals,
                              world, AttemptsBounded
<1>6. ASSUME NEW r \in Readers, ReadyzReadsResult(r) \/ ReadyzReplies(r)
      PROVE  KeepsDelivery
    BY <1>6 DEF ReadyzReadsResult, ReadyzReplies, service, locals, world, AttemptsBounded
<1>7. CASE Tick \/ Signal \/ Drain \/ UNCHANGED vars
    BY <1>7 DEF Tick, Signal, Drain, vars, service, locals, world, AttemptsBounded
<1>8. CASE ClockTick
    BY <1>8 DEF ClockTick, service, locals, AttemptsBounded
<1>9. CASE Restart
    BY <1>9, CallersFacts DEF Restart, service, locals, AttemptsBounded
<1> QED
    BY <1>1, <1>2, <1>3, <1>4, <1>5, <1>6, <1>7, <1>8, <1>9 DEF Next, Stopped

LEMMA KeepsInvariant ==
    ASSUME DeliveryInv, KeepsDelivery
    PROVE  DeliveryInv'
<1> USE DEF DeliveryInv, KeepsDelivery
<1>1. PostsNumbered'
    BY DEF PostsNumbered
<1>2. MarkedTaken'
    BY DEF MarkedTaken, SameGrounds, Sending
<1>3. CooldownEarned'
    BY DEF CooldownEarned
<1>4. CommandJustified'
    BY JustifiedMeans, JustifiedKept
<1> QED
    BY <1>1, <1>2, <1>3, <1>4

\* The other callers, in a step of p that changes only its own locals.
OthersKept(p) ==
    \A q \in Callers : q # p =>
        SameGrounds(q) /\ UNCHANGED <<pc[q], attempt[q], sleeping[q]>>

LEMMA OthersJustified ==
    ASSUME NEW p \in Callers, CommandJustified, OthersKept(p),
           pc'[p] \in Sending => Justified(p)'
    PROVE  CommandJustified'
BY JustifiedMeans, JustifiedKept DEF OthersKept

LEMMA OthersMarked ==
    ASSUME NEW p \in Callers, MarkedTaken, OthersKept(p), taken \subseteq taken',
           pc'[p] = "mark" => Post(cmd[p], attempt[p])' \in taken'
    PROVE  MarkedTaken'
BY DEF MarkedTaken, OthersKept, SameGrounds

LEMMA OthersBounded ==
    ASSUME NEW p \in Callers, AttemptsBounded, OthersKept(p),
           pc'[p] \in {"inventory", "parser"} \cup Sending => attempt'[p] \in 1..MaxAttempts,
           sleeping'[p] => attempt'[p] < MaxAttempts
    PROVE  AttemptsBounded'
BY DEF AttemptsBounded, OthersKept

LEMMA DecideStep ==
    ASSUME TypeOK, DeliveryInv, NEW p \in Callers, DecideCommand(p)
    PROVE  DeliveryInv'
<1> USE DEF DeliveryInv, TypeOK, LocalsTypeOK
<1>1. OthersKept(p) /\ ~sleeping'[p] /\ pc'[p] = "send" /\ attempt'[p] = 1
    <2>1. ~sleeping[p]
        BY DEF DecideCommand, LocalsInPlace
    <2>2. \A q \in Callers : q # p => report'[q] = report[q]
        BY DEF DecideCommand
    <2> QED
        BY <2>1, <2>2 DEF DecideCommand, OthersKept, SameGrounds
<1>2. Justified(p)'
    <2>1. pc[p] \in Examining /\ comp[p] <= Len(Enabled) /\ Verdict(p) = "drift"
        BY DEF DecideCommand, Examining
    <2>2. Component(p) \in Components
        BY <2>1, CommandKeyType
    <2>3. MatchedHost(p) # 0
        BY <2>1 DEF LocalsInPlace
    <2>4. /\ host' = host /\ comp' = comp /\ actual' = actual /\ desired' = desired
          /\ cmd'[p].key = CommandKey(p) /\ cmd'[p].cycle = report[p].cycle
        BY DEF DecideCommand
    <2>5. report'[p].cycle = report[p].cycle
        BY DEF DecideCommand, Reports
    <2>6. /\ DesiredHost(p)' = DesiredHost(p) /\ Component(p)' = Component(p)
          /\ MatchedHost(p)' = MatchedHost(p) /\ CommandKey(p)' = CommandKey(p)
        BY <2>4 DEF DesiredHost, Component, MatchedHost, CommandKey
    <2> QED
        BY <2>1, <2>2, <2>3, <2>4, <2>5, <2>6, DriftMeans DEF Justified, Verdict
<1>3. UNCHANGED <<wire, taken, lastSent>>
    BY DEF DecideCommand, service, world
<1>4. AttemptsBounded'
    <2>1. attempt'[p] \in 1..MaxAttempts
        BY <1>1, ConstantsAssumption
    <2> QED
        BY <1>1, <2>1, OthersBounded, Zenon
<1>5. MarkedTaken'
    BY <1>1, <1>3, OthersMarked
<1>6. CommandJustified'
    BY <1>1, <1>2, OthersJustified
<1>7. PostsNumbered' /\ CooldownEarned'
    BY <1>3 DEF PostsNumbered, CooldownEarned
<1> QED
    BY <1>4, <1>5, <1>6, <1>7

LEMMA SendPostStep ==
    ASSUME TypeOK, DeliveryInv, NEW p \in Callers, SendPost(p)
    PROVE  DeliveryInv'
<1> USE DEF DeliveryInv, TypeOK, LocalsTypeOK
<1>1. OthersKept(p) /\ SameGrounds(p) /\ pc'[p] = "wait"
    BY DEF SendPost, CallUnchanged, OthersKept, SameGrounds
<1>2. pc[p] \in Sending /\ UNCHANGED <<attempt, sleeping, taken, lastSent>>
    BY DEF SendPost, CallUnchanged, service, Sending
<1>3. AttemptsBounded'
    BY <1>1, <1>2, OthersBounded DEF AttemptsBounded
<1>4. PostsNumbered'
    BY <1>2 DEF SendPost, PostsNumbered, AttemptsBounded, Post
<1>5. MarkedTaken'
    BY <1>1, <1>2, OthersMarked
<1>6. CommandJustified'
    BY <1>1, <1>2, OthersJustified, JustifiedMeans, JustifiedKept
<1>7. CooldownEarned'
    BY <1>2 DEF CooldownEarned
<1> QED
    BY <1>3, <1>4, <1>5, <1>6, <1>7

LEMMA AcknowledgedStep ==
    ASSUME TypeOK, DeliveryInv, NEW p \in Callers, Acknowledged(p)
    PROVE  DeliveryInv'
<1> USE DEF DeliveryInv, TypeOK, LocalsTypeOK
<1>1. OthersKept(p) /\ SameGrounds(p) /\ pc'[p] = "mark"
    BY DEF Acknowledged, locals, OthersKept, SameGrounds
<1>2. pc[p] \in Sending /\ UNCHANGED <<attempt, sleeping, wire, taken, lastSent>>
    BY DEF Acknowledged, service, locals, world, Sending
<1>3. AttemptsBounded'
    BY <1>1, <1>2, OthersBounded DEF AttemptsBounded
<1>4. MarkedTaken'
    <2>1. Post(cmd[p], attempt[p])' \in taken'
        BY <1>1, <1>2 DEF Acknowledged, SameGrounds, Post
    <2> QED
        BY <1>1, <1>2, <2>1, OthersMarked
<1>5. CommandJustified'
    BY <1>1, <1>2, OthersJustified, JustifiedMeans, JustifiedKept
<1>6. PostsNumbered' /\ CooldownEarned'
    BY <1>2 DEF PostsNumbered, CooldownEarned
<1> QED
    BY <1>3, <1>4, <1>5, <1>6

LEMMA MarkStep ==
    ASSUME TypeOK, DeliveryInv, NEW p \in Callers, MarkCommand(p)
    PROVE  DeliveryInv'
<1> USE DEF DeliveryInv, TypeOK, LocalsTypeOK
<1>1. OthersKept(p) /\ pc'[p] = "component" /\ sleeping' = sleeping
    <2>1. \A q \in Callers : q # p => report'[q] = report[q]
        BY DEF MarkCommand
    <2> QED
        BY <2>1 DEF MarkCommand, OthersKept, SameGrounds
<1>2. pc'[p] \notin Sending \cup {"inventory", "parser"} /\ ~sleeping[p]
    BY <1>1 DEF Sending, MarkCommand, LocalsInPlace
<1>3. UNCHANGED <<wire, taken>>
    BY DEF MarkCommand
<1>4. CooldownEarned'
    <2> DEFINE post == Post(cmd[p], attempt[p])
    <2>1. post \in taken /\ post.cmd = cmd[p]
        BY DEF MarkCommand, MarkedTaken, Post
    <2>2. lastSent' = [lastSent EXCEPT ![cmd[p].key] = cmd[p].decided]
        BY DEF MarkCommand, MarkSent
    <2> HIDE DEF post
    <2>3. SUFFICES ASSUME NEW k \in Key, lastSent'[k] # Never
                   PROVE  \E t \in taken : t.cmd.key = k /\ t.cmd.decided = lastSent'[k]
        BY <1>3 DEF CooldownEarned
    <2>4. CASE k = cmd[p].key
        BY <2>1, <2>2, <2>4 DEF ServiceTypeOK
    <2>5. CASE k # cmd[p].key
        BY <2>2, <2>3, <2>5 DEF ServiceTypeOK, CooldownEarned
    <2> QED
        BY <2>4, <2>5
<1>5. AttemptsBounded'
    BY <1>1, <1>2, OthersBounded
<1>6. MarkedTaken'
    BY <1>1, <1>3, OthersMarked
<1>7. CommandJustified'
    BY <1>1, <1>2, OthersJustified
<1>8. PostsNumbered'
    BY <1>3 DEF PostsNumbered
<1> QED
    BY <1>4, <1>5, <1>6, <1>7, <1>8

\* A process without commands.
LEMMA NothingSent ==
    ASSUME \A p \in Callers : pc[p] \in {"off", "call"} /\ ~sleeping[p],
           wire = {}, taken = {}, lastSent = [k \in Key |-> Never]
    PROVE  DeliveryInv
BY DEF DeliveryInv, AttemptsBounded, PostsNumbered, MarkedTaken, CooldownEarned,
       CommandJustified, Sending

LEMMA ExitStep ==
    ASSUME Exit PROVE DeliveryInv'
BY DEF Exit, DeliveryInv, AttemptsBounded, PostsNumbered, MarkedTaken, CooldownEarned,
       CommandJustified, Sending

------------------------------------------------------------------------------
(* Grounds and deliveries: the theorems *)

LEMMA DeliveryAlways == Spec => []DeliveryInv
<1>1. Init => DeliveryInv
    BY NothingSent DEF Init, NewProcess, FreshLocals
<1>2. TypeOK /\ DeliveryInv /\ [Next]_vars => DeliveryInv'
    BY KeepSteps, KeepsInvariant, DecideStep, SendPostStep, AcknowledgedStep, MarkStep,
       ExitStep DEF DeliveryInv
<1> QED
    BY <1>1, <1>2, TypeCorrect, PTL DEF Spec

\* A key is suppressed only from the decision of a command of which ReconcilerSvc really
\* took a POST, whatever replies were lost and whoever ran the cycle.
THEOREM CooldownsAreEarned == Spec => []CooldownEarned
BY DeliveryAlways, PTL DEF DeliveryInv

\* A command in flight is one that the desired host of its very cycle wants and that the
\* inventory answer of that cycle does not show, for any hosts, names and sources.
THEOREM CommandsAreJustified == Spec => []CommandJustified
BY DeliveryAlways, PTL DEF DeliveryInv

LEMMA AttemptsOfOne ==
    ASSUME TypeOK, PostsNumbered, NEW c
    PROVE  Cardinality({q \in wire \cup taken : q.cmd = c}) <= MaxAttempts
<1> DEFINE S == {q \in wire \cup taken : q.cmd = c}
           f == [q \in S |-> q.attempt]
<1>1. \A q \in S : q \in Posts /\ q.cmd = c /\ q.attempt \in 1..MaxAttempts
    BY DEF TypeOK, WorldTypeOK, PostsNumbered
<1>2. \A q, r \in S : q.attempt = r.attempt => q = r
    BY <1>1 DEF Posts
<1>3. f \in Injection(S, 1..MaxAttempts)
    BY <1>1, <1>2 DEF Injection, IsInjective
<1>4. IsFiniteSet(1..MaxAttempts) /\ Cardinality(1..MaxAttempts) = MaxAttempts
    BY FS_Interval, ConstantsAssumption
<1> HIDE DEF f
<1>5. Cardinality(S) <= Cardinality(1..MaxAttempts)
    BY <1>3, <1>4, FS_Injection
<1> QED
    BY <1>4, <1>5

\* However replies are lost and requests repeated, ReconcilerSvc sees a command at most
\* MaxAttempts times.
THEOREM DeliveryIsBounded == Spec => []BoundedDelivery
<1>1. TypeOK /\ DeliveryInv => BoundedDelivery
    BY AttemptsOfOne DEF DeliveryInv, BoundedDelivery
<1> QED
    BY <1>1, TypeCorrect, DeliveryAlways, PTL

------------------------------------------------------------------------------
(* The components there are *)

\* The application registers a detector for every component that may be enabled; a
\* component without one is counted as an error although nothing drifted.
AllRegistered == \A i \in DOMAIN Enabled : Enabled[i] \in Registered

------------------------------------------------------------------------------
(* Reports that add up *)

\* Report r accounts for n hosts, with `open` drifts that are neither sent, suppressed nor
\* failed yet.
Balanced(r, n, open) ==
    /\ r.compared + r.noHost = n
    /\ r.drifts = r.sent + r.suppressed + r.errors + open
    /\ r.noHost + r.noData > 0 => r.partial

\* What no step of the comparison changes.
SameTotals(q, r) == q.cycle = r.cycle /\ q.desired = r.desired

LEMMA NewBalance ==
    ASSUME NEW id, NEW b, NEW n
    PROVE  LET q == [NewReport(id) EXCEPT !.partial = b, !.desired = n]
           IN  Balanced(q, 0, 0) /\ q.desired = n /\ q.sent = 0 /\ q.cycle = id
<1> DEFINE r == [NewReport(id) EXCEPT !.partial = b]
           q == [NewReport(id) EXCEPT !.partial = b, !.desired = n]
<1>1. r = [cycle |-> id, partial |-> b, desired |-> 0, compared |-> 0, noHost |-> 0,
           noData |-> 0, drifts |-> 0, sent |-> 0, suppressed |-> 0, errors |-> 0]
    BY DEF NewReport
<1>2. q = [r EXCEPT !.desired = n]
    OBVIOUS
<1> HIDE DEF r
<1>3. q = [cycle |-> id, partial |-> b, desired |-> n, compared |-> 0, noHost |-> 0,
           noData |-> 0, drifts |-> 0, sent |-> 0, suppressed |-> 0, errors |-> 0]
    BY <1>1, <1>2
<1> HIDE DEF q
<1>4. Balanced(q, 0, 0) /\ q.desired = n /\ q.sent = 0 /\ q.cycle = id
    BY <1>3 DEF Balanced
<1> QED
    BY <1>4 DEF q

LEMMA SkipBalance ==
    ASSUME NEW r \in Reports, NEW n \in Nat \ {0}, Balanced(r, n - 1, 0)
    PROVE  LET q == [r EXCEPT !.partial = TRUE, !.noHost = @ + 1]
           IN  Balanced(q, n, 0) /\ SameTotals(q, r) /\ q.sent = r.sent
BY DEF Balanced, SameTotals, Reports

LEMMA CompareBalance ==
    ASSUME NEW r \in Reports, NEW n \in Nat \ {0}, Balanced(r, n - 1, 0)
    PROVE  LET q == [r EXCEPT !.compared = @ + 1]
           IN  Balanced(q, n, 0) /\ SameTotals(q, r) /\ q.sent = r.sent
BY DEF Balanced, SameTotals, Reports

LEMMA ConcludeBalance ==
    ASSUME NEW r \in Reports, NEW n \in Nat, Balanced(r, n, 0), NEW v, NEW b \in BOOLEAN,
           v # "no_detector"
    PROVE  LET q == Concluded(r, v, b)
           IN  Balanced(q, n, 0) /\ SameTotals(q, r) /\ q.sent = r.sent
<1>1. CASE v = "missing_data"
    <2> DEFINE m == IF b THEN r.noData ELSE r.noData + 1
    <2>1. m \in Nat
        BY DEF Reports
    <2>2. Concluded(r, v, b) = [r EXCEPT !.partial = TRUE, !.noData = m]
        BY <1>1 DEF Concluded
    <2> HIDE DEF m
    <2> QED
        BY <2>1, <2>2 DEF Balanced, SameTotals, Reports
<1>2. CASE v # "missing_data"
    <2>1. Concluded(r, v, b) = r
        BY <1>2 DEF Concluded
    <2> QED
        BY <2>1 DEF SameTotals
<1> QED
    BY <1>1, <1>2

LEMMA SuppressBalance ==
    ASSUME NEW r \in Reports, NEW n \in Nat, Balanced(r, n, 0)
    PROVE  LET q == CountSuppressed(r)
           IN  Balanced(q, n, 0) /\ SameTotals(q, r) /\ q.sent = r.sent
BY DEF CountSuppressed, Balanced, SameTotals, Reports

LEMMA DecideBalance ==
    ASSUME NEW r \in Reports, NEW n \in Nat, Balanced(r, n, 0)
    PROVE  LET q == [r EXCEPT !.drifts = @ + 1]
           IN  Balanced(q, n, 1) /\ SameTotals(q, r) /\ q.sent = r.sent
BY DEF Balanced, SameTotals, Reports

LEMMA FailBalance ==
    ASSUME NEW r \in Reports
    PROVE  LET q == [r EXCEPT !.errors = @ + 1]
           IN  /\ SameTotals(q, r) /\ q.sent = r.sent
               /\ \A n \in Nat : Balanced(r, n, 1) => Balanced(q, n, 0)
BY DEF Balanced, SameTotals, Reports

LEMMA SentBalance ==
    ASSUME NEW r \in Reports, NEW n \in Nat, Balanced(r, n, 1)
    PROVE  LET q == [r EXCEPT !.sent = @ + 1]
           IN  Balanced(q, n, 0) /\ SameTotals(q, r) /\ q.sent = r.sent + 1
BY DEF Balanced, SameTotals, Reports

------------------------------------------------------------------------------
(* Reports: the invariant *)

Acks(id) == {c \in acked : c.cycle = id}

\* The hosts that the report of p accounts for, and its drift in flight.
Accounted(p) == IF pc[p] \in Examining THEN host[p] ELSE host[p] - 1
Open(p)      == IF pc[p] \in Sending THEN 1 ELSE 0

\* The acknowledged commands of the cycle come before the component at hand.
AcksBehind(p) ==
    \A c \in Acks(report[p].cycle) :
        c.host < host[p] \/ (pc[p] \in Examining /\ c.host = host[p] /\ c.comp < comp[p])

\* While the hosts are compared.
Comparing(p) ==
    /\ Balanced(report[p], Accounted(p), Open(p))
    /\ report[p].desired = Len(desired[p].hosts)
    /\ report[p].sent = Cardinality(Acks(report[p].cycle))
    /\ host[p] <= Len(desired[p].hosts) + 1
    /\ pc[p] = "completed" => host[p] = Len(desired[p].hosts) + 1
    /\ pc[p] \in Sending => cmd[p].comp = comp[p]
    /\ desired[p] \in DesiredStates /\ host[p] # 0
    /\ AcksBehind(p)

AccountOf(p) ==
    /\ pc[p] \in {"inventory", "parser"} =>
        report[p] = NewReport(report[p].cycle) /\ Acks(report[p].cycle) = {}
    /\ pc[p] = "failed" => report[p].desired = 0
    /\ pc[p] \in {"host", "completed"} \cup Examining => Comparing(p)

AccountInv ==
    /\ IsFiniteSet(acked) /\ \A c \in acked : c.cycle <= cycles
    /\ \A p \in Callers : AccountOf(p)
    /\ ReportAddsUp

\* What the account of p is made of, apart from its place.
SameAccount(p) ==
    /\ report'[p] = report[p] /\ host'[p] = host[p] /\ comp'[p] = comp[p]
    /\ cmd'[p] = cmd[p] /\ desired'[p] = desired[p]

LEMMA AccountKept ==
    ASSUME NEW p \in Callers, AccountOf(p), SameAccount(p), acked' = acked,
           \/ pc'[p] = pc[p]
           \/ pc[p] \in Sending /\ pc'[p] \in Sending
           \/ pc[p] = "inventory" /\ pc'[p] = "parser"
           \/ pc'[p] \in {"off", "idle", "call", "release"}
    PROVE  AccountOf(p)'
<1>1. Acks(report[p].cycle)' = Acks(report[p].cycle)
    BY DEF Acks, SameAccount
<1>2. CASE pc'[p] = pc[p] \/ (pc[p] \in Sending /\ pc'[p] \in Sending)
    <2>1. Accounted(p)' = Accounted(p) /\ Open(p)' = Open(p)
        BY <1>2 DEF Accounted, Open, SameAccount, Examining, Sending
    <2>2. AcksBehind(p) => AcksBehind(p)'
        BY <1>1, <1>2 DEF AcksBehind, SameAccount, Examining, Sending
    <2>3. Comparing(p) => Comparing(p)'
        BY <1>1, <1>2, <2>1, <2>2 DEF Comparing, SameAccount, Sending
    <2> QED
        BY <1>1, <1>2, <2>3 DEF AccountOf, SameAccount, Examining, Sending
<1>3. CASE pc[p] = "inventory" /\ pc'[p] = "parser"
    BY <1>1, <1>3 DEF AccountOf, SameAccount, Examining, Sending
<1>4. CASE pc'[p] \in {"off", "idle", "call", "release"}
    BY <1>4 DEF AccountOf, Examining, Sending
<1> QED
    BY <1>2, <1>3, <1>4

\* A step of one caller that neither stores a result nor marks a command.
LEMMA OneAccount ==
    ASSUME AccountInv, NEW p \in Callers, TypeOK,
           UNCHANGED <<lastResult, acked>>, cycles' \in {cycles, cycles + 1},
           \A q \in Callers : q # p => SameAccount(q) /\ pc'[q] = pc[q],
           AccountOf(p)'
    PROVE  AccountInv'
<1>1. \A q \in Callers : AccountOf(q)'
    BY AccountKept DEF AccountInv
<1>2. ReportAddsUp'
    BY DEF AccountInv, ReportAddsUp
<1>3. \A c \in acked' : c.cycle <= cycles'
    BY DEF AccountInv, TypeOK, WorldTypeOK, Commands
<1> QED
    BY <1>1, <1>2, <1>3 DEF AccountInv

------------------------------------------------------------------------------
(* Reports, step by step *)

\* Host and list lengths are numbers.
LEMMA CompareNumbers ==
    ASSUME TypeOK, NEW p \in Callers
    PROVE  /\ report[p] \in Reports /\ host[p] \in Nat /\ comp[p] \in Nat
           /\ desired[p] \in DesiredStates => Len(desired[p].hosts) \in Nat
           /\ \A c \in acked : c.host \in Nat /\ c.comp \in Nat /\ c.cycle \in Nat
BY LenProperties, StatesAssumption DEF TypeOK, LocalsTypeOK, WorldTypeOK, Commands

LEMMA EnterAccount ==
    ASSUME TypeOK, AccountInv, NEW p \in Callers, EnterRunCycle(p)
    PROVE  AccountInv'
<1> USE DEF TypeOK, LocalsTypeOK
<1>1. /\ UNCHANGED <<lastResult, acked>> /\ cycles' = cycles + 1 /\ pc'[p] = "inventory"
      /\ report'[p] = NewReport(cycles + 1)
      /\ \A q \in Callers : q # p => SameAccount(q) /\ pc'[q] = pc[q]
    BY DEF EnterRunCycle, SameAccount
<1>2. report'[p] = NewReport(report'[p].cycle) /\ report'[p].cycle = cycles + 1
    BY <1>1 DEF NewReport
<1>3. Acks(report[p].cycle)' = {}
    BY <1>1, <1>2, CompareNumbers DEF Acks, AccountInv, WorldTypeOK
<1>4. AccountOf(p)'
    BY <1>1, <1>2, <1>3 DEF AccountOf, Examining, Sending
<1> QED
    BY <1>1, <1>4, OneAccount

\* The request of a fetch or of a send is repeated, or its answer is there.
LEMMA SameAccountStep ==
    ASSUME TypeOK, AccountInv, NEW p \in Callers,
           UNCHANGED <<lastResult, acked, cycles, report, host, comp, cmd, desired>>,
           \A q \in Callers : q # p => pc'[q] = pc[q],
           \/ pc'[p] = pc[p]
           \/ pc[p] \in Sending /\ pc'[p] \in Sending
           \/ pc[p] = "inventory" /\ pc'[p] = "parser"
           \/ pc'[p] \in {"off", "idle", "call", "release"}
    PROVE  AccountInv'
<1>1. \A q \in Callers : SameAccount(q)
    BY DEF SameAccount
<1>2. AccountOf(p)'
    BY <1>1, AccountKept DEF AccountInv
<1> QED
    BY <1>1, <1>2, OneAccount

LEMMA GiveUpAccount ==
    ASSUME TypeOK, AccountInv, NEW p \in Callers, GiveUp(p), CallUnchanged,
           pc[p] \in {"inventory", "parser", "send", "wait"}
    PROVE  AccountInv'
<1> USE DEF TypeOK, LocalsTypeOK
<1> DEFINE failed == [report[p] EXCEPT !.errors = @ + 1]
<1>1. report' = [report EXCEPT ![p] = failed]
    BY DEF GiveUp
<1>2. /\ SameTotals(failed, report[p]) /\ failed.sent = report[p].sent
      /\ \A n \in Nat : Balanced(report[p], n, 1) => Balanced(failed, n, 0)
    BY FailBalance, CompareNumbers
<1> HIDE DEF failed
<1>3. report'[p] = failed
    BY <1>1
<1>4. /\ UNCHANGED <<lastResult, acked, cycles, host, desired>>
      /\ \A q \in Callers : q # p => SameAccount(q) /\ pc'[q] = pc[q]
    BY <1>1 DEF GiveUp, CallUnchanged, service, SameAccount
<1>5. Acks(report[p].cycle)' = Acks(report[p].cycle)
    BY <1>2, <1>3, <1>4 DEF Acks, SameTotals
<1>6. AccountOf(p)'
    <2>1. CASE pc[p] \in {"inventory", "parser"}
        <3>1. pc'[p] = "failed"
            BY <2>1 DEF GiveUp
        <3>2. report[p] = NewReport(report[p].cycle)
            BY <2>1 DEF AccountInv, AccountOf
        <3>3. report[p].desired = 0
            BY <3>2 DEF NewReport
        <3>4. report'[p].desired = 0
            BY <1>2, <1>3, <3>3 DEF SameTotals
        <3> QED
            BY <3>1, <3>4 DEF AccountOf, Examining, Sending
    <2>2. CASE pc[p] \in {"send", "wait"}
        <3>1. pc'[p] = "component" /\ comp'[p] = comp[p] + 1
            BY <2>2 DEF GiveUp
        <3>2. Comparing(p) /\ Accounted(p) = host[p] /\ Open(p) = 1
            BY <2>2 DEF AccountInv, AccountOf, Accounted, Open, Examining, Sending
        <3>3. Accounted(p)' = host[p] /\ Open(p)' = 0
            BY <1>4, <3>1 DEF Accounted, Open, Examining, Sending
        <3>4. Balanced(report[p], Accounted(p), Open(p))'
            BY <1>2, <1>3, <3>2, <3>3, CompareNumbers DEF Comparing, Balanced
        <3>5. AcksBehind(p)'
            BY <1>4, <1>5, <2>2, <3>1, <3>2, CompareNumbers
               DEF Comparing, AcksBehind, Acks, Examining, Sending
        <3>6. Comparing(p)'
            BY <1>2, <1>3, <1>4, <1>5, <3>1, <3>2, <3>4, <3>5
               DEF Comparing, SameTotals, Sending
        <3> QED
            BY <3>1, <3>6 DEF AccountOf
    <2> QED
        BY <2>1, <2>2
<1> QED
    BY <1>4, <1>6, OneAccount

LEMMA CallFailsAccount ==
    ASSUME TypeOK, AccountInv, NEW p \in Callers, NEW b \in BOOLEAN, CallFails(p, b),
           CallUnchanged, pc[p] \in {"inventory", "parser", "send", "wait"}
    PROVE  AccountInv'
<1>1. CASE MayRetry(p, b)
    <2>1. /\ UNCHANGED <<report, comp, cmd>>
          /\ pc' = [pc EXCEPT ![p] = IF @ = "wait" THEN "send" ELSE @]
        BY <1>1 DEF CallFails
    <2>2. UNCHANGED <<lastResult, acked, cycles, host, desired>>
        BY DEF CallUnchanged, service
    <2>3. pc'[p] = pc[p] \/ (pc[p] \in Sending /\ pc'[p] \in Sending)
        BY <2>1 DEF Sending, TypeOK, LocalsTypeOK
    <2>4. \A q \in Callers : q # p => pc'[q] = pc[q]
        BY <2>1 DEF TypeOK, LocalsTypeOK
    <2> QED
        BY <2>1, <2>2, <2>3, <2>4, SameAccountStep
<1>2. CASE ~MayRetry(p, b)
    BY <1>2, GiveUpAccount DEF CallFails
<1> QED
    BY <1>1, <1>2

LEMMA FetchDesiredAccount ==
    ASSUME TypeOK, AccountInv, NEW p \in Callers, FetchDesiredState(p)
    PROVE  AccountInv'
<1> USE DEF TypeOK, LocalsTypeOK
<1>1. PICK s \in DesiredStates :
        /\ desired' = [desired EXCEPT ![p] = s]
        /\ report' = [report EXCEPT ![p].partial = actual[p].isPartial \/ ~s.ready,
                                    ![p].desired = Len(s.hosts)]
    BY DEF FetchDesiredState
<1> DEFINE b == actual[p].isPartial \/ ~s.ready
           prepared == [report[p] EXCEPT !.partial = b, !.desired = Len(s.hosts)]
<1>2. report' = [report EXCEPT ![p] = prepared]
    BY <1>1
<1>3. b \in BOOLEAN /\ Len(s.hosts) \in Nat
    <2>1. actual[p].isPartial \in BOOLEAN /\ s.ready \in BOOLEAN
        BY StatesAssumption DEF LocalsInPlace, FetchDesiredState
    <2>2. s.hosts \in Seq(DesiredHosts)
        BY StatesAssumption
    <2> QED
        BY <2>1, <2>2, LenProperties
<1>4. report[p] = NewReport(report[p].cycle) /\ Acks(report[p].cycle) = {}
    BY DEF FetchDesiredState, AccountInv, AccountOf
<1>5. /\ Balanced(prepared, 0, 0) /\ prepared.desired = Len(s.hosts)
      /\ prepared.sent = 0 /\ prepared.cycle = report[p].cycle
    <2> DEFINE id == report[p].cycle
               n == Len(s.hosts)
               fresh == [NewReport(id) EXCEPT !.partial = b, !.desired = n]
    <2>1. prepared = fresh
        BY <1>4, Zenon
    <2>2. Balanced(fresh, 0, 0) /\ fresh.desired = n /\ fresh.sent = 0 /\ fresh.cycle = id
        <3> HIDE DEF id, n, b
        <3> QED
            BY NewBalance
    <2> HIDE DEF prepared, fresh
    <2> QED
        BY <2>1, <2>2
<1> HIDE DEF prepared, b
<1>6. /\ report'[p] = prepared /\ desired'[p] = s /\ host'[p] = 1 /\ pc'[p] = "host"
      /\ UNCHANGED <<lastResult, acked, cycles>>
      /\ \A q \in Callers : q # p => SameAccount(q) /\ pc'[q] = pc[q]
    BY <1>1, <1>2 DEF FetchDesiredState, SameAccount, service, world
<1>7. Acks(report[p].cycle)' = {}
    BY <1>4, <1>5, <1>6 DEF Acks
<1>8. Accounted(p)' = 0 /\ Open(p)' = 0
    BY <1>6 DEF Accounted, Open, Examining, Sending
<1>9. Comparing(p)'
    <2>1. AcksBehind(p)'
        BY <1>7 DEF AcksBehind
    <2>2. Cardinality({}) = 0
        BY FS_EmptySet
    <2>3. Balanced(report[p], Accounted(p), Open(p))'
        BY <1>5, <1>6, <1>8
    <2>4. report'[p].desired = Len(desired'[p].hosts) /\ host'[p] <= Len(desired'[p].hosts) + 1
        BY <1>3, <1>5, <1>6
    <2>5. report'[p].sent = Cardinality(Acks(report[p].cycle)')
        BY <1>5, <1>6, <1>7, <2>2
    <2> QED
        BY <1>6, <2>1, <2>3, <2>4, <2>5 DEF Comparing, Sending
<1>10. AccountOf(p)'
    BY <1>6, <1>9 DEF AccountOf
<1> QED
    BY <1>6, <1>10, OneAccount

\* A step of the two loops, with the report it leaves.
LEMMA LoopAccount ==
    ASSUME TypeOK, AccountInv, NEW p \in Callers, NEW r,
           report' = [report EXCEPT ![p] = r], SameTotals(r, report[p]),
           r.sent = report[p].sent,
           pc[p] \in {"host", "component"},
           pc'[p] \in {"host", "component", "completed", "send"},
           UNCHANGED <<lastResult, acked, cycles, desired>>,
           \A q \in Callers : q # p =>
                UNCHANGED <<pc[q], host[q], comp[q], cmd[q]>>,
           Balanced(r, Accounted(p)', Open(p)'),
           host'[p] # 0, host'[p] <= Len(desired[p].hosts) + 1,
           pc'[p] = "completed" => host'[p] = Len(desired[p].hosts) + 1,
           pc'[p] = "send" => cmd'[p].comp = comp'[p],
           Comparing(p) => AcksBehind(p)'
    PROVE  AccountInv'
<1> USE DEF TypeOK, LocalsTypeOK
<1>1. report'[p] = r /\ \A q \in Callers : q # p => SameAccount(q)
    BY DEF SameAccount
<1>2. Comparing(p)
    BY DEF AccountInv, AccountOf, Examining
<1>3. Acks(report[p].cycle)' = Acks(report[p].cycle)
    BY <1>1 DEF Acks, SameTotals
<1>4. Comparing(p)'
    BY <1>1, <1>2, <1>3 DEF Comparing, SameTotals, Sending
<1>5. AccountOf(p)'
    BY <1>4 DEF AccountOf
<1> QED
    BY <1>1, <1>5, OneAccount

\* What the account of p says in the two loops.
LEMMA LoopFacts ==
    ASSUME TypeOK, AccountInv, NEW p \in Callers, pc[p] \in {"host", "component"}
    PROVE  /\ Comparing(p) /\ Open(p) = 0 /\ Len(desired[p].hosts) \in Nat
           /\ pc[p] = "host" =>
                Accounted(p) = host[p] - 1 /\ Balanced(report[p], host[p] - 1, 0)
           /\ pc[p] = "component" => /\ Accounted(p) = host[p]
                                     /\ Balanced(report[p], host[p], 0)
                                     /\ host[p] <= Len(desired[p].hosts)
           /\ host[p] \in Nat \ {0} /\ host[p] - 1 \in Nat
<1>1. Comparing(p) /\ Open(p) = 0
    BY DEF AccountInv, AccountOf, Open, Examining, Sending
<1>2. Accounted(p) = IF pc[p] = "component" THEN host[p] ELSE host[p] - 1
    BY DEF Accounted, Examining, Sending
<1>3. host[p] \in Nat \ {0} /\ Len(desired[p].hosts) \in Nat
    BY <1>1, CompareNumbers DEF Comparing
<1>4. pc[p] = "component" => host[p] <= Len(desired[p].hosts)
    BY DEF TypeOK, LocalsInPlace, Examining
<1> QED
    BY <1>1, <1>2, <1>3, <1>4 DEF Comparing

LEMMA SkipAccount ==
    ASSUME TypeOK, AccountInv, NEW p \in Callers, SkipHost(p)
    PROVE  AccountInv'
<1> USE DEF TypeOK, LocalsTypeOK, SkipHost
<1> DEFINE r == [report[p] EXCEPT !.partial = TRUE, !.noHost = @ + 1]
<1>1. report' = [report EXCEPT ![p] = r]
    OBVIOUS
<1>2. Balanced(r, host[p], 0) /\ SameTotals(r, report[p]) /\ r.sent = report[p].sent
    <2>1. host[p] \in Nat \ {0} /\ report[p] \in Reports /\ Balanced(report[p], host[p] - 1, 0)
        BY LoopFacts, CompareNumbers
    <2> QED
        BY <2>1, SkipBalance
<1> HIDE DEF r
<1>3. /\ UNCHANGED <<lastResult, acked, cycles, desired, comp, cmd, pc>>
      /\ host' = [host EXCEPT ![p] = @ + 1] /\ host[p] <= Len(desired[p].hosts)
      /\ pc[p] = "host"
    BY DEF LocalStep, service, world
<1>4. Accounted(p)' = host[p] /\ Open(p)' = 0
    BY <1>3, CompareNumbers DEF Accounted, Open, Examining, Sending
<1>5. Comparing(p) => AcksBehind(p)'
    <2>1. Acks(report[p].cycle)' = Acks(report[p].cycle)
        BY <1>1, <1>2, <1>3 DEF Acks, SameTotals
    <2> QED
        BY <1>3, <2>1, CompareNumbers DEF Comparing, AcksBehind, Acks, Examining, Sending
<1>6. host'[p] # 0 /\ host'[p] <= Len(desired[p].hosts) + 1
    BY <1>3, LoopFacts
<1>7. Balanced(r, Accounted(p)', Open(p)')
    BY <1>2, <1>4
<1>8. /\ pc[p] \in {"host", "component"} /\ pc'[p] \in {"host", "component"}
      /\ UNCHANGED <<lastResult, acked, cycles, desired>>
      /\ \A q \in Callers : q # p => UNCHANGED <<pc[q], host[q], comp[q], cmd[q]>>
    BY <1>3
<1> HIDE DEF SkipHost, CompareHost
<1> QED
    BY <1>1, <1>2, <1>5, <1>6, <1>7, <1>8, LoopAccount

LEMMA CompareAccount ==
    ASSUME TypeOK, AccountInv, NEW p \in Callers, CompareHost(p)
    PROVE  AccountInv'
<1> USE DEF TypeOK, LocalsTypeOK, CompareHost
<1> DEFINE r == [report[p] EXCEPT !.compared = @ + 1]
<1>1. report' = [report EXCEPT ![p] = r]
    OBVIOUS
<1>2. Balanced(r, host[p], 0) /\ SameTotals(r, report[p]) /\ r.sent = report[p].sent
    <2>1. host[p] \in Nat \ {0} /\ report[p] \in Reports /\ Balanced(report[p], host[p] - 1, 0)
        BY LoopFacts, CompareNumbers
    <2> QED
        BY <2>1, CompareBalance
<1> HIDE DEF r
<1>3. /\ UNCHANGED <<lastResult, acked, cycles, desired, host, cmd>>
      /\ comp' = [comp EXCEPT ![p] = 1] /\ pc' = [pc EXCEPT ![p] = "component"]
      /\ pc[p] = "host" /\ host[p] <= Len(desired[p].hosts)
    BY DEF LocalStep, service, world
<1>4. Accounted(p)' = host[p] /\ Open(p)' = 0
    BY <1>3 DEF Accounted, Open, Examining, Sending
<1>5. Comparing(p) => AcksBehind(p)'
    <2>1. Acks(report[p].cycle)' = Acks(report[p].cycle)
        BY <1>1, <1>2, <1>3 DEF Acks, SameTotals
    <2> QED
        BY <1>3, <2>1 DEF Comparing, AcksBehind, Examining, Sending
<1>6. host'[p] # 0 /\ host'[p] <= Len(desired[p].hosts) + 1
    BY <1>3, LoopFacts
<1>7. Balanced(r, Accounted(p)', Open(p)')
    BY <1>2, <1>4
<1>8. /\ pc[p] \in {"host", "component"} /\ pc'[p] \in {"host", "component"}
      /\ UNCHANGED <<lastResult, acked, cycles, desired>>
      /\ \A q \in Callers : q # p => UNCHANGED <<pc[q], host[q], comp[q], cmd[q]>>
    BY <1>3
<1> HIDE DEF SkipHost, CompareHost
<1> QED
    BY <1>1, <1>2, <1>5, <1>6, <1>7, <1>8, LoopAccount

\* The end of a loop.
LEMMA LoopEndAccount ==
    ASSUME TypeOK, AccountInv, NEW p \in Callers, HostsCompared(p) \/ ComponentsCompared(p)
    PROVE  AccountInv'
<1> USE DEF TypeOK, LocalsTypeOK, HostsCompared, ComponentsCompared
<1>1. /\ UNCHANGED <<lastResult, acked, cycles, desired, report, comp, cmd>>
      /\ \A q \in Callers : q # p => UNCHANGED <<pc[q], host[q]>>
    BY DEF LocalStep, service, world
<1>2. report' = [report EXCEPT ![p] = report[p]] /\ SameTotals(report[p], report[p])
    BY <1>1 DEF SameTotals
<1>3. \/ /\ pc[p] = "host" /\ pc'[p] = "completed" /\ host'[p] = host[p]
         /\ host[p] > Len(desired[p].hosts)
      \/ pc[p] = "component" /\ pc'[p] = "host" /\ host'[p] = host[p] + 1
    OBVIOUS
<1>4. Accounted(p)' = Accounted(p) /\ Open(p)' = 0
    <2>1. CASE pc[p] = "host"
        BY <1>3, <2>1 DEF Accounted, Open, Examining, Sending
    <2>2. CASE pc[p] = "component"
        <3>1. pc'[p] = "host" /\ host'[p] = host[p] + 1
            BY <1>3, <2>2
        <3>2. Accounted(p)' = (host[p] + 1) - 1 /\ Accounted(p) = host[p] /\ Open(p)' = 0
            BY <2>2, <3>1 DEF Accounted, Open, Examining, Sending
        <3> QED
            BY <3>2, CompareNumbers
    <2> QED
        BY <1>3, <2>1, <2>2
<1>5. Comparing(p) => AcksBehind(p)'
    <2>1. Acks(report[p].cycle)' = Acks(report[p].cycle)
        BY <1>1 DEF Acks
    <2> QED
        BY <1>1, <1>3, <2>1, CompareNumbers DEF Comparing, AcksBehind, Acks, Examining, Sending
<1>6. /\ host'[p] # 0 /\ host'[p] <= Len(desired[p].hosts) + 1
      /\ pc'[p] = "completed" => host'[p] = Len(desired[p].hosts) + 1
    BY <1>3, LoopFacts DEF Comparing
<1>7. Balanced(report[p], Accounted(p)', Open(p)')
    BY <1>4, LoopFacts DEF Comparing
<1> QED
    BY <1>1, <1>2, <1>3, <1>5, <1>6, <1>7, LoopAccount

\* A component is done without a command, or its command decided.
LEMMA ComponentAccount ==
    ASSUME TypeOK, AccountInv, NEW p \in Callers, NEW r, NEW open \in {0, 1},
           report' = [report EXCEPT ![p] = r], Balanced(r, host[p], open),
           SameTotals(r, report[p]), r.sent = report[p].sent,
           pc[p] = "component", UNCHANGED <<lastResult, acked, cycles, desired, host>>,
           \A q \in Callers : q # p => UNCHANGED <<pc[q], comp[q], cmd[q]>>,
           \/ open = 0 /\ pc'[p] = "component" /\ comp'[p] = comp[p] + 1
           \/ open = 1 /\ pc'[p] = "send" /\ comp'[p] = comp[p] /\ cmd'[p].comp = comp[p]
    PROVE  AccountInv'
<1> USE DEF TypeOK, LocalsTypeOK
<1>1. Accounted(p)' = host[p] /\ Open(p)' = open
    BY DEF Accounted, Open, Examining, Sending
<1>2. Comparing(p) => AcksBehind(p)'
    <2>1. Acks(report[p].cycle)' = Acks(report[p].cycle)
        BY DEF Acks, SameTotals
    <2> QED
        BY <2>1, CompareNumbers DEF Comparing, AcksBehind, Acks, Examining, Sending
<1>3. host[p] # 0 /\ host[p] <= Len(desired[p].hosts) + 1
    BY LoopFacts
<1> QED
    BY <1>1, <1>2, <1>3, LoopAccount

LEMMA NoDriftAccount ==
    ASSUME AllRegistered, TypeOK, AccountInv, NEW p \in Callers, NoDrift(p)
    PROVE  AccountInv'
<1> USE DEF TypeOK, LocalsTypeOK, NoDrift
<1>1. Verdict(p) # "no_detector"
    <2>1. comp[p] \in DOMAIN Enabled
        BY LenProperties, ConstantsAssumption DEF LocalsInPlace, Examining
    <2>2. Component(p) \in Registered /\ Component(p) \in Components
        BY <2>1, RegisteredAssumption DEF AllRegistered, Component
    <2>3. \A d, a : Detect(Component(p), d, a) # "no_detector"
        BY <2>2 DEF Detect, Components, NodeExporter, Cadvisor, NodeExporterDetect,
                    CadvisorDetect
    <2> QED
        BY <2>3 DEF Verdict
<1> DEFINE r == Concluded(report[p], Verdict(p), noData[p])
<1>2. report' = [report EXCEPT ![p] = r]
    OBVIOUS
<1>3. Balanced(r, host[p], 0) /\ SameTotals(r, report[p]) /\ r.sent = report[p].sent
    BY <1>1, LoopFacts, CompareNumbers, ConcludeBalance
<1> HIDE DEF r
<1>4. /\ UNCHANGED <<lastResult, acked, cycles, desired, host, cmd, pc>>
      /\ comp' = [comp EXCEPT ![p] = @ + 1] /\ pc[p] = "component"
    BY DEF LocalStep, service, world
<1> QED
    BY <1>2, <1>3, <1>4, ComponentAccount

LEMMA SuppressAccount ==
    ASSUME TypeOK, AccountInv, NEW p \in Callers, SuppressDrift(p)
    PROVE  AccountInv'
<1> USE DEF TypeOK, LocalsTypeOK, SuppressDrift
<1> DEFINE r == CountSuppressed(report[p])
<1>1. report' = [report EXCEPT ![p] = r]
    OBVIOUS
<1>2. Balanced(r, host[p], 0) /\ SameTotals(r, report[p]) /\ r.sent = report[p].sent
    BY LoopFacts, CompareNumbers, SuppressBalance
<1> HIDE DEF r
<1>3. /\ UNCHANGED <<lastResult, acked, cycles, desired, host, cmd, pc>>
      /\ comp' = [comp EXCEPT ![p] = @ + 1] /\ pc[p] = "component"
    BY DEF LocalStep, service, world
<1> QED
    BY <1>1, <1>2, <1>3, ComponentAccount

LEMMA DecideAccount ==
    ASSUME TypeOK, AccountInv, NEW p \in Callers, DecideCommand(p)
    PROVE  AccountInv'
<1> USE DEF TypeOK, LocalsTypeOK, DecideCommand
<1> DEFINE r == [report[p] EXCEPT !.drifts = @ + 1]
<1>1. report' = [report EXCEPT ![p] = r]
    OBVIOUS
<1>2. Balanced(r, host[p], 1) /\ SameTotals(r, report[p]) /\ r.sent = report[p].sent
    BY LoopFacts, CompareNumbers, DecideBalance
<1> HIDE DEF r
<1>3. /\ UNCHANGED <<lastResult, acked, cycles, desired, host, comp>>
      /\ pc[p] = "component" /\ pc'[p] = "send" /\ cmd'[p].comp = comp[p]
      /\ \A q \in Callers : q # p => UNCHANGED <<pc[q], cmd[q]>>
    BY DEF service, world
<1> QED
    BY <1>1, <1>2, <1>3, ComponentAccount

LEMMA MarkAccount ==
    ASSUME TypeOK, CycleLock, SendInv, ResultInv, CommandJustified, AccountInv,
           NEW p \in Callers, MarkCommand(p)
    PROVE  AccountInv'
<1> USE DEF TypeOK, LocalsTypeOK, MarkCommand
<1> DEFINE r == [report[p] EXCEPT !.sent = @ + 1]
           c == cmd[p]
<1>1. report' = [report EXCEPT ![p] = r]
    OBVIOUS
<1>2. /\ pc[p] \in Sending /\ Comparing(p) /\ Accounted(p) = host[p] /\ Open(p) = 1
      /\ Active(p)
    BY DEF AccountInv, AccountOf, Accounted, Open, Examining, Sending, Active, InCycle
<1>3. /\ c \in Commands /\ c.cycle = cycles /\ c.cycle = report[p].cycle
      /\ c.host = host[p] /\ c.comp = comp[p]
    BY <1>2 DEF LocalsInPlace, SendInv, CommandsFresh, CommandJustified, Comparing
<1>4. Balanced(r, host[p], 0) /\ SameTotals(r, report[p]) /\ r.sent = report[p].sent + 1
    BY <1>2, CompareNumbers, SentBalance DEF Comparing
<1>5. acked' = acked \cup {c} /\ c \notin acked
    <2>1. c \notin Acks(report[p].cycle)
        <3>1. host[p] \in Nat /\ comp[p] \in Nat
            OBVIOUS
        <3>2. c \in Acks(report[p].cycle) => c.host < host[p] \/ c.comp < comp[p]
            BY <1>2 DEF Comparing, AcksBehind
        <3> HIDE DEF c
        <3> QED
            BY <1>3, <3>1, <3>2
    <2> QED
        BY <1>3, <2>1 DEF Acks
<1> HIDE DEF r, c
<1>6. /\ report'[p] = r /\ host' = host /\ comp'[p] = comp[p] + 1 /\ pc'[p] = "component"
      /\ desired' = desired /\ cycles' = cycles /\ lastResult' = lastResult
      /\ \A q \in Callers : q # p => pc'[q] = pc[q]
    BY <1>1
<1> HIDE DEF MarkCommand
<1>7. /\ Acks(report[p].cycle)' = Acks(report[p].cycle) \cup {c}
      /\ c \notin Acks(report[p].cycle)
    BY <1>3, <1>4, <1>5, <1>6 DEF Acks, SameTotals
<1>8. IsFiniteSet(acked')
    BY <1>5, FS_AddElement DEF AccountInv
<1>9. AccountOf(p)'
    <2>1. Accounted(p)' = host[p] /\ Open(p)' = 0
        BY <1>6 DEF Accounted, Open, Examining, Sending
    <2>2. r.sent = Cardinality(Acks(report[p].cycle)')
        <3>1. IsFiniteSet(Acks(report[p].cycle))
            <4>1. Acks(report[p].cycle) \in SUBSET acked
                BY DEF Acks
            <4> QED
                BY <4>1, FS_Subset DEF AccountInv
        <3>2. Cardinality(Acks(report[p].cycle) \cup {c}) =
                Cardinality(Acks(report[p].cycle)) + 1
            BY <1>7, <3>1, FS_AddElement
        <3> QED
            BY <1>2, <1>4, <1>7, <3>2 DEF Comparing
    <2>3. AcksBehind(p)'
        <3> SUFFICES ASSUME NEW a \in Acks(report[p].cycle)'
                     PROVE  a.host < host[p] \/ (a.host = host[p] /\ a.comp < comp[p] + 1)
            BY <1>6 DEF AcksBehind, Examining
        <3>1. CASE a = c
            BY <1>3, <3>1, CompareNumbers
        <3>2. CASE a # c
            BY <1>2, <1>7, <3>2, CompareNumbers DEF Comparing, AcksBehind, Acks
        <3> QED
            BY <3>1, <3>2
    <2>4. Comparing(p)'
        BY <1>2, <1>4, <1>6, <2>1, <2>2, <2>3 DEF Comparing, SameTotals, Sending
    <2> QED
        BY <1>6, <2>4 DEF AccountOf
<1>10. ASSUME NEW q \in Callers, q # p PROVE AccountOf(q)'
    BY <1>2, <1>6, <1>10 DEF CycleLock, AccountOf, Active, InCycle, Examining, Sending
<1>11. ReportAddsUp'
    <2>1. pc[p] # "release"
        BY <1>2 DEF Sending
    <2>2. lastResult.cycle \in Nat /\ lastResult.cycle < cycles
        BY <1>2, <2>1 DEF ResultInv, ResultBehind
    <2>3. {a \in acked' : a.cycle = lastResult.cycle} = {a \in acked : a.cycle = lastResult.cycle}
        BY <1>3, <1>5, <2>2, CompareNumbers DEF WorldTypeOK
    <2> QED
        BY <1>6, <2>3 DEF AccountInv, ReportAddsUp
<1>12. \A a \in acked' : a.cycle <= cycles'
    <2>1. c.cycle <= cycles'
        <3>1. cycles \in Nat /\ cycles <= cycles
            BY ResultCycleType
        <3>2. c.cycle = cycles /\ cycles' = cycles
            BY <1>3, <1>6
        <3> QED
            BY <3>1, <3>2
    <2>2. \A a \in acked : a.cycle <= cycles'
        BY <1>6 DEF AccountInv
    <2> QED
        BY <1>5, <2>1, <2>2
<1> QED
    BY <1>8, <1>9, <1>10, <1>11, <1>12 DEF AccountInv

LEMMA PersistAccount ==
    ASSUME TypeOK, AccountInv, NEW p \in Callers, PersistResult(p)
    PROVE  AccountInv'
<1> USE DEF TypeOK, LocalsTypeOK
<1>1. /\ lastResult' = report[p] /\ pc' = [pc EXCEPT ![p] = "release"]
      /\ pc[p] \in {"completed", "failed"}
      /\ UNCHANGED <<acked, cycles, report, host, comp, cmd, desired>>
    BY DEF PersistResult, Persist, locals, world
<1>2. \A q \in Callers : AccountOf(q)'
    <2>1. \A q \in Callers : SameAccount(q)
        BY <1>1 DEF SameAccount
    <2>2. \A q \in Callers : pc'[q] = pc[q] \/ pc'[q] = "release"
        BY <1>1
    <2> QED
        BY <1>1, <2>1, <2>2, AccountKept DEF AccountInv
<1>3. ReportAddsUp'
    <2> DEFINE r == report[p]
    <2>1. CASE pc[p] = "failed"
        <3>1. r.desired = 0
            BY <2>1 DEF AccountInv, AccountOf
        <3> QED
            BY <1>1, <3>1 DEF ReportAddsUp
    <2>2. CASE pc[p] = "completed"
        <3>1. Comparing(p) /\ Accounted(p) = host[p] - 1 /\ Open(p) = 0
            BY <2>2 DEF AccountInv, AccountOf, Accounted, Open, Examining, Sending
        <3>2. host[p] - 1 = r.desired
            BY <3>1, <2>2, CompareNumbers DEF Comparing
        <3>3. Balanced(r, r.desired, 0) /\ r \in Reports
            BY <3>1, <3>2, CompareNumbers DEF Comparing
        <3>4. r.sent = Cardinality({c \in acked : c.cycle = r.cycle})
            BY <3>1 DEF Comparing, Acks
        <3> HIDE DEF r
        <3>5. /\ r.desired = r.compared + r.noHost
              /\ r.drifts = r.sent + r.suppressed + r.errors
              /\ r.noHost + r.noData > 0 => r.partial
            BY <3>3 DEF Balanced, Reports
        <3>6. lastResult' = r /\ acked' = acked
            BY <1>1 DEF r
        <3> QED
            BY <3>4, <3>5, <3>6 DEF ReportAddsUp
    <2> QED
        BY <1>1, <2>1, <2>2
<1> QED
    BY <1>1, <1>2, <1>3 DEF AccountInv

LEMMA FinishAccount ==
    ASSUME TypeOK, AccountInv, NEW p \in Callers, FinishCycle(p)
    PROVE  AccountInv'
<1>1. /\ UNCHANGED <<lastResult, acked, cycles>>
      /\ \A q \in Callers : q # p => SameAccount(q) /\ pc'[q] = pc[q]
    BY DEF FinishCycle, SameAccount, world, TypeOK, LocalsTypeOK
<1>2. pc'[p] \in {"off", "idle"}
    BY CallersFacts DEF FinishCycle, TypeOK, LocalsTypeOK
<1>3. AccountOf(p)'
    BY <1>2 DEF AccountOf, Examining, Sending
<1> QED
    BY <1>1, <1>3, OneAccount

\* A step of no cycle.
LEMMA OutsideAccount ==
    ASSUME AccountInv,
           UNCHANGED <<lastResult, acked, cycles, report, host, comp, cmd, desired>>,
           \A q \in Callers : pc'[q] = pc[q] \/ pc'[q] \in {"off", "idle", "call"}
    PROVE  AccountInv'
<1>1. \A q \in Callers : SameAccount(q)
    BY DEF SameAccount
<1>2. \A q \in Callers : AccountOf(q)'
    BY <1>1, AccountKept DEF AccountInv
<1> QED
    BY <1>2 DEF AccountInv, ReportAddsUp

LEMMA CallerAccount ==
    ASSUME AllRegistered, TypeOK, CycleLock, SendInv, ResultInv, CommandJustified, AccountInv,
           NEW p \in Callers, CallerStep(p)
    PROVE  AccountInv'
<1> USE DEF TypeOK, LocalsTypeOK
<1>1. CASE RefuseRunCycle(p) \/ FetchActualState(p) \/ PauseEnds(p) \/ SendPost(p)
           \/ Acknowledged(p)
    <2>1. UNCHANGED <<lastResult, acked, cycles, report, host, comp, cmd, desired>>
        BY <1>1 DEF RefuseRunCycle, FetchActualState, PauseEnds, SendPost, Acknowledged,
                    CallUnchanged, service, locals, world
    <2>2. /\ \A q \in Callers : q # p => pc'[q] = pc[q]
          /\ \/ pc'[p] = pc[p]
             \/ pc[p] \in Sending /\ pc'[p] \in Sending
             \/ pc[p] = "inventory" /\ pc'[p] = "parser"
             \/ pc'[p] \in {"off", "idle", "call", "release"}
        BY <1>1, CallersFacts DEF RefuseRunCycle, FetchActualState, PauseEnds, SendPost,
                                  Acknowledged, Sending
    <2> QED
        BY <2>1, <2>2, SameAccountStep
<1>2. CASE PauseCancelled(p)
    BY <1>2, GiveUpAccount DEF PauseCancelled, LocalsInPlace
<1>3. CASE FetchFails(p) \/ SendCancelled(p) \/ NoReply(p) \/ Refused(p) \/ UnreadableReply(p)
    BY <1>3, CallFailsAccount DEF FetchFails, SendCancelled, NoReply, Refused, UnreadableReply
<1>4. CASE HostsCompared(p) \/ ComponentsCompared(p)
    BY <1>4, LoopEndAccount
<1> QED
    BY <1>1, <1>2, <1>3, <1>4, EnterAccount, PersistAccount, FinishAccount,
       FetchDesiredAccount, SkipAccount, CompareAccount, NoDriftAccount, SuppressAccount,
       DecideAccount, MarkAccount DEF CallerStep

LEMMA NextAccount ==
    ASSUME AllRegistered, TypeOK, CycleLock, SendInv, ResultInv, CommandJustified, AccountInv,
           [Next]_vars
    PROVE  AccountInv'
<1> USE DEF TypeOK, LocalsTypeOK
<1>1. ASSUME NEW p \in Manual, ManualTrigger(p) \/ ClientGone(p)
      PROVE  AccountInv'
    BY <1>1, CallersFacts, OutsideAccount DEF ManualTrigger, ClientGone, service, locals, world
<1>2. ASSUME NEW post \in wire, Take(post) \/ Lose(post)
      PROVE  AccountInv'
    BY <1>2, OutsideAccount DEF Take, Lose, PeerUnchanged, service, locals
<1>3. ASSUME NEW r \in Readers, ReadyzReadsResult(r) \/ ReadyzReplies(r)
      PROVE  AccountInv'
    BY <1>3, OutsideAccount DEF ReadyzReadsResult, ReadyzReplies, service, locals, world
<1>4. CASE StartServing
    BY <1>4, OutsideAccount DEF StartServing, service, locals, world
<1>5. CASE Tick \/ Signal \/ Drain \/ UNCHANGED vars
    BY <1>5, OutsideAccount DEF Tick, Signal, Drain, vars, service, locals, world
<1>6. CASE SchedulerReceivesTick \/ SchedulerStops
    BY <1>6, CallersFacts, OutsideAccount
       DEF SchedulerReceivesTick, SchedulerStops, service, locals, world
<1>7. CASE ClockTick
    BY <1>7, OutsideAccount DEF ClockTick, service, locals
<1>8. CASE Restart
    BY <1>8, CallersFacts, OutsideAccount DEF Restart, service, locals
<1>9. CASE Exit
    <2>1. \A p \in Callers : AccountOf(p)'
        BY <1>9 DEF Exit, AccountOf, Examining, Sending
    <2> QED
        BY <1>9, <2>1, FS_EmptySet DEF Exit, AccountInv, ReportAddsUp
<1> QED
    BY <1>1, <1>2, <1>3, <1>4, <1>5, <1>6, <1>7, <1>8, <1>9, CallerAccount DEF Next, Stopped

------------------------------------------------------------------------------
(* Reports: the theorem *)

\* The stored report of a cycle that compared hosts accounts for every host and every
\* drift exactly once and counts its acknowledged commands, with a detector for every
\* enabled component, for any hosts, callers and losses of replies.
THEOREM ReportsAddUp == AllRegistered => (Spec => []ReportAddsUp)
<1> SUFFICES ASSUME AllRegistered PROVE Spec => []ReportAddsUp
    OBVIOUS
<1>1. Init => AccountInv
    <2> SUFFICES ASSUME Init PROVE AccountInv
        OBVIOUS
    <2>1. \A p \in Callers : AccountOf(p)
        BY DEF Init, AccountOf, Examining, Sending
    <2> QED
        BY <2>1, FS_EmptySet DEF Init, NewProcess, AccountInv, ReportAddsUp
<1>2. TypeOK /\ CycleLock /\ SendInv /\ ResultInv /\ DeliveryInv /\ AccountInv /\ [Next]_vars
        => AccountInv'
    BY NextAccount DEF DeliveryInv
<1>3. AccountInv => ReportAddsUp
    BY DEF AccountInv
<1> QED
    BY <1>1, <1>2, <1>3, TypeCorrect, CyclesExclude, SendsInv, ResultsInv, DeliveryAlways,
       PTL DEF Spec
=============================================================================
