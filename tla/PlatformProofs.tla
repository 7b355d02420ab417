---------------------------- MODULE PlatformProofs ----------------------------
(***************************************************************************)
(* No command of the loop is blind, for any desired state, any hosts and any *)
(* number of faults, kills, lost and repeated commands, provided that the    *)
(* two services mean the same host by an id.                                *)
(***************************************************************************)
EXTENDS Platform, SequenceFacts, FiniteSetTheorems, SequenceTheorems

\* A host that both services know by one id has one FQDN.  A command carries the desired
\* FQDN, also when the host was matched by its id.
SameNames ==
    \A i \in DOMAIN Desired, j \in DOMAIN Seeds :
        /\ Fold[Desired[i].id] # Blank
        /\ Fold[Desired[i].id] = Fold[Seeds[j].id]
        => Fold[Desired[i].fqdn] = Fold[Seeds[j].fqdn]

------------------------------------------------------------------------------
(* The comparisons of a cycle *)

LEMMA Quotient ==
    ASSUME NEW n \in Nat, NEW m \in Nat \ {0}, NEW t \in 1..(n * m)
    PROVE  ((t - 1) \div m) + 1 \in 1..n
<1> DEFINE q == (t - 1) \div m
           r == (t - 1) % m
<1>1. t - 1 \in Nat /\ t - 1 < n * m
    <2>1. n * m \in Int
        OBVIOUS
    <2> QED
        BY <2>1
<1>2. q \in Int /\ r \in 0..(m - 1) /\ t - 1 = m * q + r
    BY <1>1
<1>3. q >= 0
    <2>1. SUFFICES ASSUME q <= -1
                   PROVE  FALSE
        BY <1>2
    <2>2. m * q <= -m
        BY <1>2, <2>1
    <2> QED
        BY <1>1, <1>2, <2>2
<1>4. q <= n - 1
    <2>1. SUFFICES ASSUME q >= n
                   PROVE  FALSE
        BY <1>2
    <2>2. m * q >= n * m
        BY <1>2, <2>1
    <2> QED
        BY <1>1, <1>2, <2>2
<1> QED
    <2> HIDE DEF q, r
    <2>1. q + 1 \in 1..n
        BY <1>2, <1>3, <1>4
    <2> QED
        BY <2>1 DEF q

LEMMA TurnsExist ==
    /\ Len(Desired) \in Nat \ {0} /\ Len(Enabled) \in Nat \ {0}
    /\ Cardinality(Turns) = Len(Desired) * Len(Enabled)
    /\ 1 \in Turns
<1>1. Len(Desired) \in Nat \ {0} /\ Len(Enabled) \in Nat \ {0}
    BY PlatformAssumption
<1>2. Len(Desired) * Len(Enabled) \in Nat \ {0}
    BY <1>1
<1>3. Cardinality(Turns) = Len(Desired) * Len(Enabled)
    <2> DEFINE n == Len(Desired) * Len(Enabled)
    <2>1. n \in Nat /\ n - 1 + 1 = n /\ 1 <= n
        BY <1>2
    <2> HIDE DEF n
    <2>2. Cardinality(1..n) = n
        BY <2>1, FS_Interval
    <2> QED
        BY <2>2 DEF n, Turns
<1> QED
    BY <1>1, <1>2, <1>3 DEF Turns

LEMMA TurnHasHost ==
    ASSUME NEW t \in Turns
    PROVE  \E i \in DOMAIN Desired : DesiredHost(t) = Desired[i]
<1>1. ((t - 1) \div Len(Enabled)) + 1 \in 1..Len(Desired)
    BY TurnsExist, Quotient DEF Turns
<1>2. DOMAIN Desired = 1..Len(Desired)
    BY PlatformAssumption
<1> QED
    BY <1>1, <1>2 DEF DesiredHost

------------------------------------------------------------------------------
(* The invariant *)

\* A record of a seed, healthy only if that host's cAdvisor is among those that answered.
Truthful(h, seen) ==
    /\ \E j \in DOMAIN Seeds : h.id = Seeds[j].id /\ h.fqdn = Seeds[j].fqdn
    /\ IsSourceHealthy(h, Cadvisor) => Fold[h.fqdn] \in seen

\* Hosts as they are handed on from the sync to the cycle.
Shown(hosts, seen) ==
    /\ \E S : hosts \in Seq(S)
    /\ \A i \in 1..Len(hosts) : Truthful(hosts[i], seen)

Sighted == {k \in WantedKeys : k[1] = NodeExporter => k[2] \in answered}

IInv ==
    /\ Shown(draft, answered) /\ Len(draft) <= Len(Seeds)
    /\ Shown(published, answered) /\ Shown(actual, answered)
    /\ turn \in Turns \cup {0}
    /\ queue \in Seq(Sighted) /\ job \in Sighted \cup {NoJob}

LEMMA NothingShown == ASSUME NEW seen PROVE Shown(<< >>, seen)
BY DEF Shown

LEMMA ShownAppend ==
    ASSUME NEW hosts, NEW h, NEW seen, Shown(hosts, seen), Truthful(h, seen)
    PROVE  Shown(Append(hosts, h), seen) /\ Len(Append(hosts, h)) = Len(hosts) + 1
<1>1. PICK S : hosts \in Seq(S)
    BY DEF Shown
<1>2. hosts \in Seq(S \cup {h})
    BY <1>1
<1>3. /\ Append(hosts, h) \in Seq(S \cup {h})
      /\ Len(hosts) \in Nat
      /\ Len(Append(hosts, h)) = Len(hosts) + 1
      /\ \A i \in 1..Len(hosts) : Append(hosts, h)[i] = hosts[i]
      /\ Append(hosts, h)[Len(hosts) + 1] = h
    BY <1>2
<1> QED
    BY <1>3 DEF Shown

\* What is known of a host stays known: the history only grows.
LEMMA ShownStays ==
    ASSUME NEW hosts, NEW seen, NEW more, Shown(hosts, seen), seen \subseteq more
    PROVE  Shown(hosts, more)
BY DEF Shown, Truthful

LEMMA SightedStays ==
    ASSUME answered \subseteq answered'
    PROVE  Sighted \subseteq Sighted'
BY DEF Sighted, WantedKeys, BuildKey, TurnComponent, DesiredHost, Wanted

------------------------------------------------------------------------------
(* A drift is no blind command *)

\* What lookupActualHost finds has the desired host's id or its FQDN.
LEMMA LookupMatches ==
    ASSUME NEW d, NEW hosts, Len(hosts) \in Nat, LookupActualHost(d, hosts) # 0
    PROVE  LET i == LookupActualHost(d, hosts)
           IN  /\ i \in 1..Len(hosts)
               /\ \/ Fold[d.id] # Blank /\ Fold[hosts[i].id] = Fold[d.id]
                  \/ Fold[hosts[i].fqdn] = Fold[d.fqdn]
<1> DEFINE I == {i \in 1..Len(hosts) : Fold[hosts[i].id] = Fold[d.id]}
           J == {i \in 1..Len(hosts) : Fold[hosts[i].fqdn] = Fold[d.fqdn]}
<1>1. IsLastOf(IF I # {} THEN Max(I) ELSE 0, I) /\ IsLastOf(IF J # {} THEN Max(J) ELSE 0, J)
    BY LastOf
<1>2. IndexByID(hosts, Fold[d.id]) \in (IF Fold[d.id] # Blank THEN I ELSE {}) \cup {0}
    BY <1>1 DEF IndexByID, SelectLastInSeq, IsLastOf
<1>3. IndexByFQDN(hosts, Fold[d.fqdn]) \in J \cup {0}
    BY <1>1 DEF IndexByFQDN, SelectLastInSeq, IsLastOf
<1> QED
    BY <1>2, <1>3 DEF LookupActualHost

LEMMA DriftMeans ==
    ASSUME NEW c, NEW d, NEW a, Detect(c, d, a) = "drift"
    PROVE  /\ Wanted(d, c)
           /\ ~(IsSourceHealthy(a, Cadvisor) /\ HasWorkload(a, c))
           /\ c = NodeExporter => IsSourceHealthy(a, Cadvisor)
BY RegisteredAssumption
   DEF Detect, NodeExporterDetect, CadvisorDetect, NodeExporter, Cadvisor, Components

\* The key of a drift is wanted, and a drift of node_exporter is seen through the cAdvisor
\* of the host that the command names.
LEMMA DriftIsSighted ==
    ASSUME SameNames, Shown(actual, answered), turn \in Turns
    PROVE  Drifting \subseteq Sighted
<1> DEFINE d == DesiredHost(turn)
           c == TurnComponent(turn)
           i == LookupActualHost(d, actual)
<1>1. SUFFICES ASSUME i # 0, Detect(c, d, actual[i]) = "drift"
               PROVE  BuildKey(c, TargetFQDN(d, actual[i])) \in Sighted
    BY DEF Drifting
<1>2. PICK x \in DOMAIN Desired : d = Desired[x]
    BY TurnHasHost
<1>3. Fold[d.fqdn] # Blank /\ TargetFQDN(d, actual[i]) = d.fqdn
    BY <1>2, PlatformAssumption DEF TargetFQDN
<1>4. Wanted(d, c) /\ (c = NodeExporter => IsSourceHealthy(actual[i], Cadvisor))
    BY <1>1, DriftMeans
<1>5. Len(actual) \in Nat
    BY DEF Shown
<1>6. /\ i \in 1..Len(actual)
      /\ \/ Fold[d.id] # Blank /\ Fold[actual[i].id] = Fold[d.id]
         \/ Fold[actual[i].fqdn] = Fold[d.fqdn]
    BY <1>1, <1>5, LookupMatches
<1>7. PICK j \in DOMAIN Seeds :
          actual[i].id = Seeds[j].id /\ actual[i].fqdn = Seeds[j].fqdn
    BY <1>6 DEF Shown, Truthful
<1>8. Fold[d.fqdn] = Fold[actual[i].fqdn]
    <2> HIDE DEF d, i
    <2>1. CASE Fold[actual[i].fqdn] = Fold[d.fqdn]
        BY <2>1
    <2>2. CASE Fold[d.id] # Blank /\ Fold[actual[i].id] = Fold[d.id]
        BY <1>2, <1>7, <2>2 DEF SameNames
    <2> QED
        BY <1>6, <2>1, <2>2
<1>9. BuildKey(c, d.fqdn) \in WantedKeys
    BY <1>4 DEF WantedKeys
<1>10. c = NodeExporter => Fold[d.fqdn] \in answered
    BY <1>4, <1>6, <1>8 DEF Shown, Truthful
<1> QED
    <2> HIDE DEF c, d, i
    <2> QED
        BY <1>3, <1>9, <1>10 DEF Sighted, BuildKey

------------------------------------------------------------------------------
(* The steps *)

\* The record of the next host may be added if it says no more than was seen.
LEMMA CollectedShown ==
    ASSUME IInv, NEW status, NEW workloads, Len(draft) < Len(Seeds),
           Collected(status, workloads), answered \subseteq answered',
           Fold[status] = "ok" => Fold[Seed.fqdn] \in answered'
    PROVE  Shown(draft', answered') /\ Len(draft') <= Len(Seeds)
<1> DEFINE h == [id |-> Seed.id, fqdn |-> Seed.fqdn,
                 sources |-> Source(status), workloads |-> workloads]
<1>1. Len(draft) \in Nat /\ Len(Seeds) \in Nat /\ DOMAIN Seeds = 1..Len(Seeds)
    BY PlatformAssumption DEF IInv, Shown
<1>2. Len(draft) + 1 \in DOMAIN Seeds
    BY <1>1
<1>3. IsSourceHealthy(h, Cadvisor) => Fold[status] = "ok"
    BY DEF IsSourceHealthy, Source
<1>4. Truthful(h, answered')
    BY <1>2, <1>3 DEF Truthful, Seed
<1>5. draft' = Append(draft, h)
    BY DEF Collected
<1>6. Shown(draft, answered')
    BY ShownStays DEF IInv
<1> QED
    <2> HIDE DEF h
    <2> QED
        BY <1>1, <1>4, <1>5, <1>6, ShownAppend

\* Everything but the draft holds on when more hosts have answered.
LEMMA RestStays ==
    ASSUME IInv, answered \subseteq answered',
           UNCHANGED <<published, detector, reconciler>>
    PROVE  /\ Shown(published', answered') /\ Shown(actual', answered')
           /\ turn' \in Turns' \cup {0}
           /\ queue' \in Seq(Sighted') /\ job' \in Sighted' \cup {NoJob}
<1>1. Sighted \subseteq Sighted'
    BY SightedStays
<1>2. queue \in Seq(Sighted')
    BY <1>1 DEF IInv
<1> QED
    BY <1>1, <1>2, ShownStays DEF IInv, detector, reconciler, Turns

LEMMA SyncInv ==
    ASSUME IInv, Sync
    PROVE  IInv'
<1>1. CASE Answers
    <2>1. answered \subseteq answered' /\ Fold[Seed.fqdn] \in answered'
        BY <1>1 DEF Answers
    <2>2. Shown(draft', answered') /\ Len(draft') <= Len(Seeds)
        BY <1>1, <2>1, CollectedShown DEF Answers
    <2> QED
        BY <1>1, <2>1, <2>2, RestStays DEF Answers, IInv
<1>2. CASE DoesNotAnswer
    <2>1. answered' = answered
        BY <1>2 DEF DoesNotAnswer
    <2>2. Shown(draft', answered') /\ Len(draft') <= Len(Seeds)
        BY <1>2, <2>1, CollectedShown, PlatformAssumption DEF DoesNotAnswer
    <2> QED
        BY <1>2, <2>1, <2>2, RestStays DEF DoesNotAnswer, inventory, IInv
<1>3. CASE Publish
    <2>1. Shown(draft', answered') /\ Len(draft') <= Len(Seeds)
        BY <1>3, NothingShown, PlatformAssumption DEF Publish
    <2> QED
        BY <1>3, <2>1 DEF Publish, detector, reconciler, IInv, Turns, Sighted, WantedKeys
<1> QED
    BY <1>1, <1>2, <1>3 DEF Sync

\* What was sighted depends on the history of who answered only.
LEMMA SameSights == answered' = answered => Sighted' = Sighted /\ Turns' = Turns
BY DEF Sighted, WantedKeys, Turns

LEMMA NextTurnInv ==
    ASSUME IInv, turn # 0, NextTurn
    PROVE  turn' \in Turns \cup {0} /\ Shown(actual', answered)
<1>1. turn \in Turns
    BY DEF IInv
<1>2. CASE turn < Cardinality(Turns)
    BY <1>1, <1>2, TurnsExist DEF NextTurn, Turns, IInv
<1>3. CASE ~(turn < Cardinality(Turns))
    BY <1>3, NothingShown DEF NextTurn
<1> QED
    BY <1>2, <1>3

\* A command that is taken names a wanted key, and is no blind one.
LEMMA TakenInv ==
    ASSUME IInv, SameNames, NEW k \in Due, NEW n \in Nat, Taken(k, n)
    PROVE  IInv'
<1>1. turn # 0 /\ turn \in Turns
    BY DEF Due, IInv
<1>2. k \in Sighted
    BY <1>1, DriftIsSighted DEF Due, IInv
<1>3. queue' \in Seq(Sighted)
    <2>1. [i \in 1..n |-> k] \in Seq(Sighted)
        BY <1>2
    <2> QED
        BY <2>1 DEF Taken, IInv
<1>4. turn' \in Turns \cup {0} /\ Shown(actual', answered)
    BY <1>1, NextTurnInv DEF Taken
<1> QED
    BY <1>3, <1>4, SameSights DEF Taken, inventory, IInv

LEMMA CycleInv ==
    ASSUME IInv, SameNames, Cycle
    PROVE  IInv'
<1>1. CASE BeginCycle
    BY <1>1, TurnsExist, SameSights DEF BeginCycle, inventory, reconciler, IInv
<1>2. CASE Passes
    BY <1>2, NextTurnInv, SameSights DEF Passes, inventory, reconciler, IInv
<1>3. ASSUME NEW k \in Due, NEW n \in 0..MaxAttempts,
             NotAcknowledged(k, n) \/ Acknowledged(k, n)
      PROVE  IInv'
    <2>1. n \in Nat /\ Taken(k, n)
        BY <1>3, PlatformAssumption DEF NotAcknowledged, Acknowledged
    <2> QED
        BY <2>1, TakenInv
<1> QED
    BY <1>1, <1>2, <1>3 DEF Cycle

LEMMA OtherStepsInv ==
    ASSUME IInv, \/ TimePasses \/ Work \/ ClockSetBack
                 \/ DetectorRestarts \/ ReconcilerKilled
                 \/ \E k \in Key : Stops(k)
    PROVE  IInv'
<1>1. CASE TimePasses \/ ClockSetBack
    BY <1>1, SameSights DEF TimePasses, ClockSetBack, inventory, reconciler, IInv
<1>2. CASE BeginJob
    <2>1. job' \in Sighted /\ queue' \in Seq(Sighted)
        BY <1>2 DEF BeginJob, IInv
    <2> QED
        BY <1>2, <2>1, SameSights DEF BeginJob, inventory, detector, IInv
<1>3. CASE JobFails \/ \E k \in Key : JobSucceeds(k)
    BY <1>3, SameSights DEF JobFails, JobSucceeds, inventory, detector, IInv
<1>4. CASE DetectorRestarts
    BY <1>4, SameSights, NothingShown DEF DetectorRestarts, inventory, reconciler, IInv
<1>5. CASE ReconcilerKilled
    BY <1>5, SameSights DEF ReconcilerKilled, inventory, detector, IInv
<1>6. CASE \E k \in Key : Stops(k)
    BY <1>6, SameSights DEF Stops, inventory, detector, reconciler, IInv
<1> QED
    BY <1>1, <1>2, <1>3, <1>4, <1>5, <1>6 DEF Work

LEMMA NextInv ==
    ASSUME IInv, SameNames, [Next]_vars
    PROVE  IInv'
<1>1. CASE UNCHANGED vars
    BY <1>1, SameSights DEF vars, inventory, detector, reconciler, IInv
<1> QED
    BY <1>1, SyncInv, CycleInv, OtherStepsInv DEF Next

LEMMA InitInv == Init => IInv
<1> SUFFICES ASSUME Init
             PROVE  IInv
    OBVIOUS
<1>1. Shown(draft, answered) /\ Shown(published, answered) /\ Shown(actual, answered)
    BY NothingShown DEF Init
<1>2. Len(draft) <= Len(Seeds)
    BY PlatformAssumption DEF Init
<1> QED
    BY <1>1, <1>2 DEF Init, IInv

------------------------------------------------------------------------------
\* Whatever is lost, repeated, killed or restarted, and however the clock is set back: a
\* command for node_exporter that is queued or run names a host whose cAdvisor has been
\* read.
THEOREM NothingIsBlind == SameNames => (Spec => []NoBlindCommand)
<1>1. IInv => NoBlindCommand
    <2> SUFFICES ASSUME IInv
                 PROVE  NoBlindCommand
        OBVIOUS
    <2>1. \A i \in DOMAIN queue : queue[i] \in Sighted
        BY DEF IInv
    <2>2. job \in Sighted \cup {NoJob}
        BY DEF IInv
    <2> QED
        BY <2>1, <2>2 DEF NoBlindCommand, Sighted
<1>2. SUFFICES ASSUME SameNames
               PROVE  Spec => []NoBlindCommand
    OBVIOUS
<1>3. IInv /\ [Next]_vars => IInv'
    BY <1>2, NextInv
<1> QED
    BY <1>1, <1>3, InitInv, PTL DEF Spec
===============================================================================
