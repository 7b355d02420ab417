------------------------- MODULE ReconcileQueueProofs -------------------------
(***************************************************************************)
(* Theorems about ReconcileQueue, for any number of requests and workers and *)
(* any capacity, with every caller allowed: types, the count of unfinished   *)
(* tasks, the answers, the order of the event loop with its wake-ups, the    *)
(* shutdown, and the pool of jobs that the queue implements.                 *)
(***************************************************************************)
EXTENDS ReconcileQueue, SequenceFacts, FiniteSetTheorems

USE QueueAssumption

------------------------------------------------------------------------------
(* Tasks and sequences of them *)

Anyone == Requests \cup Workers \cup {Stop}
Entries == Requests \cup {Sentinel}

LEMMA Names ==
    /\ Sentinel \notin Requests /\ Sentinel # NoJob
    /\ Requests \subseteq Anyone /\ Workers \subseteq Anyone /\ Stop \in Anyone
    /\ Requests \cup {Stop} \subseteq Anyone
    /\ \A i \in 1..MaxParallel : <<"worker", i>> \in Workers
BY DEF Requests, Workers, Sentinel, NoJob, Stop, Anyone

LEMMA FirstRest ==
    ASSUME NEW S, NEW s \in Seq(S)
    PROVE  First(s) \in Seq(S) /\ Rest(s) \in Seq(S)
<1>1. CASE s = << >>
    BY <1>1 DEF First, Rest
<1>2. CASE s # << >>
    <2>1. Head(s) \in S /\ Tail(s) \in Seq(S)
        BY <1>2, HeadTailProperties
    <2> QED
        BY <1>2, <2>1 DEF First, Rest
<1> QED
    BY <1>1, <1>2

LEMMA PartType ==
    ASSUME NEW S, NEW s \in Seq(S), NEW m \in 1..(Len(s) + 1), NEW n \in 0..Len(s)
    PROVE  SubSeq(s, m, n) \in Seq(S)
<1>1. Len(s) \in Nat
    BY LenProperties
<1>2. m \in Int /\ n \in Int
    BY <1>1
<1>3. \A k \in m..n : s[k] \in S
    BY <1>1, ElementOfSeq
<1> QED
    BY <1>2, <1>3, SubSeqProperties

LEMMA WithoutType ==
    ASSUME NEW S, NEW s \in Seq(S), NEW t, t \in Range(s)
    PROVE  Without(s, t) \in Seq(S)
<1> DEFINE i == CHOOSE k \in DOMAIN s : s[k] = t
<1>1. i \in 1..Len(s) /\ Len(s) \in Nat
    BY LenProperties DEF Range
<1> HIDE DEF i
<1>2. SubSeq(s, 1, i - 1) \in Seq(S) /\ SubSeq(s, i + 1, Len(s)) \in Seq(S)
    BY <1>1, PartType
<1>3. SubSeq(s, 1, i - 1) \o SubSeq(s, i + 1, Len(s)) \in Seq(S)
    BY <1>2, ConcatProperties
<1> QED
    BY <1>3 DEF Without, i

\* What a step of the loop does to the tasks that are ready.
LEMMA ReadyTypes ==
    ASSUME TypeOK
    PROVE  /\ \A t \in Anyone : Append(ready, t) \in Seq(Anyone)
           /\ ready # << >> => Tail(ready) \in Seq(Anyone)
           /\ ready # << >> =>
                  \A s \in Seq(Anyone) : Tail(ready) \o s \in Seq(Anyone)
           /\ First(getters) \in Seq(Anyone) /\ Rest(getters) \in Seq(Workers)
           /\ First(putters) \in Seq(Anyone) /\ Rest(putters) \in Seq(Requests \cup {Stop})
<1>1. ready \in Seq(Anyone)
    BY DEF TypeOK, Anyone
<1>2. getters \in Seq(Workers) /\ putters \in Seq(Requests \cup {Stop})
    BY DEF TypeOK
<1>3. Seq(Workers) \subseteq Seq(Anyone) /\ Seq(Requests \cup {Stop}) \subseteq Seq(Anyone)
    BY Names, SeqMonotonic
<1>4. ready # << >> => Tail(ready) \in Seq(Anyone)
    BY <1>1, HeadTailProperties
<1>5. ready # << >> => \A s \in Seq(Anyone) : Tail(ready) \o s \in Seq(Anyone)
    BY <1>4, ConcatProperties
<1>6. \A t \in Anyone : Append(ready, t) \in Seq(Anyone)
    BY <1>1, AppendProperties
<1>7. First(getters) \in Seq(Workers) /\ Rest(getters) \in Seq(Workers)
    BY <1>2, FirstRest
<1>8. First(putters) \in Seq(Requests \cup {Stop}) /\ Rest(putters) \in Seq(Requests \cup {Stop})
    BY <1>2, FirstRest
<1> QED
    BY <1>3, <1>4, <1>5, <1>6, <1>7, <1>8

\* What a worker that looks into the queue makes ready.
LEMMA WorkerReady ==
    ASSUME TypeOK, NEW w \in Workers, Looks(w)
    PROVE  /\ ReadyAfter(w) \in Seq(Anyone)
           /\ ReadyAfter(w) \o First(putters) \in Seq(Anyone)
           /\ \A s \in {<<Stop>>, << >>} :
                  ReadyAfter(w) \o First(putters) \o s \in Seq(Anyone)
<1>1. ready # << >>
    BY DEF Looks, Runs
<1>2. <<Stop>> \in Seq(Anyone) /\ << >> \in Seq(Anyone)
    BY Names
<1>3. ReadyAfter(w) \in Seq(Anyone)
    BY <1>1, <1>2, ReadyTypes DEF ReadyAfter
<1>4. First(putters) \in Seq(Anyone)
    BY ReadyTypes
<1>5. ReadyAfter(w) \o First(putters) \in Seq(Anyone)
    BY <1>3, <1>4, ConcatProperties
<1> QED
    BY <1>2, <1>3, <1>5, ConcatProperties

LEMMA ItemTypes ==
    ASSUME TypeOK
    PROVE  /\ items \in Seq(Entries) /\ Len(items) \in Nat
           /\ \A r \in Requests : Append(items, r) \in Seq(Entries)
                                    /\ Len(Append(items, r)) = Len(items) + 1
           /\ items # << >> => /\ Head(items) \in Entries /\ Tail(items) \in Seq(Entries)
                               /\ Len(Tail(items)) = Len(items) - 1 /\ Len(items) > 0
<1>1. items \in Seq(Entries)
    BY DEF TypeOK, Entries
<1>2. \A r \in Requests : Append(items, r) \in Seq(Entries)
                            /\ Len(Append(items, r)) = Len(items) + 1
    BY <1>1, AppendProperties DEF Entries
<1>3. items # << >> => /\ Head(items) \in Entries /\ Tail(items) \in Seq(Entries)
                       /\ Len(Tail(items)) = Len(items) - 1
    BY <1>1, HeadTailProperties
<1>4. items # << >> => Len(items) > 0
    BY <1>1, EmptySeq, LenProperties
<1> QED
    BY <1>1, <1>2, <1>3, <1>4, LenProperties

LEMMA FittingType == TypeOK => Fitting \in 0..(MaxParallel - sentinels)
<1> SUFFICES ASSUME TypeOK PROVE Fitting \in 0..(MaxParallel - sentinels)
    OBVIOUS
<1>1. Len(items) \in Nat /\ sentinels \in 0..MaxParallel
    BY ItemTypes DEF TypeOK
<1> QED
    BY <1>1 DEF Fitting, Lesser, Full

\* The sentinels are put behind the items that are there.
LEMMA SentinelsBehind ==
    ASSUME TypeOK
    PROVE  LET more == items \o [i \in 1..Fitting |-> Sentinel]
           IN  /\ more \in Seq(Entries)
               /\ Len(more) = Len(items) + Fitting
               /\ \A i \in 1..Len(items) : more[i] = items[i]
               /\ \A i \in 1..Len(more) : i \in 1..Len(items) \/ more[i] = Sentinel
<1> DEFINE more == items \o [i \in 1..Fitting |-> Sentinel]
           ss == [i \in 1..Fitting |-> Sentinel]
<1>1. items \in Seq(Entries) /\ Len(items) \in Nat
    BY ItemTypes
<1>2. Fitting \in Nat
    BY FittingType DEF TypeOK
<1>3. ss \in Seq(Entries)
    BY <1>2, IsASeq DEF Entries
<1>4. Len(ss) = Fitting
    BY <1>2, <1>3, LenProperties
<1> QED
    BY <1>1, <1>2, <1>3, <1>4, ConcatProperties

------------------------------------------------------------------------------
(* The count of unfinished tasks *)

LEMMA BusyFinite == Busy \subseteq Workers /\ IsFiniteSet(Busy) /\ Cardinality(Busy) \in Nat
<1>1. IsFiniteSet({"worker"})
    BY FS_Singleton
<1>2. IsFiniteSet(Workers)
    <2>1. IsFiniteSet(1..MaxParallel)
        BY FS_Interval
    <2> QED
        BY <1>1, <2>1, FS_Product DEF Workers
<1>3. Busy \subseteq Workers
    BY DEF Busy
<1> QED
    BY <1>2, <1>3, FS_Subset, FS_CardinalityType

\* Before the start no worker has run.
NotStarted == ~running /\ stopping = "no" => \A w \in Workers : at[w] = "off"

Counted == TypeOK /\ NotStarted /\ UnfinishedIsExact

\* A worker that looks has a task to mark as done exactly if it is counted as busy.
LEMMA LeftExact ==
    ASSUME Counted, NEW w \in Workers, Looks(w)
    PROVE  /\ Left(w) \in Nat
           /\ Left(w) = Len(items) + Cardinality(Busy \ {w})
           /\ Cardinality(Busy \ {w}) \in Nat
<1>1. unfinished = Len(items) + Cardinality(Busy) /\ Len(items) \in Nat
    BY ItemTypes DEF Counted, UnfinishedIsExact
<1>2. IsFiniteSet(Busy) /\ Cardinality(Busy) \in Nat
    BY BusyFinite
<1>3. CASE at[w] = "ended"
    <2>1. w \in Busy
        BY <1>3 DEF Busy
    <2>2. Cardinality(Busy \ {w}) = Cardinality(Busy) - 1 /\ Cardinality(Busy) >= 1
        BY <1>2, <2>1, FS_RemoveElement, FS_EmptySet, FS_CardinalityType
    <2> QED
        BY <1>1, <1>2, <1>3, <2>2 DEF Left
<1>4. CASE at[w] # "ended"
    <2>1. w \notin Busy
        BY <1>4 DEF Busy, Looks
    <2>2. Busy \ {w} = Busy
        BY <2>1
    <2>3. Left(w) = unfinished
        BY <1>4 DEF Left
    <2>4. unfinished \in Nat
        BY <1>1, <1>2
    <2> QED
        BY <1>1, <1>2, <2>2, <2>3, <2>4
<1> QED
    BY <1>3, <1>4


------------------------------------------------------------------------------
(* Types and counts, step by step *)

LEMMA CountedInit == Init => Counted
<1> SUFFICES ASSUME Init PROVE Counted
    OBVIOUS
<1>1. TypeOK
    <2>1. << >> \in Seq(Requests \cup {Sentinel}) /\ << >> \in Seq(Workers)
          /\ << >> \in Seq(Requests \cup {Stop}) /\ << >> \in Seq(Requests \cup Workers \cup {Stop})
        OBVIOUS
    <2>2. /\ items \in Seq(Requests \cup {Sentinel}) /\ getters \in Seq(Workers)
          /\ putters \in Seq(Requests \cup {Stop})
          /\ ready \in Seq(Requests \cup Workers \cup {Stop})
        BY <2>1 DEF Init
    <2>3. /\ call \in [Requests -> {"new"} \cup InFlight \cup Answers]
          /\ at \in [Workers -> {"off", "get", "busy", "ended", "gone"}]
          /\ job \in [Workers -> Requests \cup {NoJob}]
          /\ \A w \in Workers : at[w] # "busy"
        BY DEF Init
    <2>4. /\ running \in BOOLEAN /\ accepting \in BOOLEAN /\ drains \in BOOLEAN
          /\ stopping = "no" /\ ended \subseteq Requests
        BY DEF Init
    <2>5. unfinished \in Nat /\ sentinels \in 0..MaxParallel
        BY DEF Init
    <2> QED
        BY <2>2, <2>3, <2>4, <2>5 DEF TypeOK
<1>2. NotStarted
    BY DEF Init, NotStarted
<1>3. Busy = {}
    BY DEF Init, Busy
<1>4. UnfinishedIsExact
    BY <1>3, FS_EmptySet DEF Init, UnfinishedIsExact
<1> QED
    BY <1>1, <1>2, <1>4 DEF Counted

\* Steps that leave the queue and the workers' places alone.
LEMMA CountedFrame ==
    ASSUME Counted, TypeOK', NotStarted', UNCHANGED <<items, unfinished>>, Busy' = Busy
    PROVE  Counted'
BY DEF Counted, UnfinishedIsExact

LEMMA CallTypes ==
    ASSUME Counted, NEW r \in Requests,
           \/ Arrive(r) \/ TimeoutFires(r) \/ NoPlan(r) \/ NotRunning(r) \/ WaitForRoom(r)
           \/ Saturated(r)
    PROVE  Counted'
<1> USE DEF aqueue
<1>1. TypeOK
    BY DEF Counted
<1>2. r \in Anyone
    BY Names
<1>3. UNCHANGED <<running, accepting, items, unfinished, at, job, stopping, sentinels, ended,
                  drains>>
    BY DEF Arrive, TimeoutFires, NoPlan, NotRunning, WaitForRoom, Saturated, Answer
<1>4. call' \in [Requests -> {"new"} \cup InFlight \cup Answers]
    BY <1>1 DEF TypeOK, Arrive, TimeoutFires, NoPlan, NotRunning, WaitForRoom, Saturated,
       Answer, InFlight, Answers
<1>5. getters' = getters
    BY DEF Arrive, TimeoutFires, NoPlan, NotRunning, WaitForRoom, Saturated, Answer
<1>6. putters' \in Seq(Requests \cup {Stop}) /\ ready' \in Seq(Anyone)
    <2>1. putters \in Seq(Requests \cup {Stop}) /\ ready \in Seq(Anyone)
        BY <1>1 DEF TypeOK, Anyone
    <2>2. CASE Arrive(r)
        BY <1>1, <1>2, <2>1, <2>2, ReadyTypes DEF Arrive
    <2>3. CASE TimeoutFires(r)
        <3>1. r \in Range(putters) => Without(putters, r) \in Seq(Requests \cup {Stop})
            BY <2>1, WithoutType
        <3> QED
            BY <1>1, <1>2, <2>1, <2>3, <3>1, ReadyTypes DEF TimeoutFires
    <2>4. CASE NoPlan(r) \/ NotRunning(r)
        BY <1>1, <2>1, <2>4, ReadyTypes DEF NoPlan, NotRunning, Answer, Runs
    <2>5. CASE WaitForRoom(r)
        <3>1. Append(putters, r) \in Seq(Requests \cup {Stop})
            BY <2>1, AppendProperties
        <3> QED
            BY <1>1, <2>5, <3>1, ReadyTypes DEF WaitForRoom, Offers, Runs
    <2>6. CASE Saturated(r)
        BY <1>1, <2>1, <2>6, ReadyTypes DEF Saturated, Answer, Runs
    <2> QED
        BY <2>2, <2>3, <2>4, <2>5, <2>6
<1>7. TypeOK'
    BY <1>1, <1>3, <1>4, <1>5, <1>6 DEF TypeOK, Anyone
<1>8. Busy' = Busy /\ NotStarted'
    BY <1>3 DEF Counted, Busy, NotStarted
<1> QED
    BY <1>3, <1>7, <1>8, CountedFrame

LEMMA EnqueueCounted ==
    ASSUME Counted, NEW r \in Requests, Enqueue(r)
    PROVE  Counted'
<1>1. TypeOK
    BY DEF Counted
<1>2. UNCHANGED <<running, accepting, putters, at, job, stopping, sentinels, ended, drains>>
    BY DEF Enqueue
<1>3. items' \in Seq(Entries) /\ Len(items') = Len(items) + 1 /\ Len(items) \in Nat
    BY <1>1, ItemTypes DEF Enqueue
<1>4. unfinished' = unfinished + 1 /\ unfinished' \in Nat
    BY <1>1 DEF Enqueue, TypeOK
<1>5. getters' \in Seq(Workers) /\ ready' \in Seq(Anyone)
    BY <1>1, ReadyTypes DEF Enqueue, Offers, Runs
<1>6. call' \in [Requests -> {"new"} \cup InFlight \cup Answers]
    BY <1>1 DEF TypeOK, Enqueue, Answers
<1>7. TypeOK'
    BY <1>1, <1>2, <1>3, <1>4, <1>5, <1>6 DEF TypeOK, Anyone, Entries
<1>8. Busy' = Busy /\ NotStarted'
    BY <1>2 DEF Counted, Busy, NotStarted
<1>9. UnfinishedIsExact'
    BY <1>3, <1>4, <1>8, BusyFinite DEF Counted, UnfinishedIsExact
<1> QED
    BY <1>7, <1>8, <1>9 DEF Counted


\* A worker that looks leaves the pool of busy ones, and joins it if it begins a job.
LEMMA WorkerCounted ==
    ASSUME Counted, NEW w \in Workers,
           WaitForItem(w) \/ BeginJob(w) \/ LeavePool(w)
    PROVE  Counted'
<1>1. TypeOK /\ Looks(w)
    BY DEF Counted, WaitForItem, BeginJob, LeavePool
<1>2. UNCHANGED <<running, accepting, call, stopping, sentinels, ended, drains>>
    BY DEF WaitForItem, BeginJob, LeavePool
<1>3. ready' \in Seq(Anyone)
    BY <1>1, WorkerReady DEF WaitForItem, BeginJob, LeavePool
<1>4. getters' \in Seq(Workers) /\ putters' \in Seq(Requests \cup {Stop})
    <2>1. getters \in Seq(Workers) /\ putters \in Seq(Requests \cup {Stop})
        BY <1>1 DEF TypeOK
    <2>2. Append(getters, w) \in Seq(Workers)
        BY <2>1, AppendProperties
    <2> QED
        BY <1>1, <2>1, <2>2, ReadyTypes DEF WaitForItem, BeginJob, LeavePool
<1>5. /\ at' \in [Workers -> {"off", "get", "busy", "ended", "gone"}]
      /\ job' \in [Workers -> Requests \cup {NoJob}]
      /\ \A v \in Workers : at'[v] = "busy" => job'[v] \in Requests
    <2>1. items # << >> /\ Head(items) # Sentinel => Head(items) \in Requests
        BY <1>1, ItemTypes DEF Entries
    <2> QED
        BY <1>1, <2>1 DEF TypeOK, WaitForItem, BeginJob, LeavePool
<1>6. items' \in Seq(Entries)
    BY <1>1, ItemTypes DEF WaitForItem, BeginJob, LeavePool
<1>7. NotStarted'
    BY <1>1, <1>2 DEF Counted, NotStarted, Looks
<1>8. UnfinishedIsExact' /\ unfinished' \in Nat
    <2>1. /\ Left(w) \in Nat /\ Left(w) = Len(items) + Cardinality(Busy \ {w})
          /\ Cardinality(Busy \ {w}) \in Nat
        BY <1>1, LeftExact
    <2>2. IsFiniteSet(Busy \ {w})
        BY BusyFinite, FS_RemoveElement
    <2>3. CASE WaitForItem(w)
        <3>1. Busy' = Busy \ {w}
            BY <1>1, <2>3 DEF WaitForItem, Busy, TypeOK
        <3> QED
            BY <2>1, <2>3, <3>1 DEF WaitForItem, UnfinishedIsExact
    <2>4. CASE BeginJob(w)
        <3>1. Busy' = (Busy \ {w}) \cup {w}
            BY <1>1, <2>4 DEF BeginJob, Busy, TypeOK
        <3>2. Cardinality(Busy') = Cardinality(Busy \ {w}) + 1
            BY <2>2, <3>1, FS_AddElement
        <3>3. Len(items') = Len(items) - 1 /\ Len(items) \in Nat
            BY <1>1, <2>4, ItemTypes DEF BeginJob
        <3> QED
            BY <2>1, <2>4, <3>2, <3>3 DEF BeginJob, UnfinishedIsExact
    <2>5. CASE LeavePool(w)
        <3>1. Busy' = Busy \ {w}
            BY <1>1, <2>5 DEF LeavePool, Busy, TypeOK
        <3>2. Len(items') = Len(items) - 1 /\ Len(items) \in Nat /\ Len(items) > 0
            BY <1>1, <2>5, ItemTypes DEF LeavePool
        <3> QED
            BY <2>1, <2>5, <3>1, <3>2 DEF LeavePool, UnfinishedIsExact
    <2> QED
        BY <2>3, <2>4, <2>5
<1>9. TypeOK'
    BY <1>1, <1>2, <1>3, <1>4, <1>5, <1>6, <1>8 DEF TypeOK, Anyone, Entries
<1> QED
    BY <1>7, <1>8, <1>9 DEF Counted

LEMMA EndJobCounted ==
    ASSUME Counted, NEW w \in Workers, EndJob(w)
    PROVE  Counted'
<1>1. TypeOK
    BY DEF Counted
<1>2. UNCHANGED <<running, accepting, aqueue, call, job, stopping, sentinels, drains>>
    BY DEF EndJob
<1>3. ready' \in Seq(Anyone)
    BY <1>1, Names, ReadyTypes DEF EndJob
<1>4. at' \in [Workers -> {"off", "get", "busy", "ended", "gone"}]
    BY <1>1 DEF EndJob, TypeOK
<1>5. ended' \subseteq Requests
    BY <1>1 DEF EndJob, TypeOK
<1>6. TypeOK'
    BY <1>1, <1>2, <1>3, <1>4, <1>5 DEF EndJob, TypeOK, Anyone, aqueue
<1>7. Busy' = Busy
    BY <1>1 DEF EndJob, Busy, TypeOK
<1>8. NotStarted'
    BY <1>1 DEF EndJob, Counted, NotStarted, TypeOK
<1> QED
    BY <1>2, <1>6, <1>7, <1>8, CountedFrame DEF aqueue

LEMMA StopCounted ==
    ASSUME Counted, Start \/ CallStop \/ StopJoins \/ StopReturns
    PROVE  Counted'
<1>1. TypeOK
    BY DEF Counted
<1>2. UNCHANGED <<aqueue, call, job, sentinels, ended, drains>>
    BY DEF Start, CallStop, StopJoins, StopReturns
<1>3. ready' \in Seq(Anyone)
    <2>1. CASE Start
        <3>1. ready \in Seq(Anyone)
            BY <1>1 DEF TypeOK, Anyone
        <3>2. [i \in 1..MaxParallel |-> <<"worker", i>>] \in Seq(Anyone)
            BY Names
        <3> QED
            BY <2>1, <3>1, <3>2, ConcatProperties DEF Start
    <2>2. CASE CallStop
        BY <1>1, <2>2, Names, ReadyTypes DEF CallStop
    <2>3. CASE StopJoins \/ StopReturns
        BY <1>1, <2>3, ReadyTypes DEF StopJoins, StopReturns, Runs
    <2> QED
        BY <2>1, <2>2, <2>3
<1>4. /\ running' \in BOOLEAN /\ accepting' \in BOOLEAN
      /\ stopping' \in {"no", "called", "join", "putting", "gather", "done"}
      /\ at' \in [Workers -> {"off", "get", "busy", "ended", "gone"}]
      /\ \A w \in Workers : at'[w] = "busy" => at[w] = "busy"
    BY <1>1 DEF TypeOK, Start, CallStop, StopJoins, StopReturns
<1>5. TypeOK'
    BY <1>1, <1>2, <1>3, <1>4 DEF TypeOK, Anyone, aqueue
<1>6. NotStarted'
    BY DEF Counted, NotStarted, Start, CallStop, StopJoins, StopReturns
<1>7. Busy' = Busy
    <2>1. CASE Start
        BY <1>1, <2>1 DEF Start, Busy, Counted, NotStarted, TypeOK
    <2>2. CASE CallStop \/ StopJoins \/ StopReturns
        BY <2>2 DEF CallStop, StopJoins, StopReturns, Busy
    <2> QED
        BY <2>1, <2>2
<1> QED
    BY <1>2, <1>5, <1>6, <1>7, CountedFrame DEF aqueue

LEMMA StopPutsCounted ==
    ASSUME Counted, StopPuts
    PROVE  Counted'
<1>1. TypeOK
    BY DEF Counted
<1>2. UNCHANGED <<running, call, at, job, ended, drains>> /\ accepting' = FALSE
    BY DEF StopPuts
<1>3. Fitting \in 0..(MaxParallel - sentinels) /\ sentinels \in 0..MaxParallel
    BY <1>1, FittingType DEF TypeOK
<1>4. items' \in Seq(Entries) /\ Len(items') = Len(items) + Fitting /\ Len(items) \in Nat
    BY <1>1, SentinelsBehind, ItemTypes DEF StopPuts
<1>5. unfinished' = unfinished + Fitting /\ unfinished' \in Nat
      /\ sentinels' \in 0..MaxParallel
    BY <1>1, <1>3 DEF StopPuts, TypeOK
<1>6. ready' \in Seq(Anyone) /\ getters' \in Seq(Workers)
    <2> DEFINE woken == Lesser(Fitting, Len(getters))
    <2>1. getters \in Seq(Workers) /\ Len(getters) \in Nat
        BY <1>1, LenProperties DEF TypeOK
    <2>2. woken \in 0..Len(getters)
        BY <1>3, <2>1 DEF Lesser
    <2> HIDE DEF woken
    <2>3. SubSeq(getters, 1, woken) \in Seq(Workers)
        BY <2>1, <2>2, PartType
    <2>4. SubSeq(getters, woken + 1, Len(getters)) \in Seq(Workers)
        BY <2>1, <2>2, PartType
    <2>5. SubSeq(getters, 1, woken) \in Seq(Anyone)
        BY <2>3, Names, SeqMonotonic
    <2> QED
        BY <1>1, <2>4, <2>5, ReadyTypes DEF StopPuts, Runs, woken
<1>7. /\ stopping' \in {"gather", "putting"}
      /\ putters' \in Seq(Requests \cup {Stop})
    <2>1. putters \in Seq(Requests \cup {Stop})
        BY <1>1 DEF TypeOK
    <2>2. Append(putters, Stop) \in Seq(Requests \cup {Stop})
        BY <2>1, AppendProperties
    <2> QED
        BY <2>1, <2>2 DEF StopPuts
<1>8. TypeOK'
    BY <1>1, <1>2, <1>4, <1>5, <1>6, <1>7 DEF TypeOK, Anyone, Entries
<1>9. NotStarted' /\ Busy' = Busy
    BY <1>2, <1>7 DEF NotStarted, Busy
<1>10. UnfinishedIsExact'
    BY <1>3, <1>4, <1>5, <1>9, BusyFinite DEF Counted, UnfinishedIsExact
<1> QED
    BY <1>8, <1>9, <1>10 DEF Counted

LEMMA CountedStep == Counted /\ [Next]_vars => Counted'
<1> SUFFICES ASSUME Counted, [Next]_vars PROVE Counted'
    OBVIOUS
<1>1. CASE UNCHANGED vars
    BY <1>1 DEF vars, tasks, aqueue, Counted, TypeOK, NotStarted, UnfinishedIsExact, Busy
<1>2. CASE LoopStep
    BY <1>2, CallTypes, EnqueueCounted, WorkerCounted, StopCounted, StopPutsCounted
       DEF LoopStep
<1>3. CASE Start \/ CallStop
    BY <1>3, StopCounted
<1>4. CASE \E r \in Requests : Arrive(r) \/ TimeoutFires(r)
    BY <1>4, CallTypes
<1>5. CASE \E w \in Workers : EndJob(w)
    BY <1>5, EndJobCounted
<1> QED
    BY <1>1, <1>2, <1>3, <1>4, <1>5 DEF Next, Stopped

LEMMA CountedAlways == Spec => []Counted
<1> QED
    BY CountedInit, CountedStep, PTL DEF Spec

\* Every variable keeps its type, and the counters of the queue do not go below zero.
THEOREM TypeCorrect == Spec => []TypeOK
<1>1. Counted => TypeOK
    BY DEF Counted
<1> QED
    BY <1>1, CountedAlways, PTL

\* join's counter is always the number of jobs and sentinels in the queue and in hand.
THEOREM UnfinishedExact == Spec => []UnfinishedIsExact
<1>1. Counted => UnfinishedIsExact
    BY DEF Counted
<1> QED
    BY <1>1, CountedAlways, PTL
------------------------------------------------------------------------------
(* The truth of the answers *)

\* The parts of AnswerIsTruth.
InHand(r) == \E w \in Workers : at[w] = "busy" /\ job[w] = r
AcceptedIsKnown == \A r \in Requests : call[r] = "accepted" <=> r \in Queued \cup ended \/ InHand(r)
QueuedOnce == \A i, j \in DOMAIN items : items[i] = items[j] /\ items[i] # Sentinel => i = j
InOneHand ==
    /\ \A v, w \in Workers : at[v] = "busy" /\ at[w] = "busy" /\ job[v] = job[w] => v = w
    /\ \A w \in Workers : at[w] = "busy" => job[w] \notin ended \cup Queued
    /\ ended \cap Queued = {}

LEMMA TruthParts == AnswerIsTruth <=> AcceptedIsKnown /\ QueuedOnce /\ InOneHand
BY DEF AnswerIsTruth, AcceptedIsKnown, QueuedOnce, InOneHand, InHand

LEMMA QueuedIs ==
    ASSUME TypeOK
    PROVE  \A x : x \in Queued <=> x # Sentinel /\ \E i \in 1..Len(items) : items[i] = x
BY ItemTypes, LenProperties DEF Queued, Range

\* A step that moves no job and accepts none.
LEMMA TruthFrame ==
    ASSUME AnswerIsTruth, Queued' = Queued, ended' = ended, QueuedOnce',
           \A w \in Workers : at'[w] = "busy" <=> at[w] = "busy",
           \A w \in Workers : at[w] = "busy" => job'[w] = job[w],
           \A r \in Requests : call'[r] = "accepted" <=> call[r] = "accepted"
    PROVE  AnswerIsTruth'
<1>1. AcceptedIsKnown /\ QueuedOnce /\ InOneHand
    BY TruthParts
<1>2. AcceptedIsKnown'
    BY <1>1 DEF AcceptedIsKnown, InHand
<1>3. InOneHand'
    BY <1>1 DEF InOneHand
<1> QED
    BY <1>2, <1>3 DEF AnswerIsTruth, AcceptedIsKnown, QueuedOnce, InOneHand, InHand

\* What is taken from the head of the queue was there once.
LEMMA TailTruth ==
    ASSUME TypeOK, TypeOK', items # << >>, items' = Tail(items), QueuedOnce
    PROVE  /\ QueuedOnce'
           /\ Head(items) # Sentinel =>
                  Head(items) \in Queued /\ Queued' = Queued \ {Head(items)}
           /\ Head(items) = Sentinel => Queued' = Queued
<1>1. items \in Seq(Entries) /\ items' \in Seq(Entries)
    BY DEF TypeOK, Entries
<1>2. /\ Len(items') = Len(items) - 1 /\ Len(items) \in Nat /\ Len(items) > 0
      /\ \A i \in 1..Len(items') : items'[i] = items[i + 1]
    BY <1>1, HeadTailProperties, ItemTypes
<1>3. Head(items) = items[1]
    BY <1>1
<1>4. DOMAIN items = 1..Len(items) /\ DOMAIN items' = 1..Len(items')
    BY <1>1, LenProperties
<1>5. QueuedOnce'
    BY <1>2, <1>4 DEF QueuedOnce
<1>6. \A x : x \in Queued <=> x # Sentinel /\ \E i \in 1..Len(items) : items[i] = x
    BY <1>4 DEF Queued, Range
<1>7. \A x : x \in Queued' <=> x # Sentinel /\ \E i \in 1..Len(items') : items'[i] = x
    BY <1>4 DEF Queued, Range
<1>8. \A x : x \in Queued' => x \in Queued
    BY <1>2, <1>6, <1>7
<1>9. \A x : x \in Queued /\ x # Head(items) => x \in Queued'
    <2> SUFFICES ASSUME NEW x, x \in Queued, x # Head(items) PROVE x \in Queued'
        OBVIOUS
    <2>1. PICK i \in 1..Len(items) : items[i] = x
        BY <1>6
    <2>2. i # 1 /\ i - 1 \in 1..Len(items')
        BY <1>2, <1>3, <2>1
    <2>3. items'[i - 1] = x
        BY <1>2, <2>1, <2>2
    <2> QED
        BY <1>6, <1>7, <2>2, <2>3
<1>10. Head(items) # Sentinel => Head(items) \in Queued /\ Head(items) \notin Queued'
    <2> SUFFICES ASSUME Head(items) # Sentinel
                 PROVE  Head(items) \in Queued /\ Head(items) \notin Queued'
        OBVIOUS
    <2>1. Head(items) \in Queued
        BY <1>2, <1>3, <1>6
    <2>2. \A i \in 1..Len(items') : items'[i] # Head(items)
        BY <1>2, <1>3, <1>4 DEF QueuedOnce
    <2> QED
        BY <1>7, <2>1, <2>2
<1>11. Head(items) = Sentinel => Head(items) \notin Queued
    BY DEF Queued
<1> QED
    BY <1>5, <1>8, <1>9, <1>10, <1>11

LEMMA EnqueueTruth ==
    ASSUME Counted, Counted', AnswerIsTruth, NEW r \in Requests, Enqueue(r)
    PROVE  AnswerIsTruth'
<1>1. TypeOK /\ TypeOK' /\ AcceptedIsKnown /\ QueuedOnce /\ InOneHand
    BY TruthParts DEF Counted
<1>2. UNCHANGED <<at, job, ended>> /\ items' = Append(items, r)
    BY DEF Enqueue
<1>3. call[r] # "accepted" /\ call' = [call EXCEPT ![r] = "accepted"]
    BY DEF Enqueue, Offers
<1>4. r \notin Queued \cup ended /\ ~InHand(r) /\ r # Sentinel
    BY <1>1, <1>3, Names DEF AcceptedIsKnown
<1>5. /\ Len(items') = Len(items) + 1 /\ Len(items) \in Nat
      /\ \A i \in 1..Len(items) : items'[i] = items[i]
      /\ items'[Len(items) + 1] = r
      /\ DOMAIN items = 1..Len(items) /\ DOMAIN items' = 1..Len(items')
    <2>1. items \in Seq(Entries) /\ items' \in Seq(Entries) /\ r \in Entries
        BY <1>1 DEF TypeOK, Entries
    <2> QED
        BY <1>2, <2>1, AppendProperties, LenProperties
<1>6. Queued' = Queued \cup {r}
    <2>1. \A x : x \in Queued <=> x # Sentinel /\ \E i \in 1..Len(items) : items[i] = x
        BY <1>5 DEF Queued, Range
    <2>2. \A x : x \in Queued' <=> x # Sentinel /\ \E i \in 1..Len(items') : items'[i] = x
        BY <1>5 DEF Queued, Range
    <2> QED
        BY <1>4, <1>5, <2>1, <2>2
<1>7. QueuedOnce'
    <2>1. \A i \in 1..Len(items) : items[i] # r
        BY <1>4, <1>5 DEF Queued, Range
    <2> QED
        BY <1>1, <1>5, <2>1 DEF QueuedOnce
<1>8. AcceptedIsKnown'
    BY <1>1, <1>2, <1>3, <1>6 DEF AcceptedIsKnown, InHand, TypeOK
<1>9. InOneHand'
    BY <1>1, <1>2, <1>4, <1>6 DEF InOneHand, InHand
<1> QED
    BY <1>7, <1>8, <1>9 DEF AnswerIsTruth, AcceptedIsKnown, QueuedOnce, InOneHand, InHand

LEMMA BeginTruth ==
    ASSUME Counted, Counted', AnswerIsTruth, NEW w \in Workers, BeginJob(w)
    PROVE  AnswerIsTruth'
<1>1. TypeOK /\ TypeOK' /\ AcceptedIsKnown /\ QueuedOnce /\ InOneHand
    BY TruthParts DEF Counted
<1> DEFINE r == Head(items)
<1>2. /\ UNCHANGED <<call, ended>> /\ items # << >> /\ items' = Tail(items)
      /\ at[w] # "busy" /\ r # Sentinel
    BY DEF BeginJob, Looks
<1>3. at' = [at EXCEPT ![w] = "busy"] /\ job' = [job EXCEPT ![w] = r]
    BY DEF BeginJob
<1>4. QueuedOnce' /\ r \in Queued /\ Queued' = Queued \ {r}
    BY <1>1, <1>2, TailTruth
<1>5. \A v \in Workers : /\ v # w => at'[v] = at[v] /\ job'[v] = job[v]
                         /\ at'[w] = "busy" /\ job'[w] = r
    BY <1>1, <1>3 DEF TypeOK
<1>6. r \in Requests
    BY <1>1, <1>2, ItemTypes DEF Entries
<1>7. \A q : InHand(q)' <=> InHand(q) \/ q = r
    BY <1>2, <1>5 DEF InHand
<1>8. r \notin ended
    BY <1>1, <1>4 DEF InOneHand
<1>9. AcceptedIsKnown'
    BY <1>1, <1>2, <1>4, <1>6, <1>7 DEF AcceptedIsKnown
<1>10. InOneHand'
    BY <1>1, <1>2, <1>4, <1>5, <1>8 DEF InOneHand
<1> QED
    BY <1>4, <1>9, <1>10 DEF AnswerIsTruth, AcceptedIsKnown, QueuedOnce, InOneHand, InHand
LEMMA LeaveTruth ==
    ASSUME Counted, Counted', AnswerIsTruth, NEW w \in Workers, LeavePool(w)
    PROVE  AnswerIsTruth'
<1>1. TypeOK /\ TypeOK' /\ QueuedOnce
    BY TruthParts DEF Counted
<1>2. items # << >> /\ items' = Tail(items) /\ Head(items) = Sentinel
    BY DEF LeavePool
<1>3. QueuedOnce' /\ Queued' = Queued
    BY <1>1, <1>2, TailTruth
<1>4. /\ \A v \in Workers : at'[v] = "busy" <=> at[v] = "busy"
      /\ \A v \in Workers : at[v] = "busy" => job'[v] = job[v]
    BY <1>1 DEF LeavePool, Looks, TypeOK
<1>5. UNCHANGED <<call, ended>>
    BY DEF LeavePool
<1> QED
    BY <1>3, <1>4, <1>5, TruthFrame

LEMMA EndTruth ==
    ASSUME Counted, Counted', AnswerIsTruth, NEW w \in Workers, EndJob(w)
    PROVE  AnswerIsTruth'
<1>1. TypeOK /\ TypeOK' /\ AcceptedIsKnown /\ QueuedOnce /\ InOneHand
    BY TruthParts DEF Counted
<1>2. UNCHANGED <<call, items, job>> /\ at[w] = "busy" /\ ended' = ended \cup {job[w]}
    BY DEF EndJob, aqueue
<1>3. \A v \in Workers : at'[v] = "busy" <=> at[v] = "busy" /\ v # w
    BY <1>1 DEF EndJob, TypeOK
<1>4. Queued' = Queued /\ QueuedOnce'
    BY <1>1, <1>2 DEF Queued, QueuedOnce
<1>5. \A r : InHand(r) <=> InHand(r)' \/ r = job[w]
    BY <1>1, <1>2, <1>3 DEF InHand, InOneHand
<1>6. AcceptedIsKnown'
    BY <1>1, <1>2, <1>4, <1>5 DEF AcceptedIsKnown
<1>7. InOneHand'
    BY <1>1, <1>2, <1>3, <1>4 DEF InOneHand
<1> QED
    BY <1>4, <1>6, <1>7 DEF AnswerIsTruth, AcceptedIsKnown, QueuedOnce, InOneHand, InHand

LEMMA StopPutsTruth ==
    ASSUME Counted, Counted', AnswerIsTruth, StopPuts
    PROVE  AnswerIsTruth'
<1>1. TypeOK /\ TypeOK' /\ QueuedOnce
    BY TruthParts DEF Counted
<1>2. /\ Len(items') = Len(items) + Fitting /\ Len(items) \in Nat
      /\ \A i \in 1..Len(items) : items'[i] = items[i]
      /\ \A i \in 1..Len(items') : i \in 1..Len(items) \/ items'[i] = Sentinel
    BY <1>1, SentinelsBehind, ItemTypes DEF StopPuts
<1>3. Fitting \in Nat
    BY <1>1, FittingType DEF TypeOK
<1>4. DOMAIN items = 1..Len(items) /\ DOMAIN items' = 1..Len(items')
    BY <1>1, LenProperties DEF TypeOK
<1>5. Queued' = Queued
    <2>1. \A x : x \in Queued <=> x # Sentinel /\ \E i \in 1..Len(items) : items[i] = x
        BY <1>4 DEF Queued, Range
    <2>2. \A x : x \in Queued' <=> x # Sentinel /\ \E i \in 1..Len(items') : items'[i] = x
        BY <1>4 DEF Queued, Range
    <2>3. 1..Len(items) \subseteq 1..Len(items')
        BY <1>2, <1>3
    <2>4. Queued \subseteq Queued'
        BY <1>2, <2>1, <2>2, <2>3
    <2>5. Queued' \subseteq Queued
        BY <1>2, <2>1, <2>2
    <2> QED
        BY <2>4, <2>5
<1>6. QueuedOnce'
    BY <1>1, <1>2, <1>3, <1>4 DEF QueuedOnce
<1>7. UNCHANGED <<call, at, job, ended>>
    BY DEF StopPuts
<1> QED
    BY <1>5, <1>6, <1>7, TruthFrame

\* Steps that leave the items alone.
LEMMA OtherTruth ==
    ASSUME Counted, AnswerIsTruth,
           \/ Start \/ CallStop \/ StopJoins \/ StopReturns
           \/ \E w \in Workers : WaitForItem(w)
           \/ \E r \in Requests : \/ Arrive(r) \/ TimeoutFires(r) \/ NoPlan(r)
                                  \/ NotRunning(r) \/ WaitForRoom(r) \/ Saturated(r)
    PROVE  AnswerIsTruth'
<1>1. TypeOK /\ NotStarted /\ QueuedOnce
    BY TruthParts DEF Counted
<1>2. UNCHANGED <<items, ended>>
    BY DEF Start, CallStop, StopJoins, StopReturns, WaitForItem, Arrive, TimeoutFires, NoPlan,
       NotRunning, WaitForRoom, Saturated, Answer, aqueue
<1>3. Queued' = Queued /\ QueuedOnce'
    BY <1>1, <1>2 DEF Queued, QueuedOnce
<1>4. CASE Start
    BY <1>1, <1>2, <1>3, <1>4, TruthFrame DEF Start, NotStarted
<1>5. CASE CallStop \/ StopJoins \/ StopReturns
    BY <1>2, <1>3, <1>5, TruthFrame DEF CallStop, StopJoins, StopReturns
<1>6. CASE \E w \in Workers : WaitForItem(w)
    <2>1. PICK w \in Workers : WaitForItem(w)
        BY <1>6
    <2>2. /\ \A v \in Workers : at'[v] = "busy" <=> at[v] = "busy"
          /\ \A v \in Workers : at[v] = "busy" => job'[v] = job[v]
          /\ UNCHANGED call
        BY <1>1, <2>1 DEF WaitForItem, Looks, TypeOK
    <2> QED
        BY <1>2, <1>3, <2>2, TruthFrame
<1>7. CASE \E r \in Requests : \/ Arrive(r) \/ TimeoutFires(r) \/ NoPlan(r)
                               \/ NotRunning(r) \/ WaitForRoom(r) \/ Saturated(r)
    <2>1. PICK r \in Requests : \/ Arrive(r) \/ TimeoutFires(r) \/ NoPlan(r)
                                \/ NotRunning(r) \/ WaitForRoom(r) \/ Saturated(r)
        BY <1>7
    <2>2. UNCHANGED <<at, job>>
        BY <2>1 DEF Arrive, TimeoutFires, NoPlan, NotRunning, WaitForRoom, Saturated, Answer
    <2>3. \A q \in Requests : call'[q] = "accepted" <=> call[q] = "accepted"
        BY <1>1, <2>1 DEF Arrive, TimeoutFires, NoPlan, NotRunning, WaitForRoom, Saturated,
           Answer, Offers, TypeOK
    <2> QED
        BY <1>2, <1>3, <2>2, <2>3, TruthFrame
<1> QED
    BY <1>4, <1>5, <1>6, <1>7

Truth == Counted /\ AnswerIsTruth

LEMMA TruthInit == Init => Truth
<1> SUFFICES ASSUME Init PROVE AnswerIsTruth
    BY CountedInit DEF Truth
<1>1. Queued = {}
    BY DEF Init, Queued, Range
<1> QED
    BY <1>1 DEF Init, AnswerIsTruth

LEMMA TruthStep == Truth /\ [Next]_vars => Truth'
<1> SUFFICES ASSUME Truth, [Next]_vars PROVE AnswerIsTruth'
    BY CountedStep DEF Truth
<1>1. Counted /\ Counted' /\ AnswerIsTruth
    BY CountedStep DEF Truth
<1>2. CASE UNCHANGED vars \/ Stopped
    BY <1>1, <1>2 DEF vars, tasks, aqueue, Stopped, AnswerIsTruth, Queued
<1>3. CASE LoopStep
    BY <1>1, <1>3, EnqueueTruth, BeginTruth, LeaveTruth, StopPutsTruth, OtherTruth
       DEF LoopStep
<1>4. CASE Start \/ CallStop \/ \E r \in Requests : Arrive(r) \/ TimeoutFires(r)
    BY <1>1, <1>4, OtherTruth
<1>5. CASE \E w \in Workers : EndJob(w)
    BY <1>1, <1>5, EndTruth
<1> QED
    BY <1>2, <1>3, <1>4, <1>5 DEF Next

\* A request that was answered 202 has one job, queued, in one worker's hand or ended;
\* any other answer means that there is none.
THEOREM AnswersAreTrue == Spec => []AnswerIsTruth
<1>1. Truth => AnswerIsTruth
    BY DEF Truth
<1> QED
    BY <1>1, TruthInit, TruthStep, PTL DEF Spec

------------------------------------------------------------------------------
(* Waiting lines without repetition *)

LEMMA TailLine ==
    ASSUME NEW S, NEW s \in Seq(S), s # << >>, IsInjective(s)
    PROVE  /\ IsInjective(Tail(s)) /\ Head(s) \in Range(s)
           /\ Range(Tail(s)) = Range(s) \ {Head(s)}
<1>1. /\ Len(s) \in Nat /\ Len(s) > 0 /\ Len(Tail(s)) = Len(s) - 1 /\ Head(s) = s[1]
      /\ \A i \in 1..Len(Tail(s)) : Tail(s)[i] = s[i + 1]
      /\ DOMAIN s = 1..Len(s) /\ DOMAIN Tail(s) = 1..Len(Tail(s))
    BY HeadTailProperties, LenProperties, EmptySeq
<1>2. IsInjective(Tail(s))
    BY <1>1 DEF IsInjective
<1>3. Head(s) \in Range(s)
    BY <1>1 DEF Range
<1>4. ASSUME NEW x \in Range(Tail(s)) PROVE x \in Range(s) \ {Head(s)}
    <2>1. PICK i \in 1..Len(Tail(s)) : Tail(s)[i] = x
        BY <1>1, <1>4 DEF Range
    <2>2. i + 1 \in 1..Len(s) /\ s[i + 1] = x /\ i + 1 # 1
        BY <1>1, <2>1
    <2> QED
        BY <1>1, <2>2 DEF Range, IsInjective
<1>5. ASSUME NEW x \in Range(s), x # Head(s) PROVE x \in Range(Tail(s))
    <2>1. PICK i \in 1..Len(s) : s[i] = x
        BY <1>1, <1>5 DEF Range
    <2>2. i - 1 \in 1..Len(Tail(s))
        BY <1>1, <1>5, <2>1
    <2>3. Tail(s)[i - 1] = x
        BY <1>1, <2>1, <2>2
    <2> QED
        BY <1>1, <2>2, <2>3 DEF Range
<1> QED
    BY <1>2, <1>3, <1>4, <1>5

LEMMA ConcatLine ==
    ASSUME NEW S, NEW s \in Seq(S), NEW u \in Seq(S), IsInjective(s), IsInjective(u),
           Range(s) \cap Range(u) = {}
    PROVE  IsInjective(s \o u) /\ Range(s \o u) = Range(s) \cup Range(u)
<1>1. /\ s \o u \in Seq(S) /\ Len(s \o u) = Len(s) + Len(u)
      /\ Len(s) \in Nat /\ Len(u) \in Nat
      /\ \A i \in 1..(Len(s) + Len(u)) :
             (s \o u)[i] = IF i <= Len(s) THEN s[i] ELSE u[i - Len(s)]
      /\ DOMAIN s = 1..Len(s) /\ DOMAIN u = 1..Len(u)
      /\ DOMAIN (s \o u) = 1..(Len(s) + Len(u))
    BY ConcatProperties, LenProperties
<1>2. Range(s \o u) = Range(s) \cup Range(u)
    BY RangeConcatenation
<1>3. \A i \in 1..Len(s), j \in 1..Len(u) : s[i] # u[j]
    BY <1>1 DEF Range
<1>4. ASSUME NEW i \in 1..(Len(s) + Len(u)), NEW j \in 1..(Len(s) + Len(u)),
             (s \o u)[i] = (s \o u)[j]
      PROVE  i = j
    <2>1. CASE i <= Len(s) /\ j <= Len(s)
        BY <1>1, <1>4, <2>1 DEF IsInjective
    <2>2. CASE i > Len(s) /\ j > Len(s)
        <3>1. i - Len(s) \in 1..Len(u) /\ j - Len(s) \in 1..Len(u)
            BY <1>1, <2>2
        <3>2. u[i - Len(s)] = u[j - Len(s)]
            BY <1>1, <1>4, <2>2
        <3>3. i - Len(s) = j - Len(s)
            BY <1>1, <3>1, <3>2 DEF IsInjective
        <3> QED
            BY <1>1, <3>3
    <2>3. CASE i <= Len(s) /\ j > Len(s)
        <3>1. i \in 1..Len(s) /\ j - Len(s) \in 1..Len(u)
            BY <1>1, <2>3
        <3> QED
            BY <1>1, <1>3, <1>4, <2>3, <3>1
    <2>4. CASE i > Len(s) /\ j <= Len(s)
        <3>1. j \in 1..Len(s) /\ i - Len(s) \in 1..Len(u)
            BY <1>1, <2>4
        <3> QED
            BY <1>1, <1>3, <1>4, <2>4, <3>1
    <2> QED
        BY <1>1, <2>1, <2>2, <2>3, <2>4
<1> QED
    BY <1>1, <1>2, <1>4 DEF IsInjective

LEMMA AppendLine ==
    ASSUME NEW S, NEW s \in Seq(S), NEW t \in S, IsInjective(s), t \notin Range(s)
    PROVE  IsInjective(Append(s, t)) /\ Range(Append(s, t)) = Range(s) \cup {t}
<1>1. <<t>> \in Seq(S) /\ IsInjective(<<t>>) /\ Range(<<t>>) = {t}
    BY DEF IsInjective, Range
<1>2. Append(s, t) = s \o <<t>>
    BY AppendIsConcat
<1>3. Range(s) \cap Range(<<t>>) = {}
    BY <1>1
<1>4. IsInjective(s \o <<t>>) /\ Range(s \o <<t>>) = Range(s) \cup Range(<<t>>)
    <2> DEFINE u == <<t>>
    <2>1. u \in Seq(S) /\ IsInjective(u) /\ Range(s) \cap Range(u) = {}
        BY <1>1, <1>3
    <2> HIDE DEF u
    <2>2. IsInjective(s \o u) /\ Range(s \o u) = Range(s) \cup Range(u)
        BY <2>1, ConcatLine
    <2> QED
        BY <2>2 DEF u
<1> QED
    BY <1>1, <1>2, <1>4

\* The first waiters and those behind them.
LEMMA SplitLine ==
    ASSUME NEW S, NEW s \in Seq(S), IsInjective(s), NEW k \in 0..Len(s)
    PROVE  LET front == SubSeq(s, 1, k)
               back  == SubSeq(s, k + 1, Len(s))
           IN  /\ front \in Seq(S) /\ back \in Seq(S)
               /\ IsInjective(front) /\ IsInjective(back)
               /\ Range(front) \cup Range(back) = Range(s)
               /\ Range(front) \cap Range(back) = {}
               /\ Len(front) = k /\ Len(back) = Len(s) - k
<1> DEFINE front == SubSeq(s, 1, k)
           back  == SubSeq(s, k + 1, Len(s))
<1>1. Len(s) \in Nat /\ DOMAIN s = 1..Len(s) /\ \A i \in 1..Len(s) : s[i] \in S
    BY LenProperties, ElementOfSeq
<1>2. /\ front \in Seq(S) /\ Len(front) = k
      /\ \A i \in 1..k : front[i] = s[i]
    BY <1>1, SubSeqProperties
<1>3. /\ back \in Seq(S) /\ Len(back) = Len(s) - k
      /\ \A i \in 1..(Len(s) - k) : back[i] = s[k + i]
    <2>1. \A i \in (k + 1)..Len(s) : s[i] \in S
        BY <1>1
    <2>2. k + 1 \in Int /\ Len(s) \in Int
        BY <1>1
    <2>3. /\ back \in Seq(S) /\ Len(back) = IF k + 1 <= Len(s) THEN Len(s) - (k + 1) + 1 ELSE 0
          /\ \A i \in 1..(Len(s) - (k + 1) + 1) : back[i] = s[(k + 1) + i - 1]
        BY <2>1, <2>2, SubSeqProperties
    <2>4. Len(s) - (k + 1) + 1 = Len(s) - k
        BY <1>1
    <2>5. \A i \in 1..(Len(s) - k) : (k + 1) + i - 1 = k + i
        BY <1>1
    <2> HIDE DEF back
    <2>6. Len(back) = Len(s) - k
        <3> HIDE DEF front
        <3>1. Len(back) = IF k + 1 <= Len(s) THEN Len(s) - (k + 1) + 1 ELSE 0
            BY <2>3
        <3>2. k \in Nat /\ k <= Len(s)
            BY <1>1
        <3>3. CASE k = Len(s)
            BY <1>1, <3>1, <3>3
        <3>4. CASE k # Len(s)
            <4>1. Len(s) \in Nat
                BY <1>1
            <4>2. k + 1 <= Len(s)
                BY <3>2, <3>4, <4>1
            <4> QED
                BY <2>4, <3>1, <4>2
        <3> QED
            BY <3>3, <3>4
    <2>7. \A i \in 1..(Len(s) - k) : back[i] = s[k + i]
        BY <2>3, <2>4, <2>5
    <2> QED
        BY <2>3, <2>6, <2>7
<1>4. DOMAIN front = 1..k /\ DOMAIN back = 1..(Len(s) - k)
    BY <1>2, <1>3, LenProperties
<1> HIDE DEF front, back
<1>5. \A i \in 1..(Len(s) - k) : k + i \in 1..Len(s)
    BY <1>1
<1>6. IsInjective(front) /\ IsInjective(back)
    <2>1. IsInjective(front)
        BY <1>1, <1>2, <1>4 DEF IsInjective
    <2>2. ASSUME NEW i \in 1..(Len(s) - k), NEW j \in 1..(Len(s) - k), back[i] = back[j]
          PROVE  i = j
        <3>1. s[k + i] = s[k + j]
            BY <1>3, <2>2
        <3>2. k + i = k + j
            BY <1>1, <1>5, <3>1 DEF IsInjective
        <3> QED
            BY <3>2
    <2> QED
        BY <1>4, <2>1, <2>2 DEF IsInjective
<1>7. Range(front) \cap Range(back) = {}
    <2> SUFFICES ASSUME NEW i \in 1..k, NEW j \in 1..(Len(s) - k) PROVE front[i] # back[j]
        BY <1>4 DEF Range
    <2>1. front[i] = s[i] /\ back[j] = s[k + j] /\ i # k + j
        BY <1>1, <1>2, <1>3
    <2> QED
        BY <1>1, <1>5, <2>1 DEF IsInjective
<1>8. Range(front) \cup Range(back) \subseteq Range(s)
    <2>1. ASSUME NEW i \in 1..k PROVE front[i] \in Range(s)
        <3>1. i \in 1..Len(s) /\ front[i] = s[i]
            BY <1>1, <1>2
        <3> QED
            BY <1>1, <3>1 DEF Range
    <2>2. ASSUME NEW i \in 1..(Len(s) - k) PROVE back[i] \in Range(s)
        <3>1. k + i \in 1..Len(s) /\ back[i] = s[k + i]
            BY <1>3, <1>5
        <3> QED
            BY <1>1, <3>1 DEF Range
    <2> QED
        BY <1>4, <2>1, <2>2 DEF Range
<1>9. Range(s) \subseteq Range(front) \cup Range(back)
    <2> SUFFICES ASSUME NEW i \in 1..Len(s) PROVE s[i] \in Range(front) \cup Range(back)
        BY <1>1 DEF Range
    <2>1. CASE i <= k
        BY <1>2, <1>4, <2>1 DEF Range
    <2>2. CASE i > k
        <3>1. i - k \in 1..(Len(s) - k) /\ k + (i - k) = i
            BY <1>1, <2>2
        <3> QED
            BY <1>3, <1>4, <3>1 DEF Range
    <2> QED
        BY <1>1, <2>1, <2>2
<1> QED
    BY <1>2, <1>3, <1>6, <1>7, <1>8, <1>9 DEF front, back

LEMMA WakeLine ==
    ASSUME NEW S, NEW s \in Seq(S), IsInjective(s)
    PROVE  /\ First(s) \in Seq(S) /\ Rest(s) \in Seq(S)
           /\ IsInjective(First(s)) /\ IsInjective(Rest(s))
           /\ Range(First(s)) \cup Range(Rest(s)) = Range(s)
           /\ Range(First(s)) \cap Range(Rest(s)) = {}
           /\ s # << >> => Range(First(s)) = {Head(s)} /\ Head(s) \in Range(s)
           /\ Rest(s) # << >> => s # << >>
<1>1. First(s) \in Seq(S) /\ Rest(s) \in Seq(S)
    BY FirstRest
<1>2. CASE s = << >>
    <2>1. IsInjective(<< >>) /\ Range(<< >>) = {}
        BY DEF IsInjective, Range
    <2> QED
        BY <1>1, <1>2, <2>1 DEF First, Rest
<1>3. CASE s # << >>
    <2> DEFINE h == Head(s)
    <2>1. First(s) = <<h>> /\ Rest(s) = Tail(s)
        BY <1>3 DEF First, Rest
    <2>2. IsInjective(Tail(s)) /\ h \in Range(s) /\ Range(Tail(s)) = Range(s) \ {h}
        BY <1>3, TailLine
    <2> HIDE DEF h
    <2>3. IsInjective(<<h>>) /\ Range(<<h>>) = {h}
        BY DEF IsInjective, Range
    <2> QED
        BY <1>1, <1>3, <2>1, <2>2, <2>3 DEF h
<1> QED
    BY <1>2, <1>3

LEMMA WithoutLine ==
    ASSUME NEW S, NEW s \in Seq(S), NEW t \in Range(s), IsInjective(s)
    PROVE  IsInjective(Without(s, t)) /\ Range(Without(s, t)) = Range(s) \ {t}
<1> DEFINE i == CHOOSE k \in DOMAIN s : s[k] = t
<1>1. i \in 1..Len(s) /\ s[i] = t /\ Len(s) \in Nat
    BY LenProperties DEF Range
<1> HIDE DEF i
<1> DEFINE front == SubSeq(s, 1, i - 1)
           onward == SubSeq(s, i, Len(s))
           back == SubSeq(s, i + 1, Len(s))
<1>2. i - 1 \in 0..Len(s) /\ i \in 0..Len(s) /\ (i - 1) + 1 = i
    BY <1>1
<1>3. /\ front \in Seq(S) /\ onward \in Seq(S)
      /\ IsInjective(front) /\ IsInjective(onward)
      /\ Range(front) \cup Range(onward) = Range(s) /\ Range(front) \cap Range(onward) = {}
      /\ Len(onward) = Len(s) - (i - 1)
    <2>1. LET b == SubSeq(s, (i - 1) + 1, Len(s))
          IN  /\ front \in Seq(S) /\ b \in Seq(S)
              /\ IsInjective(front) /\ IsInjective(b)
              /\ Range(front) \cup Range(b) = Range(s) /\ Range(front) \cap Range(b) = {}
              /\ Len(b) = Len(s) - (i - 1)
        BY <1>2, SplitLine
    <2> QED
        BY <1>2, <2>1
<1>4. back \in Seq(S) /\ IsInjective(back)
    BY <1>2, SplitLine
<1>5. onward # << >>
    <2>1. Len(onward) > 0
        BY <1>1, <1>3
    <2> HIDE DEF onward
    <2> QED
        BY <2>1, EmptySeq
<1>6. Head(onward) = t /\ Tail(onward) = back
    <2>1. i \in 1..Len(s) /\ Len(s) \in i..Len(s)
        BY <1>1
    <2> QED
        BY <1>1, <2>1, HeadTailOfSubSeq
<1> HIDE DEF front, onward, back
<1>7. Range(back) = Range(onward) \ {t} /\ t \in Range(onward)
    BY <1>3, <1>5, <1>6, TailLine
<1>8. IsInjective(front \o back) /\ Range(front \o back) = Range(front) \cup Range(back)
    BY <1>3, <1>4, <1>7, ConcatLine
<1>9. Without(s, t) = front \o back
    BY DEF Without, front, back, i
<1> QED
    BY <1>3, <1>7, <1>8, <1>9

------------------------------------------------------------------------------
(* Where each task is *)

\* A task is ready or waits, at most once; a worker that runs a job, has left or has not
\* begun is neither, and so is a request that has its answer or has not arrived.
WorkersPlaced ==
    \A w \in Workers :
        /\ w \in Range(ready) => at[w] \in {"get", "ended"}
        /\ w \in Range(getters) => at[w] = "get" /\ w \notin Range(ready)

RequestsPlaced ==
    \A r \in Requests :
        /\ r \in Range(ready) => call[r] \in InFlight
        /\ r \in Range(putters) => call[r] = "putting" /\ r \notin Range(ready)

StopPlaced ==
    /\ Stop \in Range(ready) => stopping \in {"called", "join", "putting", "gather"}
    /\ Stop \in Range(putters) => stopping = "putting" /\ Stop \notin Range(ready)
    /\ stopping = "putting" => sentinels < MaxParallel

Lines == IsInjective(ready) /\ IsInjective(getters) /\ IsInjective(putters)

Placed == Lines /\ WorkersPlaced /\ RequestsPlaced /\ StopPlaced

\* The workers that will look into the queue, and those woken for room.
Looking == {w \in Workers : w \in Range(ready)}
WokenCalls == {r \in Requests : r \in Range(ready) /\ call[r] \in {"putting", "expired_awake"}}
Woken == WokenCalls \cup {t \in {Stop} : t \in Range(ready) /\ stopping = "putting"}

\* While somebody waits for an item there is a worker awake for each one, and while
\* somebody waits for room there is somebody awake for each free place.
EnoughAwake ==
    /\ getters # << >> => Len(items) <= Cardinality(Looking)
    /\ putters # << >> => Capacity - Len(items) <= Cardinality(Woken)

\* The shutdown is awake after its last sentinel only when every worker has left.
Gathered ==
    stopping = "done" \/ (stopping = "gather" /\ Stop \in Range(ready)) =>
        \A w \in Workers : at[w] = "gone"

Awake == Placed /\ EnoughAwake /\ Gathered

LEMMA Kinds ==
    /\ Requests \cap Workers = {} /\ Stop \notin Requests /\ Stop \notin Workers
    /\ Anyone = Requests \cup Workers \cup {Stop}
BY DEF Requests, Workers, Stop, Anyone

LEMMA FewAwake ==
    /\ IsFiniteSet(Workers) /\ IsFiniteSet(Looking) /\ Cardinality(Looking) \in Nat
    /\ IsFiniteSet(Woken) /\ Cardinality(Woken) \in Nat
    /\ IsFiniteSet(Woken)' /\ IsFiniteSet(Looking)'
    /\ Cardinality(Looking)' \in Nat /\ Cardinality(Woken)' \in Nat
<1>1. IsFiniteSet({"worker"}) /\ IsFiniteSet({"request"}) /\ IsFiniteSet({Stop})
    BY FS_Singleton
<1>2. IsFiniteSet(1..MaxParallel) /\ IsFiniteSet(1..MaxRequests)
    BY FS_Interval
<1>3. IsFiniteSet(Workers) /\ IsFiniteSet(Requests)
    BY <1>1, <1>2, FS_Product DEF Workers, Requests
<1>4. IsFiniteSet(Requests \cup {Stop})
    BY <1>1, <1>3, FS_Union
<1>5. /\ Looking \subseteq Workers /\ Woken \subseteq Requests \cup {Stop}
      /\ Looking' \subseteq Workers /\ Woken' \subseteq Requests \cup {Stop}
    BY DEF Looking, Woken, WokenCalls
<1> QED
    BY <1>3, <1>4, <1>5, FS_Subset, FS_CardinalityType

\* The task that runs leaves the line of those that are ready.
LEMMA Turn ==
    ASSUME TypeOK, Lines, NEW t, Runs(t)
    PROVE  /\ t \in Range(ready) /\ Tail(ready) \in Seq(Anyone) /\ IsInjective(Tail(ready))
           /\ Range(Tail(ready)) = Range(ready) \ {t}
<1>1. ready \in Seq(Anyone) /\ ready # << >> /\ Head(ready) = t
    BY DEF TypeOK, Anyone, Runs
<1> QED
    BY <1>1, TailLine, HeadTailProperties DEF Lines

\* It makes others ready that were not.
LEMMA TurnAndWake ==
    ASSUME TypeOK, Lines, NEW t, Runs(t), NEW u \in Seq(Anyone), IsInjective(u),
           Range(u) \cap (Range(ready) \ {t}) = {}
    PROVE  /\ IsInjective(Tail(ready) \o u) /\ Tail(ready) \o u \in Seq(Anyone)
           /\ Range(Tail(ready) \o u) = (Range(ready) \ {t}) \cup Range(u)
<1> DEFINE s == Tail(ready)
<1>1. s \in Seq(Anyone) /\ IsInjective(s) /\ Range(s) = Range(ready) \ {t}
    BY Turn
<1> HIDE DEF s
<1>2. IsInjective(s \o u) /\ Range(s \o u) = Range(s) \cup Range(u)
    BY <1>1, ConcatLine
<1>3. s \o u \in Seq(Anyone)
    BY <1>1, ConcatProperties
<1> QED
    BY <1>1, <1>2, <1>3 DEF s

LEMMA LineTypes ==
    ASSUME TypeOK
    PROVE  /\ ready \in Seq(Anyone) /\ getters \in Seq(Anyone) /\ putters \in Seq(Anyone)
           /\ getters \in Seq(Workers) /\ putters \in Seq(Requests \cup {Stop})
           /\ Range(ready) \subseteq Anyone /\ Range(getters) \subseteq Workers
           /\ Range(putters) \subseteq Requests \cup {Stop}
<1>1. /\ ready \in Seq(Anyone) /\ getters \in Seq(Workers)
      /\ putters \in Seq(Requests \cup {Stop})
    BY DEF TypeOK, Anyone
<1>2. getters \in Seq(Anyone) /\ putters \in Seq(Anyone)
    BY <1>1, Names, SeqMonotonic
<1>3. /\ Range(ready) \subseteq Anyone /\ Range(getters) \subseteq Workers
      /\ Range(putters) \subseteq Requests \cup {Stop}
    BY <1>1, LenProperties DEF Range
<1> QED
    BY <1>1, <1>2, <1>3

\* A step that takes no item and fills no place, and puts nobody awake to sleep.
LEMMA AwakeFrame ==
    ASSUME EnoughAwake, items' = items,
           getters' # << >> => getters # << >>, putters' # << >> => putters # << >>,
           Looking \subseteq Looking', Woken \subseteq Woken', TypeOK
    PROVE  EnoughAwake'
<1>1. Cardinality(Looking) <= Cardinality(Looking') /\ Cardinality(Woken) <= Cardinality(Woken')
    BY FewAwake, FS_Subset
<1>2. Len(items) \in Nat
    BY ItemTypes
<1> QED
    BY <1>1, <1>2, FewAwake DEF EnoughAwake

------------------------------------------------------------------------------
(* Requests *)

\* A request that runs and has its answer.
LEMMA AnswerAwake ==
    ASSUME Counted, Awake, NEW r \in Requests,
           \/ NoPlan(r) \/ NotRunning(r)
           \/ Saturated(r) /\ call[r] = "expired"
    PROVE  Awake'
<1>1. TypeOK /\ Placed /\ EnoughAwake /\ Gathered /\ Lines
    BY DEF Counted, Awake, Placed
<1>2. /\ Runs(r) /\ call[r] \in {"arrived", "expired"} /\ ready' = Tail(ready)
      /\ UNCHANGED <<items, getters, putters, at, stopping, sentinels>>
      /\ \E answer \in Answers : call' = [call EXCEPT ![r] = answer]
    BY DEF NoPlan, NotRunning, Saturated, Answer, aqueue, Answers
<1>3. r \in Range(ready) /\ Range(ready') = Range(ready) \ {r} /\ IsInjective(ready')
    BY <1>1, <1>2, Turn
<1>4. \A q \in Requests : q # r => call'[q] = call[q]
    BY <1>1, <1>2 DEF TypeOK
<1>5. Lines'
    BY <1>1, <1>2, <1>3 DEF Lines
<1>6. WorkersPlaced' /\ StopPlaced'
    BY <1>1, <1>2, <1>3, Kinds DEF Placed, WorkersPlaced, StopPlaced
<1>7. RequestsPlaced'
    <2>1. r \notin Range(putters)
        BY <1>1, <1>2 DEF Placed, RequestsPlaced
    <2> QED
        BY <1>1, <1>2, <1>3, <1>4, <2>1 DEF Placed, RequestsPlaced
<1>8. Looking' = Looking
    BY <1>3, Kinds DEF Looking
<1>9. Woken \subseteq Woken'
    BY <1>2, <1>3, <1>4, Kinds DEF Woken, WokenCalls
<1>10. EnoughAwake'
    BY <1>1, <1>2, <1>8, <1>9, AwakeFrame
<1>11. Gathered'
    BY <1>1, <1>2, <1>3 DEF Gathered
<1> QED
    BY <1>5, <1>6, <1>7, <1>10, <1>11 DEF Awake, Placed

LEMMA ArriveAwake ==
    ASSUME Counted, Awake, NEW r \in Requests, Arrive(r)
    PROVE  Awake'
<1>1. TypeOK /\ Placed /\ EnoughAwake /\ Gathered /\ Lines
    BY DEF Counted, Awake, Placed
<1>2. /\ call[r] = "new" /\ ready' = Append(ready, r) /\ call' = [call EXCEPT ![r] = "arrived"]
      /\ UNCHANGED <<items, getters, putters, at, stopping, sentinels>>
    BY DEF Arrive, aqueue
<1>3. r \notin Range(ready) /\ r \notin Range(putters)
    BY <1>1, <1>2 DEF Placed, RequestsPlaced, InFlight
<1>4. Range(ready') = Range(ready) \cup {r} /\ IsInjective(ready')
    BY <1>1, <1>2, <1>3, Names, LineTypes, AppendLine DEF Lines
<1>5. call'[r] = "arrived" /\ \A q \in Requests : q # r => call'[q] = call[q]
    BY <1>1, <1>2 DEF TypeOK
<1>6. Lines'
    BY <1>1, <1>2, <1>4 DEF Lines
<1>7. WorkersPlaced' /\ StopPlaced'
    BY <1>1, <1>2, <1>4, Kinds DEF Placed, WorkersPlaced, StopPlaced
<1>8. RequestsPlaced'
    BY <1>1, <1>2, <1>3, <1>4, <1>5 DEF Placed, RequestsPlaced, InFlight
<1>9. Looking \subseteq Looking' /\ Woken \subseteq Woken'
    BY <1>2, <1>3, <1>4, <1>5 DEF Looking, Woken, WokenCalls
<1>10. EnoughAwake'
    BY <1>1, <1>2, <1>9, AwakeFrame
<1>11. Gathered'
    BY <1>1, <1>2, <1>4, Kinds DEF Gathered
<1> QED
    BY <1>6, <1>7, <1>8, <1>10, <1>11 DEF Awake, Placed

LEMMA WaitForRoomAwake ==
    ASSUME Counted, Awake, NEW r \in Requests, WaitForRoom(r)
    PROVE  Awake'
<1>1. TypeOK /\ Placed /\ EnoughAwake /\ Gathered /\ Lines
    BY DEF Counted, Awake, Placed
<1>2. /\ Runs(r) /\ Full /\ ready' = Tail(ready) /\ putters' = Append(putters, r)
      /\ call' = [call EXCEPT ![r] = "putting"]
      /\ UNCHANGED <<items, getters, at, stopping, sentinels>>
    BY DEF WaitForRoom, Offers
<1>3. r \in Range(ready) /\ Range(ready') = Range(ready) \ {r} /\ IsInjective(ready')
    BY <1>1, <1>2, Turn
<1>4. r \notin Range(putters)
    BY <1>1, <1>3 DEF Placed, RequestsPlaced
<1>5. Range(putters') = Range(putters) \cup {r} /\ IsInjective(putters')
    BY <1>1, <1>2, <1>4, LineTypes, AppendLine DEF Lines
<1>6. call'[r] = "putting" /\ \A q \in Requests : q # r => call'[q] = call[q]
    BY <1>1, <1>2 DEF TypeOK
<1>7. Lines'
    BY <1>1, <1>2, <1>3, <1>5 DEF Lines
<1>8. WorkersPlaced' /\ StopPlaced'
    BY <1>1, <1>2, <1>3, <1>5, Kinds DEF Placed, WorkersPlaced, StopPlaced
<1>9. RequestsPlaced'
    BY <1>1, <1>2, <1>3, <1>4, <1>5, <1>6 DEF Placed, RequestsPlaced
<1>10. Looking' = Looking
    BY <1>3, Kinds DEF Looking
<1>11. Len(items) \in Nat /\ Capacity - Len(items) <= 0
    BY <1>1, <1>2, ItemTypes DEF Full
<1>12. EnoughAwake'
    BY <1>1, <1>2, <1>10, <1>11, FewAwake DEF EnoughAwake
<1>13. Gathered'
    BY <1>1, <1>2, <1>3 DEF Gathered
<1> QED
    BY <1>7, <1>8, <1>9, <1>12, <1>13 DEF Awake, Placed

LEMMA EnqueueAwake ==
    ASSUME Counted, Awake, NEW r \in Requests, Enqueue(r)
    PROVE  Awake'
<1>1. TypeOK /\ Placed /\ EnoughAwake /\ Gathered /\ Lines
    BY DEF Counted, Awake, Placed
<1>2. /\ Runs(r) /\ ready' = Tail(ready) \o First(getters) /\ getters' = Rest(getters)
      /\ call' = [call EXCEPT ![r] = "accepted"] /\ items' = Append(items, r)
      /\ UNCHANGED <<putters, at, stopping, sentinels>>
    BY DEF Enqueue, Offers
<1>3. /\ r \in Range(ready) /\ Range(Tail(ready)) = Range(ready) \ {r}
      /\ IsInjective(Tail(ready)) /\ Tail(ready) \in Seq(Anyone)
    BY <1>1, <1>2, Turn
<1> DEFINE woken == Range(First(getters))
<1>4. /\ First(getters) \in Seq(Anyone) /\ IsInjective(First(getters)) /\ IsInjective(getters')
      /\ woken \cup Range(getters') = Range(getters) /\ woken \cap Range(getters') = {}
      /\ getters # << >> => woken = {Head(getters)} /\ Head(getters) \in Range(getters)
      /\ getters' # << >> => getters # << >>
    BY <1>1, <1>2, LineTypes, WakeLine DEF Lines
<1>5. /\ woken \subseteq Workers /\ woken \cap Range(ready) = {}
      /\ \A w \in woken : at[w] = "get"
    BY <1>1, <1>4, LineTypes DEF Placed, WorkersPlaced
<1>6. Range(ready') = (Range(ready) \ {r}) \cup woken /\ IsInjective(ready')
    <2>1. Range(Tail(ready)) \cap Range(First(getters)) = {}
        BY <1>3, <1>5
    <2> QED
        BY <1>1, <1>2, <1>3, <1>4, <2>1, TurnAndWake
<1> HIDE DEF woken
<1>7. call'[r] = "accepted" /\ \A q \in Requests : q # r => call'[q] = call[q]
    BY <1>1, <1>2 DEF TypeOK
<1>8. Lines'
    BY <1>1, <1>2, <1>4, <1>6 DEF Lines
<1>9. WorkersPlaced'
    BY <1>1, <1>2, <1>4, <1>5, <1>6, Kinds DEF Placed, WorkersPlaced
<1>10. StopPlaced'
    BY <1>1, <1>2, <1>5, <1>6, Kinds DEF Placed, StopPlaced
<1>11. RequestsPlaced'
    <2>1. r \notin Range(putters)
        BY <1>1, <1>3 DEF Placed, RequestsPlaced
    <2> QED
        BY <1>1, <1>2, <1>5, <1>6, <1>7, <2>1, Kinds DEF Placed, RequestsPlaced
<1>12. Len(items') = Len(items) + 1 /\ Len(items) \in Nat
    BY <1>1, <1>2, ItemTypes
<1>13. getters' # << >> => Len(items') <= Cardinality(Looking)'
    <2> SUFFICES ASSUME getters' # << >> PROVE Len(items') <= Cardinality(Looking')
        OBVIOUS
    <2>1. getters # << >> /\ woken = {Head(getters)} /\ Len(items) <= Cardinality(Looking)
        BY <1>1, <1>4 DEF woken, EnoughAwake
    <2>2. Head(getters) \notin Looking
        BY <1>5, <2>1 DEF Looking
    <2>3. Looking' = Looking \cup {Head(getters)}
        BY <1>5, <1>6, <2>1, Kinds DEF Looking
    <2>4. Cardinality(Looking') = Cardinality(Looking) + 1
        BY <2>2, <2>3, FewAwake, FS_AddElement
    <2> QED
        BY <1>12, <2>1, <2>4, FewAwake
<1>14. putters' # << >> => Capacity - Len(items') <= Cardinality(Woken)'
    <2> SUFFICES ASSUME putters' # << >> PROVE Capacity - Len(items') <= Cardinality(Woken')
        OBVIOUS
    <2>1. Capacity - Len(items) <= Cardinality(Woken)
        BY <1>1, <1>2 DEF EnoughAwake
    <2>2. Woken \ {r} \subseteq Woken'
        BY <1>2, <1>6, <1>7, Kinds DEF Woken, WokenCalls
    <2>3. Cardinality(Woken \ {r}) <= Cardinality(Woken')
        BY <2>2, FewAwake, FS_Subset
    <2>4. /\ Cardinality(Woken \ {r}) >= Cardinality(Woken) - 1
          /\ Cardinality(Woken \ {r}) \in Nat
        <3>1. /\ Cardinality(Woken \ {r}) =
                    IF r \in Woken THEN Cardinality(Woken) - 1 ELSE Cardinality(Woken)
              /\ IsFiniteSet(Woken \ {r})
            BY FewAwake, FS_RemoveElement
        <3>2. Cardinality(Woken \ {r}) \in Nat
            BY <3>1, FS_CardinalityType
        <3> QED
            BY <3>1, <3>2, FewAwake
    <2> QED
        BY <1>12, <2>1, <2>3, <2>4, FewAwake
<1>15. Gathered'
    BY <1>1, <1>2, <1>5, <1>6, Kinds DEF Gathered
<1> QED
    BY <1>8, <1>9, <1>10, <1>11, <1>13, <1>14, <1>15 DEF Awake, Placed, EnoughAwake

LEMMA TimeoutAwake ==
    ASSUME Counted, Awake, NEW r \in Requests, TimeoutFires(r)
    PROVE  Awake'
<1>1. TypeOK /\ Placed /\ EnoughAwake /\ Gathered /\ Lines
    BY DEF Counted, Awake, Placed
<1>2. call[r] = "putting" /\ UNCHANGED <<items, getters, at, stopping, sentinels>>
    BY DEF TimeoutFires
<1>3. CASE r \in Range(putters)
    <2>1. /\ call' = [call EXCEPT ![r] = "expired"] /\ putters' = Without(putters, r)
          /\ ready' = Append(ready, r)
        BY <1>3 DEF TimeoutFires
    <2>2. r \notin Range(ready)
        BY <1>1, <1>3 DEF Placed, RequestsPlaced
    <2>3. Range(ready') = Range(ready) \cup {r} /\ IsInjective(ready')
        BY <1>1, <2>1, <2>2, Names, LineTypes, AppendLine DEF Lines
    <2>4. Range(putters') = Range(putters) \ {r} /\ IsInjective(putters')
        BY <1>1, <1>3, <2>1, LineTypes, WithoutLine DEF Lines
    <2>5. call'[r] = "expired" /\ \A q \in Requests : q # r => call'[q] = call[q]
        BY <1>1, <2>1 DEF TypeOK
    <2>6. Lines' /\ WorkersPlaced' /\ StopPlaced'
        BY <1>1, <1>2, <2>3, <2>4, Kinds DEF Lines, Placed, WorkersPlaced, StopPlaced
    <2>7. RequestsPlaced'
        BY <1>1, <1>2, <2>3, <2>4, <2>5 DEF Placed, RequestsPlaced, InFlight
    <2>8. Looking \subseteq Looking' /\ Woken \subseteq Woken'
        BY <1>2, <2>2, <2>3, <2>5 DEF Looking, Woken, WokenCalls
    <2>9. putters # << >>
        BY <1>3 DEF Range
    <2>10. EnoughAwake'
        BY <1>1, <1>2, <2>8, <2>9, AwakeFrame
    <2>11. Gathered'
        BY <1>1, <1>2, <2>3, Kinds DEF Gathered
    <2> QED
        BY <2>6, <2>7, <2>10, <2>11 DEF Awake, Placed
<1>4. CASE r \notin Range(putters)
    <2>1. call' = [call EXCEPT ![r] = "expired_awake"] /\ UNCHANGED <<putters, ready>>
        BY <1>4 DEF TimeoutFires
    <2>2. call'[r] = "expired_awake" /\ \A q \in Requests : q # r => call'[q] = call[q]
        BY <1>1, <2>1 DEF TypeOK
    <2>3. Lines' /\ WorkersPlaced' /\ StopPlaced'
        BY <1>1, <1>2, <2>1 DEF Lines, Placed, WorkersPlaced, StopPlaced
    <2>4. RequestsPlaced'
        BY <1>1, <1>2, <1>4, <2>1, <2>2 DEF Placed, RequestsPlaced, InFlight
    <2>5. Looking \subseteq Looking' /\ Woken \subseteq Woken'
        BY <1>2, <2>1, <2>2 DEF Looking, Woken, WokenCalls
    <2>6. EnoughAwake'
        BY <1>1, <1>2, <2>1, <2>5, AwakeFrame
    <2>7. Gathered'
        BY <1>1, <1>2, <2>1 DEF Gathered
    <2> QED
        BY <2>3, <2>4, <2>6, <2>7 DEF Awake, Placed
<1> QED
    BY <1>3, <1>4

\* Who is woken from the line for room: a request that puts or the shutdown.
LEMMA RoomWake ==
    ASSUME TypeOK, Placed
    PROVE  LET woken == Range(First(putters))
           IN  /\ First(putters) \in Seq(Anyone) /\ IsInjective(First(putters))
               /\ IsInjective(Rest(putters))
               /\ woken \cup Range(Rest(putters)) = Range(putters)
               /\ woken \cap Range(Rest(putters)) = {}
               /\ putters # << >> => woken = {Head(putters)}
               /\ Rest(putters) # << >> => putters # << >>
               /\ woken \subseteq Requests \cup {Stop} /\ woken \cap Range(ready) = {}
               /\ \A q \in Requests : q \in woken => call[q] = "putting"
               /\ Stop \in woken => stopping = "putting"
<1>1. /\ First(putters) \in Seq(Anyone) /\ IsInjective(First(putters))
      /\ IsInjective(Rest(putters))
      /\ Range(First(putters)) \cup Range(Rest(putters)) = Range(putters)
      /\ Range(First(putters)) \cap Range(Rest(putters)) = {}
      /\ putters # << >> => Range(First(putters)) = {Head(putters)}
      /\ Rest(putters) # << >> => putters # << >>
    BY LineTypes, WakeLine DEF Placed, Lines
<1>2. Range(putters) \subseteq Requests \cup {Stop}
    BY LineTypes
<1> QED
    BY <1>1, <1>2 DEF Placed, RequestsPlaced, StopPlaced

LEMMA SaturatedAwake ==
    ASSUME Counted, Awake, NEW r \in Requests, Saturated(r)
    PROVE  Awake'
<1>1. TypeOK /\ Placed /\ EnoughAwake /\ Gathered /\ Lines
    BY DEF Counted, Awake, Placed
<1>2. CASE call[r] = "expired"
    BY <1>2, AnswerAwake
<1>3. ASSUME call[r] = "expired_awake" PROVE Awake'
    <2>1. /\ Runs(r) /\ call' = [call EXCEPT ![r] = "saturated"]
          /\ UNCHANGED <<items, getters, at, stopping, sentinels>>
        BY <1>3 DEF Saturated
    <2>2. call'[r] = "saturated" /\ \A q \in Requests : q # r => call'[q] = call[q]
        BY <1>1, <2>1 DEF TypeOK
    <2>3. /\ r \in Range(ready) /\ r \notin Range(putters)
          /\ Range(Tail(ready)) = Range(ready) \ {r} /\ IsInjective(Tail(ready))
        BY <1>1, <1>3, <2>1, Turn DEF Placed, RequestsPlaced
    <2>4. CASE Full
        <3>1. ready' = Tail(ready) /\ UNCHANGED putters
            BY <1>3, <2>4 DEF Saturated
        <3>2. Lines' /\ WorkersPlaced' /\ StopPlaced'
            BY <1>1, <2>1, <2>3, <3>1 DEF Lines, Placed, WorkersPlaced, StopPlaced
        <3>3. RequestsPlaced'
            BY <1>1, <2>2, <2>3, <3>1 DEF Placed, RequestsPlaced
        <3>4. Looking' = Looking
            BY <2>3, <3>1, Kinds DEF Looking
        <3>5. Len(items) \in Nat /\ Capacity - Len(items) <= 0
            BY <1>1, <2>4, ItemTypes DEF Full
        <3>6. EnoughAwake'
            BY <1>1, <2>1, <3>4, <3>5, FewAwake DEF EnoughAwake
        <3>7. Gathered'
            BY <1>1, <2>1, <2>3, <3>1 DEF Gathered
        <3> QED
            BY <3>2, <3>3, <3>6, <3>7 DEF Awake, Placed
    <2>5. CASE ~Full
        <3> DEFINE woken == Range(First(putters))
        <3>1. ready' = Tail(ready) \o First(putters) /\ putters' = Rest(putters)
            BY <1>3, <2>5 DEF Saturated
        <3>2. /\ First(putters) \in Seq(Anyone) /\ IsInjective(First(putters))
              /\ IsInjective(Rest(putters))
              /\ woken \cup Range(Rest(putters)) = Range(putters)
              /\ woken \cap Range(Rest(putters)) = {}
              /\ putters # << >> => woken = {Head(putters)}
              /\ Rest(putters) # << >> => putters # << >>
              /\ woken \subseteq Requests \cup {Stop} /\ woken \cap Range(ready) = {}
              /\ \A q \in Requests : q \in woken => call[q] = "putting"
              /\ Stop \in woken => stopping = "putting"
            BY <1>1, RoomWake
        <3>3. IsInjective(ready') /\ Range(ready') = (Range(ready) \ {r}) \cup woken
            <4>1. Range(First(putters)) \cap (Range(ready) \ {r}) = {}
                BY <3>2
            <4> QED
                BY <1>1, <2>1, <3>1, <3>2, <4>1, TurnAndWake
        <3> HIDE DEF woken
        <3>4. Lines'
            BY <1>1, <2>1, <3>1, <3>2, <3>3 DEF Lines
        <3>5. WorkersPlaced' /\ StopPlaced'
            BY <1>1, <2>1, <3>1, <3>2, <3>3, Kinds DEF Placed, WorkersPlaced, StopPlaced
        <3>6. RequestsPlaced'
            BY <1>1, <2>2, <2>3, <3>1, <3>2, <3>3 DEF Placed, RequestsPlaced, InFlight
        <3>7. Looking' = Looking
            BY <3>2, <3>3, Kinds DEF Looking
        <3>8. putters' # << >> => Cardinality(Woken') = Cardinality(Woken)
            <4> SUFFICES ASSUME putters' # << >>
                         PROVE  Cardinality(Woken') = Cardinality(Woken)
                OBVIOUS
            <4> DEFINE t == Head(putters)
            <4>1. woken = {t} /\ t \in woken /\ t \notin Range(ready)
                BY <3>1, <3>2
            <4>2. t \notin Woken \ {r} /\ t # r
                BY <2>3, <4>1, Kinds DEF Woken, WokenCalls
            <4>3. r \in Woken
                BY <1>3, <2>3 DEF Woken, WokenCalls
            <4>4. Woken' = (Woken \ {r}) \cup {t}
                BY <2>1, <2>2, <3>2, <3>3, <4>1, <4>2, Kinds DEF Woken, WokenCalls
            <4> HIDE DEF t
            <4>5. /\ IsFiniteSet(Woken \ {r})
                  /\ Cardinality(Woken \ {r}) = Cardinality(Woken) - 1
                BY <4>3, FewAwake, FS_RemoveElement
            <4>6. Cardinality(Woken') = Cardinality(Woken \ {r}) + 1
                BY <4>2, <4>4, <4>5, FS_AddElement
            <4> QED
                BY <4>5, <4>6, FewAwake
        <3>9. EnoughAwake'
            BY <1>1, <2>1, <3>1, <3>2, <3>7, <3>8 DEF EnoughAwake
        <3>10. Gathered'
            BY <1>1, <2>1, <3>2, <3>3 DEF Gathered
        <3> QED
            BY <3>4, <3>5, <3>6, <3>9, <3>10 DEF Awake, Placed
    <2> QED
        BY <2>4, <2>5
<1> QED
    BY <1>2, <1>3 DEF Saturated

------------------------------------------------------------------------------
(* Workers *)

Joined(w) == IF JoinEnds(w) THEN {Stop} ELSE {}

\* A worker leaves the line; the last of the unfinished tasks wakes the shutdown.
LEMMA WorkerTurn ==
    ASSUME Counted, Placed, NEW w \in Workers, Looks(w)
    PROVE  /\ w \in Range(ready) /\ w \notin Range(getters)
           /\ ReadyAfter(w) \in Seq(Anyone) /\ IsInjective(ReadyAfter(w))
           /\ Range(ReadyAfter(w)) = (Range(ready) \ {w}) \cup Joined(w)
           /\ Joined(w) \subseteq {Stop} /\ Joined(w) \cap Range(ready) = {}
           /\ Joined(w) # {} => stopping = "join" /\ Stop \notin Range(putters)
<1>1. TypeOK /\ Lines /\ Runs(w)
    BY DEF Counted, Placed, Looks
<1>2. w \in Range(ready) /\ w \notin Range(getters)
    BY <1>1, Turn DEF Placed, WorkersPlaced
<1>3. JoinEnds(w) => stopping = "join" /\ Stop \notin Range(putters) /\ Stop \notin Range(ready)
    BY DEF JoinEnds, Placed, StopPlaced
<1>4. Joined(w) \subseteq {Stop} /\ Joined(w) \cap Range(ready) = {}
      /\ (Joined(w) # {} => stopping = "join" /\ Stop \notin Range(putters))
    BY <1>3 DEF Joined
<1> DEFINE u == IF JoinEnds(w) THEN <<Stop>> ELSE << >>
<1>5. u \in Seq(Anyone) /\ IsInjective(u) /\ Range(u) = Joined(w)
    <2>1. CASE JoinEnds(w)
        <3>1. <<Stop>> \in Seq(Anyone) /\ IsInjective(<<Stop>>) /\ Range(<<Stop>>) = {Stop}
            BY Names DEF IsInjective, Range
        <3> QED
            BY <2>1, <3>1 DEF Joined
    <2>2. CASE ~JoinEnds(w)
        <3>1. << >> \in Seq(Anyone) /\ IsInjective(<< >>) /\ Range(<< >>) = {}
            BY DEF IsInjective, Range
        <3> QED
            BY <2>2, <3>1 DEF Joined
    <2> QED
        BY <2>1, <2>2
<1>6. ReadyAfter(w) = Tail(ready) \o u
    BY DEF ReadyAfter
<1> HIDE DEF u
<1>7. Range(u) \cap (Range(ready) \ {w}) = {}
    BY <1>4, <1>5
<1>8. /\ IsInjective(Tail(ready) \o u) /\ Tail(ready) \o u \in Seq(Anyone)
      /\ Range(Tail(ready) \o u) = (Range(ready) \ {w}) \cup Range(u)
    BY <1>1, <1>5, <1>7, TurnAndWake
<1> QED
    BY <1>2, <1>4, <1>5, <1>6, <1>8

LEMMA WaitForItemAwake ==
    ASSUME Counted, Awake, NEW w \in Workers, WaitForItem(w)
    PROVE  Awake'
<1>1. TypeOK /\ Placed /\ EnoughAwake /\ Gathered /\ Lines
    BY DEF Counted, Awake, Placed
<1>2. /\ Looks(w) /\ items = << >> /\ getters' = Append(getters, w) /\ ready' = ReadyAfter(w)
      /\ at' = [at EXCEPT ![w] = "get"]
      /\ UNCHANGED <<items, putters, call, stopping, sentinels>>
    BY DEF WaitForItem
<1>3. /\ w \in Range(ready) /\ w \notin Range(getters) /\ IsInjective(ready')
      /\ Range(ready') = (Range(ready) \ {w}) \cup Joined(w)
      /\ Joined(w) \subseteq {Stop} /\ Joined(w) \cap Range(ready) = {}
      /\ Joined(w) # {} => stopping = "join" /\ Stop \notin Range(putters)
    BY <1>1, <1>2, WorkerTurn
<1>4. Range(getters') = Range(getters) \cup {w} /\ IsInjective(getters')
    BY <1>1, <1>2, <1>3, LineTypes, AppendLine DEF Lines
<1>5. at'[w] = "get" /\ \A v \in Workers : v # w => at'[v] = at[v]
    BY <1>1, <1>2 DEF TypeOK
<1>6. Lines'
    BY <1>1, <1>2, <1>3, <1>4 DEF Lines
<1>7. WorkersPlaced'
    BY <1>1, <1>3, <1>4, <1>5, Kinds DEF Placed, WorkersPlaced
<1>8. RequestsPlaced' /\ StopPlaced'
    BY <1>1, <1>2, <1>3, Kinds DEF Placed, RequestsPlaced, StopPlaced
<1>9. Woken' = Woken
    BY <1>2, <1>3, Kinds DEF Woken, WokenCalls
<1>10. Len(items) = 0
    BY <1>2
<1>11. EnoughAwake'
    BY <1>1, <1>2, <1>9, <1>10, FewAwake DEF EnoughAwake
<1>12. Gathered'
    BY <1>1, <1>2, <1>3, Kinds DEF Gathered, Placed, WorkersPlaced
<1> QED
    BY <1>6, <1>7, <1>8, <1>11, <1>12 DEF Awake, Placed

\* The worker that sees the others gone wakes the shutdown.
LastOne(w) == stopping = "gather" /\ \A v \in Workers \ {w} : at[v] = "gone"

LEMMA TakeAwake ==
    ASSUME Counted, Awake, NEW w \in Workers, BeginJob(w) \/ LeavePool(w)
    PROVE  Awake'
<1>1. TypeOK /\ Placed /\ EnoughAwake /\ Gathered /\ Lines
    BY DEF Counted, Awake, Placed
<1> DEFINE last == IF LeavePool(w) /\ LastOne(w) THEN {Stop} ELSE {}
           woken == Range(First(putters))
           ra == ReadyAfter(w)
<1>2. /\ Looks(w) /\ items # << >> /\ items' = Tail(items) /\ putters' = Rest(putters)
      /\ UNCHANGED <<getters, call, stopping, sentinels>>
    BY DEF BeginJob, LeavePool
<1>3. at'[w] \in {"busy", "gone"} /\ \A v \in Workers : v # w => at'[v] = at[v]
    BY <1>1 DEF BeginJob, LeavePool, TypeOK
<1>4. /\ w \in Range(ready) /\ w \notin Range(getters)
      /\ ra \in Seq(Anyone) /\ IsInjective(ra)
      /\ Range(ra) = (Range(ready) \ {w}) \cup Joined(w)
      /\ Joined(w) \subseteq {Stop} /\ Joined(w) \cap Range(ready) = {}
      /\ Joined(w) # {} => stopping = "join" /\ Stop \notin Range(putters)
    BY <1>1, <1>2, WorkerTurn
<1>5. /\ First(putters) \in Seq(Anyone) /\ IsInjective(First(putters))
      /\ IsInjective(Rest(putters))
      /\ woken \cup Range(Rest(putters)) = Range(putters)
      /\ woken \cap Range(Rest(putters)) = {}
      /\ putters # << >> => woken = {Head(putters)}
      /\ Rest(putters) # << >> => putters # << >>
      /\ woken \subseteq Requests \cup {Stop} /\ woken \cap Range(ready) = {}
      /\ \A q \in Requests : q \in woken => call[q] = "putting"
      /\ Stop \in woken => stopping = "putting"
    BY <1>1, RoomWake
<1>6. last # {} => stopping = "gather" /\ Stop \notin Range(ready) /\ last = {Stop}
    <2>1. w \in Range(ready) => at[w] # "gone"
        BY <1>1 DEF Placed, WorkersPlaced
    <2> QED
        BY <1>1, <1>4, <2>1 DEF Gathered, LastOne
<1>7. IsInjective(ready') /\ Range(ready') = (Range(ready) \ {w}) \cup Joined(w) \cup woken \cup last
    <2> HIDE DEF ra
    <2>1. Range(ra) \cap Range(First(putters)) = {}
        BY <1>4, <1>5
    <2> DEFINE s == ra \o First(putters)
    <2>2. s \in Seq(Anyone) /\ IsInjective(s) /\ Range(s) = Range(ra) \cup woken
        BY <1>4, <1>5, <2>1, ConcatLine, ConcatProperties
    <2> HIDE DEF s
    <2>3. CASE last = {}
        <3>1. ready' = s \/ ready' = s \o << >>
            BY <2>3 DEF BeginJob, LeavePool, LastOne, s, ra
        <3>2. ready' = s
            BY <2>2, <3>1, ConcatEmptySeq
        <3> QED
            BY <1>4, <2>2, <2>3, <3>2
    <2>4. CASE last # {}
        <3>1. ready' = s \o <<Stop>>
            BY <2>4 DEF LeavePool, LastOne, s, ra
        <3>2. ready' = Append(s, Stop)
            BY <2>2, <3>1, Names, AppendIsConcat
        <3>3. Stop \notin Range(s)
            BY <1>4, <1>5, <1>6, <2>2, <2>4
        <3> QED
            BY <1>4, <1>6, <2>2, <2>4, <3>2, <3>3, Names, AppendLine
    <2> QED
        BY <2>3, <2>4
<1>8. last # {} => \A v \in Workers : at'[v] = "gone"
    BY <1>1, <1>3 DEF LastOne, LeavePool, TypeOK
<1> HIDE DEF last, woken, ra
<1>9. Lines'
    BY <1>1, <1>2, <1>5, <1>7 DEF Lines
<1>10. last \subseteq {Stop} /\ (Stop \in last => stopping = "gather")
    BY <1>6 DEF last
<1>11. WorkersPlaced'
    BY <1>1, <1>2, <1>3, <1>4, <1>5, <1>7, <1>10, Kinds DEF Placed, WorkersPlaced
<1>12. RequestsPlaced'
    BY <1>1, <1>2, <1>4, <1>5, <1>7, <1>10, Kinds DEF Placed, RequestsPlaced, InFlight
<1>13. StopPlaced'
    BY <1>1, <1>2, <1>4, <1>5, <1>7, <1>10, Kinds DEF Placed, StopPlaced
<1>14. Len(items') = Len(items) - 1 /\ Len(items) \in Nat
    BY <1>1, <1>2, ItemTypes
<1>15. Cardinality(Looking') = Cardinality(Looking) - 1
    <2>1. Looking' = Looking \ {w} /\ w \in Looking
        BY <1>4, <1>5, <1>7, <1>10, Kinds DEF Looking
    <2> QED
        BY <2>1, FewAwake, FS_RemoveElement
<1>16. putters' # << >> => Cardinality(Woken') = Cardinality(Woken) + 1
    <2> SUFFICES ASSUME putters' # << >> PROVE Cardinality(Woken') = Cardinality(Woken) + 1
        OBVIOUS
    <2> DEFINE t == Head(putters)
    <2>1. woken = {t} /\ t \in woken /\ t \notin Range(ready)
        BY <1>2, <1>5
    <2>2. t \notin Woken
        BY <2>1 DEF Woken, WokenCalls
    <2>3. Woken' = Woken \cup {t}
        <3>1. \A q \in Requests : q \in Range(ready') <=> q \in Range(ready) \/ q = t
            BY <1>4, <1>7, <1>10, <2>1, Kinds
        <3>2. stopping = "putting" => (Stop \in Range(ready') <=> Stop \in Range(ready) \/ Stop = t)
            BY <1>4, <1>7, <1>10, <2>1, Kinds
        <3>3. t \in Requests \cup {Stop} /\ (t \in Requests => call[t] = "putting")
              /\ (t = Stop => stopping = "putting")
            BY <1>5, <2>1
        <3> HIDE DEF t
        <3>4. WokenCalls' = WokenCalls \cup {q \in Requests : q = t}
            BY <1>2, <3>1, <3>3 DEF WokenCalls
        <3> QED
            BY <1>2, <3>2, <3>3, <3>4, Kinds DEF Woken
    <2> HIDE DEF t
    <2> QED
        BY <2>2, <2>3, FewAwake, FS_AddElement
<1>17. EnoughAwake'
    <2>1. getters' # << >> => Len(items') <= Cardinality(Looking')
        BY <1>1, <1>2, <1>14, <1>15, FewAwake DEF EnoughAwake
    <2>2. putters' # << >> => Capacity - Len(items') <= Cardinality(Woken')
        BY <1>1, <1>2, <1>5, <1>14, <1>16, FewAwake DEF EnoughAwake
    <2> QED
        BY <2>1, <2>2 DEF EnoughAwake
<1>18. Gathered'
    <2>1. at[w] # "gone"
        BY <1>1, <1>4 DEF Placed, WorkersPlaced
    <2>2. stopping # "done" /\ ~(stopping = "gather" /\ Stop \in Range(ready))
        BY <1>1, <2>1 DEF Gathered
    <2>3. stopping = "gather" /\ Stop \in Range(ready') => last # {}
        BY <1>4, <1>5, <1>7, <2>2
    <2> QED
        BY <1>2, <1>8, <2>2, <2>3 DEF Gathered
<1> QED
    BY <1>9, <1>11, <1>12, <1>13, <1>17, <1>18 DEF Awake, Placed

LEMMA EndJobAwake ==
    ASSUME Counted, Awake, NEW w \in Workers, EndJob(w)
    PROVE  Awake'
<1>1. TypeOK /\ Placed /\ EnoughAwake /\ Gathered /\ Lines
    BY DEF Counted, Awake, Placed
<1>2. /\ at[w] = "busy" /\ at' = [at EXCEPT ![w] = "ended"] /\ ready' = Append(ready, w)
      /\ UNCHANGED <<items, getters, putters, call, stopping, sentinels>>
    BY DEF EndJob, aqueue
<1>3. w \notin Range(ready) /\ w \notin Range(getters)
    BY <1>1, <1>2 DEF Placed, WorkersPlaced
<1>4. Range(ready') = Range(ready) \cup {w} /\ IsInjective(ready')
    BY <1>1, <1>2, <1>3, Names, LineTypes, AppendLine DEF Lines
<1>5. at'[w] = "ended" /\ \A v \in Workers : v # w => at'[v] = at[v]
    BY <1>1, <1>2 DEF TypeOK
<1>6. Lines' /\ RequestsPlaced' /\ StopPlaced'
    BY <1>1, <1>2, <1>4, Kinds DEF Lines, Placed, RequestsPlaced, StopPlaced
<1>7. WorkersPlaced'
    BY <1>1, <1>2, <1>3, <1>4, <1>5 DEF Placed, WorkersPlaced
<1>8. Looking \subseteq Looking' /\ Woken \subseteq Woken'
    BY <1>2, <1>4 DEF Looking, Woken, WokenCalls
<1>9. EnoughAwake'
    BY <1>1, <1>2, <1>8, AwakeFrame
<1>10. Gathered'
    BY <1>1, <1>2, <1>4, Kinds DEF Gathered
<1> QED
    BY <1>6, <1>7, <1>9, <1>10 DEF Awake, Placed

------------------------------------------------------------------------------
(* The start and the shutdown *)

LEMMA StartAwake ==
    ASSUME Counted, Awake, Start
    PROVE  Awake'
<1>1. TypeOK /\ Placed /\ EnoughAwake /\ Gathered /\ Lines /\ \A w \in Workers : at[w] = "off"
    BY DEF Counted, Awake, Placed, NotStarted, Start
<1> DEFINE crew == [i \in 1..MaxParallel |-> <<"worker", i>>]
<1>2. /\ stopping = "no" /\ at' = [w \in Workers |-> "get"] /\ ready' = ready \o crew
      /\ UNCHANGED <<items, getters, putters, call, stopping, sentinels>>
    BY DEF Start, aqueue
<1>3. Range(ready) \cap Workers = {} /\ Range(getters) \cap Workers = {}
    BY <1>1 DEF Placed, WorkersPlaced
<1>4. crew \in Seq(Anyone) /\ IsInjective(crew) /\ Range(crew) \subseteq Workers
    <2>1. crew \in Seq(Anyone)
        BY Names
    <2>2. IsInjective(crew)
        BY DEF IsInjective
    <2>3. Range(crew) \subseteq Workers
        BY DEF Range, Workers
    <2> QED
        BY <2>1, <2>2, <2>3
<1> HIDE DEF crew
<1>5. IsInjective(ready') /\ Range(ready') = Range(ready) \cup Range(crew)
    <2>1. Range(ready) \cap Range(crew) = {}
        BY <1>3, <1>4
    <2> QED
        BY <1>1, <1>2, <1>4, <2>1, LineTypes, ConcatLine DEF Lines
<1>6. Lines' /\ RequestsPlaced' /\ StopPlaced'
    BY <1>1, <1>2, <1>4, <1>5, Kinds DEF Lines, Placed, RequestsPlaced, StopPlaced
<1>7. WorkersPlaced'
    BY <1>2, <1>3 DEF WorkersPlaced
<1>8. Looking \subseteq Looking' /\ Woken \subseteq Woken'
    BY <1>2, <1>5 DEF Looking, Woken, WokenCalls
<1>9. EnoughAwake'
    BY <1>1, <1>2, <1>8, AwakeFrame
<1>10. Gathered'
    BY <1>2 DEF Gathered
<1> QED
    BY <1>6, <1>7, <1>9, <1>10 DEF Awake, Placed

LEMMA CallStopAwake ==
    ASSUME Counted, Awake, CallStop
    PROVE  Awake'
<1>1. TypeOK /\ Placed /\ EnoughAwake /\ Gathered /\ Lines
    BY DEF Counted, Awake, Placed
<1>2. /\ stopping = "no" /\ stopping' = "called" /\ ready' = Append(ready, Stop)
      /\ UNCHANGED <<items, getters, putters, call, at, sentinels>>
    BY DEF CallStop, aqueue
<1>3. Stop \notin Range(ready) /\ Stop \notin Range(putters)
    BY <1>1, <1>2 DEF Placed, StopPlaced
<1>4. Range(ready') = Range(ready) \cup {Stop} /\ IsInjective(ready')
    BY <1>1, <1>2, <1>3, Names, LineTypes, AppendLine DEF Lines
<1>5. Lines' /\ WorkersPlaced' /\ RequestsPlaced' /\ StopPlaced'
    BY <1>1, <1>2, <1>3, <1>4, Kinds
       DEF Lines, Placed, WorkersPlaced, RequestsPlaced, StopPlaced
<1>6. Looking \subseteq Looking' /\ Woken \subseteq Woken'
    BY <1>2, <1>4 DEF Looking, Woken, WokenCalls
<1>7. EnoughAwake'
    BY <1>1, <1>2, <1>6, AwakeFrame
<1>8. Gathered'
    BY <1>2 DEF Gathered
<1> QED
    BY <1>5, <1>7, <1>8 DEF Awake, Placed

LEMMA StopTurnAwake ==
    ASSUME Counted, Awake, StopJoins \/ StopReturns
    PROVE  Awake'
<1>1. TypeOK /\ Placed /\ EnoughAwake /\ Gathered /\ Lines
    BY DEF Counted, Awake, Placed
<1>2. /\ Runs(Stop) /\ stopping \in {"called", "gather"} /\ stopping' \in {"join", "done"}
      /\ ready' = Tail(ready)
      /\ UNCHANGED <<items, getters, putters, call, at, sentinels>>
    BY DEF StopJoins, StopReturns, aqueue
<1>3. Stop \in Range(ready) /\ Range(ready') = Range(ready) \ {Stop} /\ IsInjective(ready')
    BY <1>1, <1>2, Turn
<1>4. Lines' /\ WorkersPlaced' /\ RequestsPlaced' /\ StopPlaced'
    BY <1>1, <1>2, <1>3, Kinds
       DEF Lines, Placed, WorkersPlaced, RequestsPlaced, StopPlaced
<1>5. Looking \subseteq Looking' /\ Woken \subseteq Woken'
    BY <1>2, <1>3, Kinds DEF Looking, Woken, WokenCalls
<1>6. EnoughAwake'
    BY <1>1, <1>2, <1>5, AwakeFrame
<1>7. Gathered'
    <2>1. stopping = "gather" \/ stopping' = "join"
        BY DEF StopJoins, StopReturns
    <2> QED
        BY <1>1, <1>2, <1>3, <2>1 DEF Gathered
<1> QED
    BY <1>4, <1>6, <1>7 DEF Awake, Placed

\* As many waiters as there are new items.
LEMMA WokenCount ==
    ASSUME NEW S, NEW s \in Seq(S), IsInjective(s), IsFiniteSet(S)
    PROVE  IsFiniteSet(Range(s)) /\ Cardinality(Range(s)) = Len(s)
<1>1. Len(s) \in Nat /\ DOMAIN s = 1..Len(s) /\ s \in [1..Len(s) -> S]
    BY LenProperties
<1>2. s \in [1..Len(s) -> Range(s)]
    BY <1>1 DEF Range
<1>3. s \in Bijection(1..Len(s), Range(s))
    BY <1>1, <1>2 DEF Bijection, Injection, Surjection, Range
<1>4. ExistsBijection(1..Len(s), Range(s))
    BY <1>3 DEF ExistsBijection
<1>5. IsFiniteSet(1..Len(s)) /\ Cardinality(1..Len(s)) = Len(s)
    BY <1>1, FS_Interval
<1> QED
    BY <1>4, <1>5, FS_Bijection

LEMMA StopPutsAwake ==
    ASSUME Counted, Awake, StopPuts
    PROVE  Awake'
<1>1. TypeOK /\ Placed /\ EnoughAwake /\ Gathered /\ Lines
    BY DEF Counted, Awake, Placed
<1> DEFINE n == Lesser(Fitting, Len(getters))
           front == SubSeq(getters, 1, n)
           woken == Range(front)
<1>2. /\ Runs(Stop) /\ stopping \in {"called", "join", "putting"}
      /\ sentinels' = sentinels + Fitting
      /\ ready' = Tail(ready) \o front /\ getters' = SubSeq(getters, n + 1, Len(getters))
      /\ UNCHANGED <<call, at>>
    BY DEF StopPuts
<1>3. /\ Len(items') = Len(items) + Fitting /\ Len(items) \in Nat
      /\ Fitting \in 0..(MaxParallel - sentinels) /\ sentinels \in 0..MaxParallel
    BY <1>1, SentinelsBehind, ItemTypes, FittingType DEF StopPuts, TypeOK
<1>4. Len(getters) \in Nat /\ n \in 0..Len(getters)
    BY <1>1, <1>3, LineTypes, LenProperties DEF Lesser
<1>5. /\ front \in Seq(Workers) /\ IsInjective(front) /\ IsInjective(getters')
      /\ woken \cup Range(getters') = Range(getters) /\ woken \cap Range(getters') = {}
      /\ Len(front) = n /\ Len(getters') = Len(getters) - n /\ getters' \in Seq(Workers)
    <2> HIDE DEF n
    <2>1. LET b == SubSeq(getters, n + 1, Len(getters))
          IN  /\ front \in Seq(Workers) /\ b \in Seq(Workers)
              /\ IsInjective(front) /\ IsInjective(b)
              /\ Range(front) \cup Range(b) = Range(getters)
              /\ Range(front) \cap Range(b) = {}
              /\ Len(front) = n /\ Len(b) = Len(getters) - n
        BY <1>1, <1>4, LineTypes, SplitLine DEF Lines
    <2> QED
        BY <1>2, <2>1
<1>6. front \in Seq(Anyone)
    BY <1>5, Names, SeqMonotonic
<1>7. woken \subseteq Workers /\ woken \cap Range(ready) = {} /\ \A w \in woken : at[w] = "get"
    <2>1. woken \subseteq Range(getters)
        BY <1>5
    <2> QED
        BY <1>1, <2>1, LineTypes DEF Placed, WorkersPlaced
<1>8. Cardinality(woken) = n /\ IsFiniteSet(woken)
    BY <1>5, FewAwake, WokenCount
<1> HIDE DEF front
<1>9. IsInjective(ready') /\ Range(ready') = (Range(ready) \ {Stop}) \cup woken
    <2>1. Range(front) \cap (Range(ready) \ {Stop}) = {}
        BY <1>7
    <2> QED
        BY <1>1, <1>2, <1>5, <1>6, <2>1, TurnAndWake
<1>10. Stop \in Range(ready) /\ Stop \notin Range(putters)
    BY <1>1, <1>2, Turn DEF Placed, StopPlaced
<1>11. \/ sentinels' = MaxParallel /\ stopping' = "gather" /\ putters' = putters
       \/ /\ sentinels' # MaxParallel /\ stopping' = "putting"
          /\ putters' = Append(putters, Stop)
    BY DEF StopPuts
<1>12. /\ Range(putters') \subseteq Range(putters) \cup {Stop} /\ IsInjective(putters')
       /\ Stop \in Range(putters') => stopping' = "putting"
    <2>1. /\ Range(Append(putters, Stop)) = Range(putters) \cup {Stop}
          /\ IsInjective(Append(putters, Stop))
        <3>1. putters \in Seq(Anyone) /\ Stop \in Anyone /\ IsInjective(putters)
            BY <1>1, LineTypes, Names DEF Lines
        <3> QED
            BY <1>10, <3>1, AppendLine
    <2> QED
        BY <1>1, <1>10, <1>11, <2>1 DEF Lines
<1> HIDE DEF woken, n
<1>13. Lines'
    BY <1>5, <1>9, <1>12 DEF Lines
<1>14. WorkersPlaced'
    BY <1>1, <1>2, <1>5, <1>7, <1>9, Kinds DEF Placed, WorkersPlaced
<1>15. RequestsPlaced'
    BY <1>1, <1>2, <1>7, <1>9, <1>12, Kinds DEF Placed, RequestsPlaced
<1>16. StopPlaced'
    <2>1. Stop \notin Range(ready')
        BY <1>7, <1>9, Kinds
    <2>2. stopping' = "putting" => sentinels' < MaxParallel
        BY <1>2, <1>3, <1>11
    <2> QED
        BY <1>12, <2>1, <2>2 DEF StopPlaced
<1>17. getters' # << >> => Len(items') <= Cardinality(Looking')
    <2> SUFFICES ASSUME getters' # << >> PROVE Len(items') <= Cardinality(Looking')
        OBVIOUS
    <2>1. Len(getters') > 0
        BY <1>5, EmptySeq
    <2>2. n = Fitting /\ Len(getters) > 0
        BY <1>3, <1>4, <1>5, <2>1 DEF n, Lesser
    <2>3. getters # << >>
        BY <2>2
    <2>4. Looking' = Looking \cup woken /\ Looking \cap woken = {}
        BY <1>7, <1>9, Kinds DEF Looking
    <2>5. Cardinality(Looking') = Cardinality(Looking) + n
        <3>1. Cardinality(Looking \cup woken)
                = Cardinality(Looking) + Cardinality(woken) - Cardinality(Looking \cap woken)
            BY <1>8, FewAwake, FS_Union
        <3>2. Cardinality({}) = 0
            BY FS_EmptySet
        <3>3. Cardinality(Looking \cap woken) = 0
            BY <2>4, <3>2
        <3>4. n \in Nat /\ Cardinality(Looking) \in Nat
            BY <1>4, FewAwake
        <3> QED
            BY <1>8, <2>4, <3>1, <3>3, <3>4
    <2>6. Len(items) <= Cardinality(Looking)
        BY <1>1, <2>3 DEF EnoughAwake
    <2> QED
        BY <1>3, <1>4, <2>2, <2>5, <2>6, FewAwake
<1>18. putters' # << >> => Capacity - Len(items') <= Cardinality(Woken')
    <2> SUFFICES ASSUME putters' # << >> PROVE Capacity - Len(items') <= Cardinality(Woken')
        OBVIOUS
    <2>1. CASE Capacity - Len(items') <= 0
        BY <2>1, <1>3, FewAwake
    <2>2. CASE Capacity - Len(items') > 0
        <3>1. /\ Len(items) < Capacity /\ Fitting = MaxParallel - sentinels
              /\ sentinels' = MaxParallel
            <4>1. Len(items) < Capacity /\ ~Full
                BY <1>3, <2>2 DEF Full
            <4>2. Fitting = Lesser(MaxParallel - sentinels, Capacity - Len(items))
                BY <4>1 DEF Fitting
            <4>3. Fitting # Capacity - Len(items)
                BY <1>3, <2>2
            <4>4. Fitting = MaxParallel - sentinels
                BY <4>2, <4>3 DEF Lesser
            <4> QED
                BY <1>2, <1>3, <4>1, <4>4
        <3>2. putters # << >> /\ Capacity - Len(items) <= Cardinality(Woken)
            BY <1>1, <1>11, <3>1 DEF EnoughAwake
        <3>3. CASE stopping = "putting"
            <4>1. Fitting >= 1
                BY <1>1, <1>3, <3>1, <3>3 DEF Placed, StopPlaced
            <4>2. Woken \ {Stop} \subseteq Woken'
                BY <1>2, <1>7, <1>9, Kinds DEF Woken, WokenCalls
            <4>3. Stop \in Woken
                BY <1>10, <3>3 DEF Woken
            <4>4. /\ Cardinality(Woken \ {Stop}) = Cardinality(Woken) - 1
                  /\ Cardinality(Woken \ {Stop}) <= Cardinality(Woken')
                BY <4>2, <4>3, FewAwake, FS_RemoveElement, FS_Subset
            <4> QED
                BY <1>3, <3>2, <4>1, <4>4, FewAwake
        <3>4. CASE stopping # "putting"
            <4>1. Woken \subseteq Woken'
                BY <1>2, <1>7, <1>9, <3>4, Kinds DEF Woken, WokenCalls
            <4>2. Cardinality(Woken) <= Cardinality(Woken')
                BY <4>1, FewAwake, FS_Subset
            <4> QED
                BY <1>3, <3>2, <4>2, FewAwake
        <3> QED
            BY <3>3, <3>4
    <2> QED
        BY <1>3, <2>1, <2>2
<1>19. Gathered'
    BY <1>7, <1>9, <1>11, Kinds DEF Gathered
<1> QED
    BY <1>13, <1>14, <1>15, <1>16, <1>17, <1>18, <1>19 DEF Awake, Placed, EnoughAwake

------------------------------------------------------------------------------
(* Nobody waits for what is there *)

LoopInv == Truth /\ Awake

LEMMA LoopInit == Init => LoopInv
<1> SUFFICES ASSUME Init PROVE LoopInv
    OBVIOUS
<1>1. Truth
    BY TruthInit
<1>2. /\ ready = << >> /\ getters = << >> /\ putters = << >> /\ stopping = "no"
    BY DEF Init
<1>3. IsInjective(<< >>) /\ Range(<< >>) = {}
    BY DEF IsInjective, Range
<1>4. Placed
    BY <1>2, <1>3 DEF Placed, Lines, WorkersPlaced, RequestsPlaced, StopPlaced
<1>5. EnoughAwake /\ Gathered
    BY <1>2 DEF EnoughAwake, Gathered
<1> QED
    BY <1>1, <1>4, <1>5 DEF LoopInv, Awake

LEMMA AwakeStep == LoopInv /\ [Next]_vars => LoopInv'
<1> SUFFICES ASSUME LoopInv, [Next]_vars PROVE Awake'
    BY TruthStep DEF LoopInv
<1>1. Counted /\ Awake
    BY DEF LoopInv, Truth
<1>2. CASE UNCHANGED vars \/ Stopped
    BY <1>1, <1>2 DEF vars, tasks, aqueue, Stopped, Awake, Placed, Lines, WorkersPlaced,
       RequestsPlaced, StopPlaced, EnoughAwake, Gathered, Looking, Woken, WokenCalls
<1>3. CASE LoopStep
    BY <1>1, <1>3, AnswerAwake, EnqueueAwake, WaitForRoomAwake, SaturatedAwake,
       WaitForItemAwake, TakeAwake, StopTurnAwake, StopPutsAwake DEF LoopStep
<1>4. CASE Start \/ CallStop \/ \E r \in Requests : Arrive(r) \/ TimeoutFires(r)
    BY <1>1, <1>4, StartAwake, CallStopAwake, ArriveAwake, TimeoutAwake
<1>5. CASE \E w \in Workers : EndJob(w)
    BY <1>1, <1>5, EndJobAwake
<1> QED
    BY <1>2, <1>3, <1>4, <1>5 DEF Next

LEMMA AwakeIsHeard == LoopInv => NoLostWakeup
<1> SUFFICES ASSUME LoopInv PROVE NoLostWakeup
    OBVIOUS
<1>1. TypeOK /\ EnoughAwake
    BY DEF LoopInv, Truth, Counted, Awake
<1>2. Len(items) \in Nat /\ (items # << >> => Len(items) > 0)
    BY <1>1, ItemTypes
<1>3. ASSUME items # << >>, getters # << >> PROVE \E w \in Workers : w \in Range(ready)
    <2>1. Cardinality(Looking) > 0
        BY <1>1, <1>2, <1>3, FewAwake DEF EnoughAwake
    <2>2. Looking # {}
        BY <2>1, FS_EmptySet
    <2> QED
        BY <2>2 DEF Looking
<1>4. ASSUME ~Full, putters # << >>
      PROVE  \E t \in Requests \cup {Stop} : t \in Range(ready)
    <2>1. Cardinality(Woken) > 0
        BY <1>1, <1>2, <1>4, FewAwake DEF EnoughAwake, Full
    <2>2. Woken # {}
        BY <2>1, FS_EmptySet
    <2> QED
        BY <2>2 DEF Woken, WokenCalls
<1> QED
    BY <1>3, <1>4 DEF NoLostWakeup

\* An item with a waiting worker, or room with a waiting putter, has somebody ready who
\* takes it, for any number of requests, workers and timeouts.
THEOREM NoWakeupIsLost == Spec => []NoLostWakeup
<1> QED
    BY LoopInit, AwakeStep, AwakeIsHeard, PTL DEF Spec

------------------------------------------------------------------------------
(* A drained shutdown leaves nothing *)

\* A server that waits for its open requests lets none in after it began to stop.
NothingNew == drains /\ stopping # "no" => \A r \in Requests : call[r] \notin InFlight

\* Before that nobody is told to leave.
NobodyLeaves ==
    stopping = "no" => Sentinel \notin Range(items) /\ \A w \in Workers : at[w] # "gone"

\* So that all jobs are before the first sentinel, and none is left when it is taken.
JobsFirst ==
    drains => \A i, j \in DOMAIN items : i < j /\ items[i] = Sentinel => items[j] = Sentinel
NoJobsLater == drains /\ (\E w \in Workers : at[w] = "gone") => Queued = {}

Drained == NothingNew /\ NobodyLeaves /\ JobsFirst /\ NoJobsLater

LEMMA EnqueueDrained ==
    ASSUME Counted, Drained, NEW r \in Requests, Enqueue(r)
    PROVE  Drained'
<1>1. TypeOK
    BY DEF Counted
<1>2. /\ call[r] \in InFlight /\ call' = [call EXCEPT ![r] = "accepted"]
      /\ items' = Append(items, r) /\ UNCHANGED <<at, stopping, drains>>
    BY DEF Enqueue, Offers, InFlight
<1>3. drains => stopping = "no"
    BY <1>2 DEF Drained, NothingNew
<1>4. NothingNew'
    BY <1>2, <1>3 DEF NothingNew
<1>5. Sentinel \notin Range(items) => Sentinel \notin Range(items')
    <2>1. /\ Len(items') = Len(items) + 1 /\ Len(items) \in Nat
          /\ \A i \in 1..Len(items) : items'[i] = items[i]
          /\ items'[Len(items) + 1] = r
          /\ DOMAIN items = 1..Len(items) /\ DOMAIN items' = 1..Len(items')
        <3>1. items \in Seq(Entries) /\ r \in Entries
            BY <1>1 DEF TypeOK, Entries
        <3> QED
            BY <1>2, <3>1, AppendProperties, LenProperties
    <2> QED
        BY <2>1, Names DEF Range
<1>6. NobodyLeaves'
    BY <1>2, <1>5 DEF Drained, NobodyLeaves
<1>7. JobsFirst' /\ NoJobsLater'
    <2>1. drains => Sentinel \notin Range(items') /\ \A w \in Workers : at'[w] # "gone"
        BY <1>2, <1>3, <1>5 DEF Drained, NobodyLeaves
    <2> QED
        BY <1>2, <2>1 DEF JobsFirst, NoJobsLater, Range
<1> QED
    BY <1>4, <1>6, <1>7 DEF Drained

LEMMA TakeDrained ==
    ASSUME Counted, Drained, NEW w \in Workers, BeginJob(w) \/ LeavePool(w)
    PROVE  Drained'
<1>1. TypeOK
    BY DEF Counted
<1>2. items # << >> /\ items' = Tail(items) /\ UNCHANGED <<call, stopping, drains>>
    BY DEF BeginJob, LeavePool
<1>3. /\ Len(items) \in Nat /\ Len(items) > 0 /\ Len(items') = Len(items) - 1
      /\ Head(items) = items[1]
      /\ \A i \in 1..Len(items') : items'[i] = items[i + 1]
      /\ DOMAIN items = 1..Len(items) /\ DOMAIN items' = 1..Len(items')
    <2>1. items \in Seq(Entries) /\ items' \in Seq(Entries)
        BY <1>1, <1>2, ItemTypes
    <2> QED
        BY <1>1, <1>2, <2>1, ItemTypes, HeadTailProperties, LenProperties
<1>4. Range(items') \subseteq Range(items) /\ Head(items) \in Range(items)
    BY <1>3 DEF Range
<1>5. \A v \in Workers : at'[v] = "gone" => at[v] = "gone" \/ LeavePool(w)
    BY <1>1 DEF BeginJob, LeavePool, TypeOK
<1>6. LeavePool(w) => Head(items) = Sentinel
    BY DEF LeavePool
<1>7. NothingNew' /\ NobodyLeaves'
    BY <1>2, <1>4, <1>5, <1>6 DEF Drained, NothingNew, NobodyLeaves
<1>8. JobsFirst'
    <2> SUFFICES ASSUME drains, NEW i \in 1..Len(items'), NEW j \in 1..Len(items'),
                        i < j, items'[i] = Sentinel
                 PROVE  items'[j] = Sentinel
        BY <1>2, <1>3 DEF JobsFirst
    <2>1. i + 1 \in 1..Len(items) /\ j + 1 \in 1..Len(items) /\ i + 1 < j + 1
        BY <1>3
    <2>2. items[i + 1] = Sentinel
        BY <1>3
    <2>3. items[j + 1] = Sentinel
        BY <1>3, <2>1, <2>2 DEF Drained, JobsFirst
    <2> QED
        BY <1>3, <2>3
<1>9. NoJobsLater'
    <2>1. Queued' \subseteq Queued
        BY <1>4 DEF Queued
    <2>2. ASSUME drains, LeavePool(w) PROVE Queued = {}
        <3>1. items[1] = Sentinel
            BY <1>3, <1>6, <2>2
        <3>2. \A j \in 1..Len(items) : items[j] = Sentinel
            BY <1>3, <2>2, <3>1 DEF Drained, JobsFirst
        <3> QED
            BY <1>3, <3>2 DEF Queued, Range
    <2> QED
        BY <1>2, <1>5, <2>1, <2>2 DEF Drained, NoJobsLater
<1> QED
    BY <1>7, <1>8, <1>9 DEF Drained

LEMMA StopPutsDrained ==
    ASSUME Counted, Drained, StopPuts
    PROVE  Drained'
<1>1. TypeOK
    BY DEF Counted
<1>2. /\ Len(items') = Len(items) + Fitting /\ Len(items) \in Nat /\ Fitting \in Nat
      /\ \A i \in 1..Len(items) : items'[i] = items[i]
      /\ \A i \in 1..Len(items') : i \in 1..Len(items) \/ items'[i] = Sentinel
    <2>1. Fitting \in Nat
        BY <1>1, FittingType DEF TypeOK
    <2> QED
        BY <1>1, <2>1, SentinelsBehind, ItemTypes DEF StopPuts
<1>3. items \in Seq(Entries) /\ items' \in Seq(Entries)
    BY <1>1, SentinelsBehind, ItemTypes DEF StopPuts
<1>4. DOMAIN items = 1..Len(items) /\ DOMAIN items' = 1..Len(items')
    BY <1>3, LenProperties
<1>5. /\ stopping # "no" /\ stopping' # "no" /\ UNCHANGED <<call, at, drains>>
    BY DEF StopPuts
<1>6. NothingNew' /\ NobodyLeaves'
    BY <1>5 DEF Drained, NothingNew, NobodyLeaves
<1>7. JobsFirst'
    BY <1>2, <1>4, <1>5 DEF Drained, JobsFirst
<1>8. NoJobsLater'
    <2>1. Queued' \subseteq Queued
        BY <1>2, <1>4 DEF Queued, Range
    <2> QED
        BY <1>5, <2>1 DEF Drained, NoJobsLater
<1> QED
    BY <1>6, <1>7, <1>8 DEF Drained

\* Steps that leave the items alone and make no worker leave.
LEMMA OtherDrained ==
    ASSUME Counted, Drained,
           \/ Start \/ CallStop \/ StopJoins \/ StopReturns
           \/ \E w \in Workers : WaitForItem(w) \/ EndJob(w)
           \/ \E r \in Requests : \/ Arrive(r) \/ TimeoutFires(r) \/ NoPlan(r)
                                  \/ NotRunning(r) \/ WaitForRoom(r) \/ Saturated(r)
    PROVE  Drained'
<1>1. TypeOK
    BY DEF Counted
<1>2. UNCHANGED <<items, drains>> /\ (stopping' = "no" => stopping = "no")
    BY DEF Start, CallStop, StopJoins, StopReturns, WaitForItem, EndJob, Arrive, TimeoutFires,
       NoPlan, NotRunning, WaitForRoom, Saturated, Answer, aqueue
<1>3. \A v \in Workers : at'[v] = "gone" => at[v] = "gone"
    BY <1>1 DEF TypeOK, Start, CallStop, StopJoins, StopReturns, WaitForItem, EndJob, Arrive,
       TimeoutFires, NoPlan, NotRunning, WaitForRoom, Saturated, Answer
<1>4. NothingNew'
    <2>1. CASE Start \/ CallStop \/ StopJoins \/ StopReturns
        BY <1>2, <2>1 DEF Drained, NothingNew, Start, CallStop, StopJoins, StopReturns
    <2>2. CASE \E w \in Workers : WaitForItem(w) \/ EndJob(w)
        BY <2>2 DEF Drained, NothingNew, WaitForItem, EndJob
    <2>3. CASE \E r \in Requests : \/ Arrive(r) \/ TimeoutFires(r) \/ NoPlan(r)
                                   \/ NotRunning(r) \/ WaitForRoom(r) \/ Saturated(r)
        <3>1. PICK r \in Requests : \/ Arrive(r) \/ TimeoutFires(r) \/ NoPlan(r)
                                    \/ NotRunning(r) \/ WaitForRoom(r) \/ Saturated(r)
            BY <2>3
        <3>2. UNCHANGED stopping
            BY <3>1 DEF Arrive, TimeoutFires, NoPlan, NotRunning, WaitForRoom, Saturated, Answer
        <3>3. call[r] \in InFlight \/ (drains => stopping = "no")
            BY <3>1 DEF Arrive, TimeoutFires, NoPlan, NotRunning, WaitForRoom, Offers,
               Saturated, InFlight
        <3> QED
            BY <1>2, <3>2, <3>3 DEF Drained, NothingNew
    <2> QED
        BY <2>1, <2>2, <2>3
<1> QED
    BY <1>2, <1>3, <1>4 DEF Drained, NobodyLeaves, JobsFirst, NoJobsLater, Queued

DrainInv == LoopInv /\ Drained

LEMMA DrainInit == Init => DrainInv
<1> SUFFICES ASSUME Init PROVE Drained
    BY LoopInit DEF DrainInv
<1>1. items = << >> /\ stopping = "no" /\ \A w \in Workers : at[w] = "off"
    BY DEF Init
<1> QED
    BY <1>1 DEF Drained, NothingNew, NobodyLeaves, JobsFirst, NoJobsLater, Range

LEMMA DrainStep == DrainInv /\ [Next]_vars => DrainInv'
<1> SUFFICES ASSUME DrainInv, [Next]_vars PROVE Drained'
    BY AwakeStep DEF DrainInv
<1>1. Counted /\ Drained
    BY DEF DrainInv, LoopInv, Truth
<1>2. CASE UNCHANGED vars \/ Stopped
    BY <1>1, <1>2 DEF vars, tasks, aqueue, Stopped, Drained, NothingNew, NobodyLeaves,
       JobsFirst, NoJobsLater, Queued
<1>3. CASE LoopStep
    BY <1>1, <1>3, EnqueueDrained, TakeDrained, StopPutsDrained, OtherDrained DEF LoopStep
<1>4. CASE \/ Start \/ CallStop
           \/ \E r \in Requests : Arrive(r) \/ TimeoutFires(r)
           \/ \E w \in Workers : EndJob(w)
    BY <1>1, <1>4, OtherDrained
<1> QED
    BY <1>2, <1>3, <1>4 DEF Next

LEMMA DrainedIsDone == DrainInv => NothingLeftBehind
<1> SUFFICES ASSUME DrainInv, drains, stopping = "done"
             PROVE  /\ \A r \in Requests : call[r] = "accepted" => r \in ended
                    /\ \A w \in Workers : at[w] = "gone"
    BY DEF NothingLeftBehind
<1>1. AnswerIsTruth /\ Gathered /\ Drained
    BY DEF DrainInv, LoopInv, Truth, Awake
<1>2. \A w \in Workers : at[w] = "gone"
    BY <1>1 DEF Gathered
<1>3. <<"worker", 1>> \in Workers
    BY DEF Workers
<1>4. Queued = {}
    BY <1>1, <1>2, <1>3 DEF Drained, NoJobsLater
<1>5. \A r \in Requests : call[r] = "accepted" => r \in ended
    BY <1>1, <1>2, <1>4 DEF AnswerIsTruth
<1> QED
    BY <1>2, <1>5

\* When the stop of a server that waited for its open requests has returned, every job
\* that was answered 202 has run to its end and every worker has left.
THEOREM StopLeavesNothing == Spec => []NothingLeftBehind
<1> QED
    BY DrainInit, DrainStep, DrainedIsDone, PTL DEF Spec
------------------------------------------------------------------------------
(* The pool of jobs *)

InHandJobs == {job[w] : w \in {v \in Workers : at[v] = "busy"}}
Closed == drains /\ stopping = "done"

\* What JobPool sees of a state.
Seen == <<JobsOf(items), InHandJobs, ended, Closed>>

LEMMA NoElements ==
    ASSUME NEW S, NEW s \in Seq(S), Range(s) = {}
    PROVE  s = << >>
<1>1. Len(s) \in Nat /\ DOMAIN s = 1..Len(s)
    BY LenProperties
<1>2. DOMAIN s = {}
    BY DEF Range
<1>3. Len(s) = 0
    BY <1>1, <1>2
<1> QED
    BY <1>3, EmptySeq

LEMMA JobsOfItems ==
    ASSUME TypeOK
    PROVE  /\ JobsOf(items) = Kept(items, Requests)
           /\ JobsOf(items) \in Seq(Requests)
           /\ Range(JobsOf(items)) = Queued
<1>1. items \in Seq(Entries)
    BY DEF TypeOK, Entries
<1>2. JobsOf(items) = Kept(items, Requests)
    BY DEF JobsOf, Kept, Members
<1>3. Kept(items, Requests) \in Seq(Requests)
    BY <1>1, KeptConcat
<1>4. Range(Kept(items, Requests)) = Range(items) \cap Requests
    BY <1>1, KeptRange
<1>5. Range(items) \cap Requests = Queued
    <2>1. Range(items) \subseteq Entries
        BY <1>1, LenProperties DEF Range
    <2> QED
        BY <2>1, Names DEF Queued, Entries
<1> QED
    BY <1>2, <1>3, <1>4, <1>5

\* The pool has width for the jobs of the busy workers, and for one more when one of the
\* workers is not busy.
LEMMA WidthLeft ==
    ASSUME NEW w \in Workers, at[w] # "busy"
    PROVE  Cardinality(InHandJobs) < MaxParallel
<1> DEFINE Others == Workers \ {w}
           held == [v \in Others |-> job[v]]
<1>1. IsFiniteSet(Workers) /\ Cardinality(Workers) = MaxParallel
    <2>1. IsFiniteSet({"worker"}) /\ Cardinality({"worker"}) = 1
        BY FS_Singleton
    <2>2. IsFiniteSet(1..MaxParallel) /\ Cardinality(1..MaxParallel) = MaxParallel
        BY FS_Interval
    <2>3. /\ IsFiniteSet({"worker"} \X (1..MaxParallel))
          /\ Cardinality({"worker"} \X (1..MaxParallel)) = 1 * MaxParallel
        BY <2>1, <2>2, FS_Product
    <2> QED
        BY <2>3 DEF Workers
<1>2. IsFiniteSet(Others) /\ Cardinality(Others) = MaxParallel - 1
    BY <1>1, FS_RemoveElement
<1> DEFINE Held == {held[v] : v \in Others}
<1>3. IsFiniteSet(Held) /\ Cardinality(Held) <= Cardinality(Others)
    <2>1. held \in Surjection(Others, Held)
        BY DEF Surjection
    <2> QED
        BY <1>2, <2>1, FS_Surjection
<1>4. InHandJobs \subseteq Held
    BY DEF InHandJobs
<1>5. Cardinality(InHandJobs) <= Cardinality(Held)
    BY <1>3, <1>4, FS_Subset
<1>6. Cardinality(InHandJobs) \in Nat /\ Cardinality(Held) \in Nat
    BY <1>3, <1>4, FS_Subset, FS_CardinalityType
<1> QED
    BY <1>2, <1>3, <1>5, <1>6

\* JobPool counts as its user does.
LEMMA SameCount == ASSUME NEW S PROVE Pool!Cardinality(S) = Cardinality(S)
BY DEF Pool!Cardinality, Cardinality

LEMMA EnqueueAccepts ==
    ASSUME DrainInv, DrainInv', NEW r \in Requests, Enqueue(r)
    PROVE  Pool!Accept(r)
<1>1. TypeOK /\ TypeOK' /\ AcceptedIsKnown /\ NothingNew
    BY TruthParts DEF DrainInv, LoopInv, Truth, Counted, Drained
<1>2. /\ items' = Append(items, r) /\ UNCHANGED <<at, job, ended, stopping, drains>>
      /\ call[r] \in InFlight
    BY DEF Enqueue, Offers, InFlight
<1>3. ~Closed
    BY <1>1, <1>2 DEF NothingNew, Closed
<1>4. r \notin Queued \cup ended /\ ~InHand(r)
    BY <1>1, <1>2 DEF AcceptedIsKnown, InFlight
<1>5. r \notin InHandJobs
    BY <1>4 DEF InHand, InHandJobs
<1>6. r \notin {JobsOf(items)[i] : i \in DOMAIN JobsOf(items)}
    BY <1>1, <1>4, JobsOfItems DEF Range
<1>7. JobsOf(items') = Append(JobsOf(items), r)
    <2>1. items \in Seq(Entries) /\ r \in Entries
        BY <1>1 DEF TypeOK, Entries
    <2>2. Kept(items', Requests) = Append(Kept(items, Requests), r)
        BY <1>2, <2>1, KeptAppend
    <2>3. JobsOf(items') = Kept(items', Requests) /\ JobsOf(items) = Kept(items, Requests)
        BY DEF JobsOf, Kept, Members
    <2> QED
        BY <2>2, <2>3
<1>8. InHandJobs' = InHandJobs /\ Closed' = Closed
    BY <1>2 DEF InHandJobs, Closed
<1> QED
    BY <1>2, <1>3, <1>4, <1>5, <1>6, <1>7, <1>8
       DEF Pool!Accept, Pool!Known, InHandJobs, Closed

\* What an item that leaves the queue does to its jobs.
LEMMA JobsOfTail ==
    ASSUME TypeOK, items # << >>
    PROVE  /\ Head(items) # Sentinel =>
                  /\ JobsOf(items) # << >> /\ Head(JobsOf(items)) = Head(items)
                  /\ JobsOf(Tail(items)) = Tail(JobsOf(items))
           /\ Head(items) = Sentinel => JobsOf(Tail(items)) = JobsOf(items)
<1>1. items \in Seq(Entries) /\ Head(items) \in Entries
    BY ItemTypes
<1>2. JobsOf(items) = Kept(items, Requests) /\ JobsOf(Tail(items)) = Kept(Tail(items), Requests)
    BY DEF JobsOf, Kept, Members
<1>3. Head(items) \in Requests <=> Head(items) # Sentinel
    BY <1>1, Names DEF Entries
<1> QED
    BY <1>1, <1>2, <1>3, KeptTail

LEMMA BeginBegins ==
    ASSUME TypeOK, TypeOK', NEW w \in Workers, BeginJob(w)
    PROVE  Pool!Begin
<1>1. /\ items # << >> /\ Head(items) # Sentinel /\ items' = Tail(items)
      /\ at[w] # "busy" /\ UNCHANGED <<ended, stopping, drains>>
    BY DEF BeginJob, Looks
<1>2. /\ JobsOf(items) # << >> /\ Head(JobsOf(items)) = Head(items)
      /\ JobsOf(items') = Tail(JobsOf(items))
    BY <1>1, JobsOfTail
<1>3. Cardinality(InHandJobs) < MaxParallel
    BY <1>1, WidthLeft
<1>4. \A v \in Workers : IF v = w THEN at'[v] = "busy" /\ job'[v] = Head(items)
                         ELSE at'[v] = at[v] /\ job'[v] = job[v]
    BY DEF BeginJob, TypeOK
<1>5. InHandJobs' = InHandJobs \cup {Head(items)}
    BY <1>1, <1>4 DEF InHandJobs
<1>6. Closed' = Closed
    BY <1>1 DEF Closed
<1>7. /\ JobsOf(items) # << >> /\ Pool!Cardinality(InHandJobs) < MaxParallel
      /\ InHandJobs' = InHandJobs \cup {Head(JobsOf(items))}
      /\ JobsOf(items)' = Tail(JobsOf(items))
      /\ UNCHANGED <<ended, Closed>>
    BY <1>1, <1>2, <1>3, <1>5, <1>6, SameCount
<1> QED
    BY <1>7 DEF Pool!Begin, InHandJobs, Closed

LEMMA EndEnds ==
    ASSUME TypeOK, InOneHand, NEW w \in Workers, EndJob(w)
    PROVE  \E j \in InHandJobs : Pool!End(j)
<1>1. /\ at[w] = "busy" /\ ended' = ended \cup {job[w]}
      /\ UNCHANGED <<items, job, stopping, drains>>
    BY DEF EndJob, aqueue
<1>2. \A v \in Workers : at'[v] = "busy" <=> at[v] = "busy" /\ v # w
    BY <1>1 DEF EndJob, TypeOK
<1>3. InHandJobs' = InHandJobs \ {job[w]}
    BY <1>1, <1>2 DEF InHandJobs, InOneHand
<1>4. job[w] \in InHandJobs
    BY <1>1 DEF InHandJobs
<1> QED
    BY <1>1, <1>3, <1>4 DEF Pool!End, InHandJobs, Closed

\* A stop that returns behind drained requests finds no job.
LEMMA ReturnCloses ==
    ASSUME DrainInv, DrainInv', StopReturns
    PROVE  IF drains THEN Pool!Close ELSE Seen' = Seen
<1>1. UNCHANGED <<items, at, job, ended, drains>> /\ stopping' = "done" /\ stopping = "gather"
    BY DEF StopReturns, aqueue
<1>2. CASE drains
    <2>1. Gathered' /\ Drained' /\ TypeOK
        BY DEF DrainInv, LoopInv, Awake, Truth, Counted
    <2>2. \A w \in Workers : at[w] = "gone"
        BY <1>1, <2>1 DEF Gathered
    <2>3. <<"worker", 1>> \in Workers
        BY DEF Workers
    <2>4. Queued = {} /\ InHandJobs = {}
        BY <1>1, <1>2, <2>1, <2>2, <2>3 DEF Drained, NoJobsLater, Queued, InHandJobs
    <2>5. JobsOf(items) = << >>
        <3>1. JobsOf(items) \in Seq(Requests) /\ Range(JobsOf(items)) = {}
            BY <2>1, <2>4, JobsOfItems
        <3> QED
            BY <3>1, NoElements
    <2> QED
        BY <1>1, <1>2, <2>4, <2>5 DEF Pool!Close, InHandJobs, Closed
<1>3. CASE ~drains
    BY <1>1, <1>3 DEF Seen, InHandJobs, Closed
<1> QED
    BY <1>2, <1>3

\* Sentinels are no jobs.
LEMMA StopPutsUnseen ==
    ASSUME TypeOK, StopPuts
    PROVE  Seen' = Seen
<1> DEFINE ss == [i \in 1..Fitting |-> Sentinel]
<1>1. Fitting \in Nat
    BY FittingType DEF TypeOK
<1>2. ss \in Seq({Sentinel}) /\ ss \in Seq(Entries) /\ items \in Seq(Entries)
    BY <1>1, IsASeq DEF TypeOK, Entries
<1>3. Range(ss) \cap Requests = {}
    BY Names DEF Range
<1> HIDE DEF ss
<1>4. Kept(ss, Requests) = << >>
    <2>1. Kept(ss, Requests) \in Seq(Requests)
        BY <1>2, KeptConcat
    <2>2. Range(Kept(ss, Requests)) = {}
        BY <1>2, <1>3, KeptRange
    <2> QED
        BY <2>1, <2>2, NoElements
<1>5. Kept(items \o ss, Requests) = Kept(items, Requests) \o Kept(ss, Requests)
    BY <1>2, KeptConcat
<1>6. Kept(items, Requests) \o << >> = Kept(items, Requests)
    BY <1>2, KeptConcat, ConcatEmptySeq
<1>7. items' = items \o ss /\ UNCHANGED <<at, job, ended, drains>>
    BY DEF StopPuts, ss
<1>8. JobsOf(items') = JobsOf(items)
    <2>1. JobsOf(items') = Kept(items', Requests) /\ JobsOf(items) = Kept(items, Requests)
        BY DEF JobsOf, Kept, Members
    <2> QED
        BY <1>4, <1>5, <1>6, <1>7, <2>1
<1>9. Closed' = FALSE /\ Closed = FALSE
    BY DEF StopPuts, Closed
<1> QED
    BY <1>7, <1>8, <1>9 DEF Seen, InHandJobs

LEMMA LeaveUnseen ==
    ASSUME TypeOK, NEW w \in Workers, LeavePool(w)
    PROVE  Seen' = Seen
<1>1. /\ items # << >> /\ Head(items) = Sentinel /\ items' = Tail(items)
      /\ at[w] # "busy" /\ UNCHANGED <<ended, stopping, drains>>
    BY DEF LeavePool, Looks
<1>2. \A v \in Workers : /\ at'[v] = "busy" <=> at[v] = "busy"
                         /\ at[v] = "busy" => job'[v] = job[v]
    BY <1>1 DEF LeavePool, TypeOK
<1>3. InHandJobs' = InHandJobs
    BY <1>2 DEF InHandJobs
<1> QED
    BY <1>1, <1>3, JobsOfTail DEF Seen, Closed

\* Steps that leave the items and the jobs in hand alone.
LEMMA OthersUnseen ==
    ASSUME Counted,
           \/ Start \/ CallStop \/ StopJoins
           \/ \E w \in Workers : WaitForItem(w)
           \/ \E r \in Requests : \/ Arrive(r) \/ TimeoutFires(r) \/ NoPlan(r)
                                  \/ NotRunning(r) \/ WaitForRoom(r) \/ Saturated(r)
    PROVE  Seen' = Seen
<1>1. UNCHANGED <<items, ended, drains>> /\ (stopping' = "done" <=> stopping = "done")
    BY DEF Start, CallStop, StopJoins, WaitForItem, Arrive, TimeoutFires, NoPlan, NotRunning,
       WaitForRoom, Saturated, Answer, aqueue
<1>2. \A v \in Workers : /\ at'[v] = "busy" <=> at[v] = "busy"
                         /\ at[v] = "busy" => job'[v] = job[v]
    <2>1. TypeOK /\ NotStarted
        BY DEF Counted
    <2>2. CASE Start
        BY <2>1, <2>2 DEF Start, NotStarted
    <2>3. CASE CallStop \/ StopJoins
        BY <2>3 DEF CallStop, StopJoins
    <2>4. CASE \E w \in Workers : WaitForItem(w)
        BY <2>1, <2>4 DEF WaitForItem, Looks, TypeOK
    <2>5. CASE \E r \in Requests : \/ Arrive(r) \/ TimeoutFires(r) \/ NoPlan(r)
                                   \/ NotRunning(r) \/ WaitForRoom(r) \/ Saturated(r)
        BY <2>5 DEF Arrive, TimeoutFires, NoPlan, NotRunning, WaitForRoom, Saturated, Answer
    <2> QED
        BY <2>2, <2>3, <2>4, <2>5
<1>3. InHandJobs' = InHandJobs
    BY <1>2 DEF InHandJobs
<1> QED
    BY <1>1, <1>3 DEF Seen, Closed

LEMMA PoolStep == DrainInv /\ DrainInv' /\ [Next]_vars => [Pool!Next]_(Pool!pool)
<1> SUFFICES ASSUME DrainInv, DrainInv', [Next]_vars
             PROVE  Pool!Next \/ Seen' = Seen
    BY DEF Pool!pool, Seen, InHandJobs, Closed
<1>1. Counted /\ TypeOK /\ TypeOK' /\ InOneHand
    BY TruthParts DEF DrainInv, LoopInv, Truth, Counted
<1>2. CASE UNCHANGED vars \/ Stopped
    BY <1>2 DEF vars, tasks, aqueue, Stopped, Seen, InHandJobs, Closed
<1>3. CASE \E r \in Requests : Enqueue(r)
    <2>1. PICK r \in Requests : Pool!Accept(r)
        BY <1>3, EnqueueAccepts
    <2> QED
        BY <2>1 DEF Pool!Next
<1>4. CASE \E w \in Workers : BeginJob(w)
    BY <1>1, <1>4, BeginBegins DEF Pool!Next
<1>5. CASE \E w \in Workers : EndJob(w)
    <2>1. \E j \in InHandJobs : Pool!End(j)
        BY <1>1, <1>5, EndEnds
    <2> QED
        BY <2>1 DEF Pool!Next, InHandJobs
<1>6. CASE StopReturns
    BY <1>6, ReturnCloses DEF Pool!Next
<1>7. CASE StopPuts
    BY <1>1, <1>7, StopPutsUnseen
<1>8. CASE \E w \in Workers : LeavePool(w)
    BY <1>1, <1>8, LeaveUnseen
<1>9. CASE \/ Start \/ CallStop \/ StopJoins
           \/ \E w \in Workers : WaitForItem(w)
           \/ \E r \in Requests : \/ Arrive(r) \/ TimeoutFires(r) \/ NoPlan(r)
                                  \/ NotRunning(r) \/ WaitForRoom(r) \/ Saturated(r)
    BY <1>1, <1>9, OthersUnseen
<1> QED
    BY <1>2, <1>3, <1>4, <1>5, <1>6, <1>7, <1>8, <1>9 DEF Next, LoopStep

LEMMA PoolInit == Init => Pool!Init
<1> SUFFICES ASSUME Init PROVE Pool!Init
    OBVIOUS
<1>1. /\ items = << >> /\ ended = {} /\ stopping = "no"
      /\ \A w \in Workers : at[w] = "off"
    BY DEF Init
<1>2. JobsOf(items) = << >>
    BY <1>1, FlattenEmpty DEF JobsOf
<1>3. InHandJobs = {}
    BY <1>1 DEF InHandJobs
<1> QED
    BY <1>1, <1>2, <1>3 DEF Pool!Init, InHandJobs

\* The queue and its workers implement JobPool, with sentinels, wake-ups, timeouts and the
\* order of the event loop hidden: jobs begin in the order of their 202, each once, never
\* more at a time than there are workers, and a drained stop finds the pool empty.
THEOREM QueueIsJobPool == Spec => IsJobPool
<1>1. Spec => []DrainInv
    BY DrainInit, DrainStep, PTL DEF Spec
<1> QED
    BY <1>1, PoolInit, PoolStep, PTL DEF Spec, IsJobPool, Pool!Spec
=============================================================================
