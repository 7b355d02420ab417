------------------------------ MODULE Detectors ------------------------------
(***************************************************************************)
(* The pure part of DriftDetectorSvc: how a desired host is matched with an *)
(* actual one, and what each detector concludes from the pair.              *)
(*                                                                         *)
(* Names (host ids, FQDNs, workload names, deployment modes, statuses) are  *)
(* compared by the code after strings.TrimSpace and strings.ToLower or      *)
(* strings.EqualFold.  A raw spelling is a member of Spelling and Fold maps *)
(* it to its canonical spelling; Blank is the canonical empty string.       *)
(***************************************************************************)
EXTENDS Naturals, Sequences, SequencesExt

CONSTANTS
    Spelling,   \* the raw strings that occur in the two HTTP answers
    Fold,       \* [Spelling -> Spelling]: trim, then lower-case
    Blank,      \* the empty string
    Registered, \* the components that have a detector in the registry
    SourceViews \* what an actual host may say of its sources: functions of source names

ASSUME FoldAssumption ==
    /\ Fold \in [Spelling -> Spelling]
    /\ \A s \in Spelling : Fold[Fold[s]] = Fold[s]
    /\ Blank \in Spelling /\ Fold[Blank] = Blank

NodeExporter == "node_exporter"
Cadvisor     == "cadvisor"
Components   == {NodeExporter, Cadvisor}

ASSUME RegisteredAssumption == Registered \subseteq Components

ASSUME SourceViewsAssumption ==
    \A view \in SourceViews : \A source \in DOMAIN view :
        view[source] \in [enabled : BOOLEAN, status : Spelling]

Key == Components \X {Fold[s] : s \in Spelling}

------------------------------------------------------------------------------
(* Hosts.  Labels, images, ports and versions reach no decision and are left *)
(* out; an ActualHost's sources is a function from source names.             *)

Workloads == [name : Spelling, enabled : BOOLEAN, mode : Spelling]
DesiredHosts == [id : Spelling, fqdn : Spelling, workloads : Seq(Workloads)]

ActualHosts ==
    [id : Spelling, fqdn : Spelling, sources : SourceViews, workloads : Seq(Spelling)]

\* The first workload of that name wins; 0 when there is none.
DesiredWorkload(h, c) ==
    SelectInSeq(h.workloads, LAMBDA w : Fold[w.name] = c)

HasWorkload(h, c) == \E i \in DOMAIN h.workloads : Fold[h.workloads[i]] = c

IsSourceHealthy(h, source) ==
    /\ source \in DOMAIN h.sources
    /\ h.sources[source].enabled
    /\ Fold[h.sources[source].status] = "ok"

\* The prologue the two detectors share.
Wanted(h, c) ==
    LET i == DesiredWorkload(h, c)
    IN  /\ i # 0
        /\ h.workloads[i].enabled
        /\ Fold[h.workloads[i].mode] = "container"

TargetFQDN(d, a) == IF Fold[d.fqdn] # Blank THEN d.fqdn ELSE a.fqdn

BuildKey(c, fqdn) == <<c, Fold[fqdn]>>

------------------------------------------------------------------------------
(* Detectors *)

\* Mutation only: the source check comes after the workload check and is lost.
NodeExporterDetectBlind(d, a) ==
    IF ~Wanted(d, NodeExporter) THEN "not_applicable"
    ELSE IF HasWorkload(a, NodeExporter) THEN "in_place"
    ELSE "drift"

NodeExporterDetect(d, a) ==
    IF ~Wanted(d, NodeExporter) THEN "not_applicable"
    ELSE IF ~IsSourceHealthy(a, Cadvisor) THEN "missing_data"
    ELSE IF HasWorkload(a, NodeExporter) THEN "in_place"
    ELSE "drift"

\* Mutation only: an unhealthy source is missing data, as for any other component.
CadvisorDetectMissing(d, a) ==
    IF ~Wanted(d, Cadvisor) THEN "not_applicable"
    ELSE IF ~IsSourceHealthy(a, Cadvisor) THEN "missing_data"
    ELSE IF HasWorkload(a, Cadvisor) THEN "in_place"
    ELSE "drift"

\* An unhealthy source is a drift here: cAdvisor is what feeds the source.
CadvisorDetect(d, a) ==
    IF ~Wanted(d, Cadvisor) THEN "not_applicable"
    ELSE IF ~IsSourceHealthy(a, Cadvisor) THEN "drift"
    ELSE IF HasWorkload(a, Cadvisor) THEN "in_place"
    ELSE "drift"

\* The registry, then the detector it holds.
Detect(c, d, a) ==
    CASE c \notin Registered -> "no_detector"
      [] c \in Registered /\ c = NodeExporter -> NodeExporterDetect(d, a)
      [] c \in Registered /\ c = Cadvisor -> CadvisorDetect(d, a)

------------------------------------------------------------------------------
(* Matching.  indexActualHosts builds two maps in one pass, so that the last *)
(* host of a folded name stays; a map is represented by the index it holds.  *)

IndexByID(hosts, id) ==
    IF id = Blank THEN 0
    ELSE SelectLastInSeq(hosts, LAMBDA h : Fold[h.id] = id)

IndexByFQDN(hosts, fqdn) ==
    IF fqdn = Blank THEN 0
    ELSE SelectLastInSeq(hosts, LAMBDA h : Fold[h.fqdn] = fqdn)

\* Mutation only: the FQDN is preferred to the id.
LookupByFQDNFirst(d, hosts) ==
    LET byID == IndexByID(hosts, Fold[d.id])
        byFQDN == IndexByFQDN(hosts, Fold[d.fqdn])
    IN  IF byFQDN # 0 THEN byFQDN ELSE byID

\* Index of the actual host of d in hosts, 0 when there is none.
LookupActualHost(d, hosts) ==
    LET byID == IndexByID(hosts, Fold[d.id])
    IN  IF byID # 0 THEN byID ELSE IndexByFQDN(hosts, Fold[d.fqdn])
==============================================================================
