---------------------------- MODULE CadvisorSource ----------------------------
(***************************************************************************)
(* The cadvisor source of InventorySvc: what a host's cAdvisor answered is   *)
(* decoded into containers, named, filtered and turned into the host's       *)
(* workloads.  Pure operators; one that may fail returns the set of its      *)
(* result, which is empty when the code returns an error.                    *)
(*                                                                         *)
(* Texts are members of Text.  Containers and workloads are sets: their      *)
(* order reaches no decision.  Timestamps are left out, so that of a         *)
(* container's stats only the presence matters.                             *)
(***************************************************************************)
EXTENDS Naturals, Sequences, SequencesExt

CONSTANTS
    Text,           \* the strings of an answer
    Trim,           \* [Text -> Text]: strings.TrimSpace
    Fold,           \* [Text -> Text]: trimmed, then lower-cased
    Base,           \* [Text -> Text]: last segment of a path, Blank if it has slashes only
    Blank,          \* the empty string
    IncludeSystem   \* includeSystemWorkloads

\* What an instance has to give.
TextAssumption ==
    /\ Trim \in [Text -> Text] /\ Fold \in [Text -> Text] /\ Base \in [Text -> Text]
    /\ {Blank, "/", "unknown"} \subseteq Text
    /\ IncludeSystem \in BOOLEAN

Containers == [name : Text, aliases : Seq(Text), namespace : Text, image : Text,
               hasStats : BOOLEAN]

IsBlank(t) == Trim[t] = Blank

------------------------------------------------------------------------------
(* Decoding.  A body is an array of containers ([form |-> "array"]), an object  *)
(* or something else.  An object has its members, each a container or Scalar,  *)
(* and `self`, what is left when the object itself is read as a container.     *)

Scalar == [scalar |-> TRUE]

Named(c, name) == IF IsBlank(c.name) THEN [c EXCEPT !.name = name] ELSE c

HasContainerPayload(c) ==
    \/ ~IsBlank(c.name) \/ c.aliases # << >> \/ ~IsBlank(c.namespace)
    \/ ~IsBlank(c.image) \/ c.hasStats

\* Mutation only: a container of a map is not given its key.
DecodeMapUnnamed(body) == {body.members[k] : k \in DOMAIN body.members}

\* A map from names to containers.
DecodeMap(body) == {Named(body.members[k], k) : k \in DOMAIN body.members}

IsMap(body) == \A k \in DOMAIN body.members : body.members[k] # Scalar

\* An object that tells of an error is none of the three.
DecodeContainersResponse(body) ==
    CASE body.form = "array" -> {body.items}
      [] body.form = "object" /\ IsMap(body) -> {DecodeMap(body)}
      [] body.form = "object" /\ ~IsMap(body) /\ HasContainerPayload(body.self) ->
            {{Named(body.self, "/")}}
      [] OTHER -> {}

\* No reply in time, a status that is not 200, or a body.
FetchContainers(reply) ==
    IF reply.status # "200" THEN {} ELSE DecodeContainersResponse(reply.body)

------------------------------------------------------------------------------
(* Naming and filtering *)

PickWorkloadID(name, aliases) ==
    LET i == SelectInSeq(aliases, LAMBDA t : ~IsBlank(t))
    IN  IF i # 0 THEN Trim[aliases[i]] ELSE name

PickWorkloadName(name, aliases) ==
    LET i == SelectInSeq(aliases, LAMBDA t : Base[Trim[t]] # Blank)
    IN  CASE i # 0 -> Base[Trim[aliases[i]]]
          [] i = 0 /\ Base[name] # Blank -> Base[name]
          [] OTHER -> "unknown"

PickRuntime(namespace) == IF IsBlank(namespace) THEN "unknown" ELSE Trim[namespace]

\* The root container stands for the host itself and is no workload.
NormalizeContainers(containers) ==
    {[id |-> PickWorkloadID(Trim[c.name], c.aliases),
      name |-> PickWorkloadName(Trim[c.name], c.aliases),
      image |-> Trim[c.image],
      runtime |-> PickRuntime(c.namespace)]
        : c \in {d \in containers : Trim[d.name] \notin {Blank, "/"}}}

IsLikelySystemWorkload(w) == IsBlank(w.image) /\ Fold[w.runtime] \in {Blank, "unknown"}

FilterWorkloads(workloads) ==
    {w \in workloads : IncludeSystem \/ ~IsLikelySystemWorkload(w)}

\* The workloads of a host, unless its cAdvisor cannot be read.
CollectHost(reply) ==
    {FilterWorkloads(NormalizeContainers(cs)) : cs \in FetchContainers(reply)}
==============================================================================
