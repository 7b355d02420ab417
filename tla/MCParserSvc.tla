----------------------------- MODULE MCParserSvc -----------------------------
(***************************************************************************)
(* Instances of ParserSvc for TLC: the texts, the manifests and the           *)
(* directories.                                                              *)
(***************************************************************************)
EXTENDS ParserSvc, TLC

CONSTANTS r1

Trimmed == (" " :> "") @@ ("srv-1 " :> "srv-1") @@ (" Container" :> "Container") @@
           ("Yes " :> "Yes") @@ (" c1" :> "c1") @@ ("c1 " :> "c1") @@ ("80 " :> "80")
Lowered == ("Container" :> "container") @@ ("Yes" :> "yes") @@ ("SRV.local" :> "srv.local") @@
           (" Container" :> " container") @@ ("Yes " :> "yes ")

\* The texts that occur, in their order.
Ordered == <<"", " ", " Container", " c1", " container", "0", "2", "7", "80", "80 ", "80.5",
             "Container", "SRV.local", "Yes", "Yes ", "a.json", "agent", "b.JSON", "binary", "c1",
             "c1 ", "c2", "c3", "container", "false", "img", "maybe", "notes.dsl", "prod", "srv-1",
             "srv-1 ", "srv-2", "srv.local", "test", "true", "x", "yes", "yes ">>
SomeText == Range(Ordered)
TrimOf  == Trimmed @@ [s \in SomeText |-> s]
LowerOf == Lowered @@ [s \in SomeText |-> s]
NumeralOf == ("80" :> 80) @@ ("7" :> 7) @@ ("0" :> 0) @@ ("2" :> 2)
DecimalOf == (7 :> "7") @@ (0 :> "0") @@ (2 :> "2")

RankOf  == [s \in SomeText |-> CHOOSE i \in DOMAIN Ordered : Ordered[i] = s]

Str(s)   == [t |-> "string", v |-> s]
Number(n) == [t |-> "number", v |-> n]
Fraction == [t |-> "fraction", v |-> "80.5"]
True     == [t |-> "bool", v |-> TRUE]
Null     == [t |-> "null"]
Nested   == [t |-> "nested"]

\* A property that may be missing: << >>, or <<its value>>.
Given(key, choice) == IF choice = << >> THEN << >> ELSE key :> choice[1]

HostProperties(id, fqdn, env) ==
    ("host_id" :> id) @@ ("fqdn" :> fqdn) @@ ("env" :> env) @@
    ("managed_by" :> Str("x")) @@ ("purpose" :> True) @@
    ("rack" :> Number(7)) @@ ("structurizr.dsl" :> Str("x")) @@ ("owner" :> Nested)

Instance(container, enabled, mode, image, port, version) ==
    [containerID |-> container,
     properties |-> Given("enabled", enabled) @@ Given("deployment_mode", mode) @@
                    Given("image", image) @@ Given("port", port) @@ Given("version", version)]

Agent == Instance(" c1", <<True>>, <<Str(" Container")>>, <<Str("img")>>, <<Str("80 ")>>, <<Null>>)
Flawed == Instance("c3", <<True>>, <<Str("binary")>>, << >>, << >>, << >>)

AnyInstance ==
    {Instance(c, e, m, i, p, v) :
        c \in {"c1", "c2"},
        e \in {<< >>, <<Str("Yes ")>>, <<Str("maybe")>>, <<Number(0)>>, <<Number(2)>>},
        m \in {<<Null>>, <<Str(" Container")>>, <<Str("binary")>>},
        i \in {<< >>, <<Str("img")>>, <<Nested>>},
        p \in {<< >>, <<Str("x")>>, <<Fraction>>},
        v \in {<<Str(" ")>>, <<Nested>>}}

\* Container c1 is defined twice, c2 has no name, c3 is not defined.
Containers == <<[id |-> "c1", name |-> " "], [id |-> " ", name |-> "x"],
                [id |-> "c1 ", name |-> "agent"], [id |-> "c2", name |-> " "]>>

Node(p, instances, children, deploymentNodes) ==
    [properties |-> p, containerInstances |-> instances,
     children |-> children, deploymentNodes |-> deploymentNodes]

\* What a node can be: a host, another of its id, a host of a numeric id, a group.
Kinds == {HostProperties(Str("srv-1 "), Str("SRV.local"), Str("prod")),
          HostProperties(Str("srv-1"), Str("x"), Str("test")),
          HostProperties(Number(7), Str("x"), Str("prod")),
          HostProperties(Str("srv-2"), Str(" "), Str("prod")),
          << >>}

Manifest(roots, nodes) ==
    [kind |-> "manifest", deploymentNodes |-> roots, nodes |-> nodes, containers |-> Containers]

Alone(p, instance) == Manifest(<<1>>, <<Node(p, <<instance>>, << >>, << >>)>>)
\* A parent with a child of each sort.
Trees == {Manifest(<<1>>, <<Node(p2, <<Flawed, Agent>>, <<3>>, <<2>>), Node(p1, <<Agent>>, << >>, << >>),
                            Node(p3, << >>, << >>, << >>)>>) : p1, p2, p3 \in Kinds}
Pairs == {Manifest(<<1, 2>>, <<Node(p1, <<Agent, Agent>>, << >>, << >>),
                               Node(p2, <<Agent>>, << >>, << >>)>>) : p1, p2 \in Kinds}

OneHost  == CHOOSE p \in Kinds : p # << >> /\ p["env"] = Str("test")
Absent   == [kind |-> "absent"]
Broken   == [kind |-> "broken"]
Disk(a, b, c) == ("a.json" :> a) @@ ("b.JSON" :> b) @@ ("notes.dsl" :> c)

SmallOne == Alone(OneHost, Agent)
Changes  == {Absent, SmallOne}
AllDisks ==
    {Disk(Alone(OneHost, i), Absent, Absent) : i \in AnyInstance} \cup
    {Disk(t, m, Broken) : t \in Trees, m \in {SmallOne, Absent}} \cup
    {Disk(m, p, Absent) : m \in {SmallOne, Broken, [kind |-> "directory"]}, p \in Pairs} \cup
    {Disk(Absent, Manifest(<< >>, << >>), Broken)}

SomeQueries == {[fqdn |-> " ", labels |-> {}], [fqdn |-> "srv.local", labels |-> {}],
                [fqdn |-> "x", labels |-> {<<"env", "test">>, <<"rack", "7">>}]}
SomeIds == {"srv-1 ", "7", "srv-2"}
==============================================================================
