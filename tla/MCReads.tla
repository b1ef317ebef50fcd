------------------------------- MODULE MCReads -------------------------------
EXTENDS Reads

Generated == INSTANCE DeviceSchema
DeviceModels == Generated!ModelData

RECURSIVE Part(_, _)
Part(entry, names) ==
    [entry EXCEPT !.dir = [n \in DOMAIN entry.dir \cap names |-> Part(entry.dir[n], names)]]

\* The interfaces with their names and one counter.
IfSchema ==
    Part(Generated!Device, {"interfaces", "interface", "name", "state", "counters", "in-pkts"})

CountersPath == <<Elem("interfaces"), Elem("interface"), Elem("state"), Elem("counters")>>
InterfacePath == <<Elem("interfaces"), Elem("interface")>>

CountersSync == <<CountersPath>>                  \* as gnmid.demo.sh starts it
NestedSync == <<CountersPath, InterfacePath>>

Of(prefix, path) ==
    [kind |-> "get", prefix |-> prefix, path |-> path, type |-> "ALL", models |-> {},
     encoding |-> "JSON"]
Eth == Keyed("interface", "name" :> "eth0")
AnyIf == Keyed("interface", "name" :> "*")

GetRequests ==
    {Of(<<>>, <<>>),
     Of(<<Elem("interfaces"), Eth>>, <<Elem("*"), Elem("counters")>>),
     Of(<<Elem("interfaces"), Eth, Elem("state")>>, <<Elem("counters"), Elem("in-pkts")>>),
     Of(<<Elem("...")>>, <<>>),
     Of(<<Elem("interfaces"), AnyIf>>, <<Elem("..."), Elem("in-pkts")>>),
     Of(<<Elem("state")>>, <<>>),
     [Of(<<>>, <<Elem("interfaces"), Elem("counters")>>) EXCEPT !.models = {"sample"}],
     [Of(<<>>, CountersPath) EXCEPT !.encoding = "PROTO"]}

Symmetry == Permutations(Clients)

Subscribe(prefix, path) == [Of(prefix, path) EXCEPT !.kind = "subscribe"]

SubscribeRequests ==
    {Subscribe(<<Elem("interfaces")>>, <<Eth, Elem("*")>>),
     Subscribe(<<Elem("interfaces"), Eth>>, <<Elem("state")>>)}

\* Subscriptions with one path in the schema.
PlainRequests ==
    GetRequests \cup {Subscribe(<<Elem("interfaces")>>, <<Eth, Elem("state")>>),
                      Subscribe(<<>>, CountersPath)}
=============================================================================
