-------------------------------- MODULE Reads --------------------------------
(***************************************************************************)
(* Reading data that the system refreshes on demand: the state sync of     *)
(* gnmi/model/get.go, the model updates it hangs on (model.go), the Get    *)
(* handler of gnmi/server/server.go and the first read of a ONCE or POLL   *)
(* subscription, with the datablock of gnmid as StateSync and the          *)
(* subsystem that publishes interface counters as the system behind it.    *)
(*                                                                         *)
(* The counters of an interface are one number, which only grows on the    *)
(* device; it is the value of every counter leaf.  Other leaves have the   *)
(* value 0.                                                                *)
(***************************************************************************)
EXTENDS DataTree

CONSTANTS
    Clients,         \* callers of Get
    Ifs,             \* interfaces of the device
    Responders,      \* those that were there when pollStats started
    Loaded,          \* other interfaces, of the startup file
    Requests,        \* the requests of the clients
    SyncPathList,    \* the --sync-path options of gnmid, in their order
    MaxVersion,      \* the largest counter of the device
    MaxCalls         \* requests of one client

ASSUME RespondersAssumption == Responders \subseteq Ifs

VARIABLES
    data,     \* the tree of Model
    trees,    \* the instance paths in the path tree of each sync path
    dev,      \* the counters on the device
    poll,     \* what pollStats collected and has not written yet
    call,     \* what each client waits for
    calls,    \* the requests each client has made
    crashed   \* a handler has panicked

vars == <<data, trees, dev, poll, call, calls, crashed>>

NoSnap == -1
IfPath(i) == <<Elem("interfaces"), Keyed("interface", "name" :> i)>>
IsCounter(path) == Len(path) = 5 /\ path[4].name = "counters"
Below(path) == FindSchemaPaths(Append(path, Elem("...")))

-----------------------------------------------------------------------------
(* gnmi/model/get.go *)

SyncTrees == DOMAIN SyncPathList
AllEntries == {<<>>} \cup Below(<<>>)

\* Defect: the entries below a sync path are not given its path tree.
NotBelow(path) == {}

addStateSyncSchema(path) == Below(path)

\* stateSyncPath: the path trees of each schema entry, and whether the entry is
\* a sync path itself.  A later sync path starts its own entry anew.
initStateSync ==
    LET Step(acc, i) ==
            LET p == SyncPathList[i]
                around == {SubSeq(p, 1, n) : n \in 0..(Len(p) - 1)} \cup addStateSyncSchema(p)
            IN  IF FindSchemaByXPath(p) = NoEntry THEN acc
                ELSE [e \in AllEntries |->
                        CASE e = p -> [pathtrees |-> <<i>>, syncRequired |-> TRUE]
                          [] e # p /\ e \in around -> [acc[e] EXCEPT !.pathtrees = Append(@, i)]
                          [] OTHER -> acc[e]]
        none == [e \in AllEntries |-> [pathtrees |-> <<>>, syncRequired |-> FALSE]]
    IN  FoldLeftDomain(Step, none, SyncPathList)

\* Trie.FindAll: the paths above and below; the keys of the last element of the
\* shorter one may be left out.
Related(p, q) ==
    LET short == IF Len(p) <= Len(q) THEN p ELSE q
        long == IF Len(p) <= Len(q) THEN q ELSE p
        n == Len(short)
    IN  \/ n = 0
        \/ /\ SubSeq(short, 1, n - 1) = SubSeq(long, 1, n - 1)
           /\ short[n] \in {long[n], Elem(long[n].name)}

IsSchemaPath(elems) ==
    \A i \in DOMAIN elems : \A k \in DOMAIN elems[i].key : elems[i].key[k] = "*"

\* All that is registered for the sync paths related to a schema path.
SyncedForSchema(path) ==
    UNION {trees[i] : i \in {j \in SyncTrees : Related(SyncPathList[j], path)}}

\* The path trees of the entry a path leads to.
PathTrees(path) ==
    IF FindSchemaByXPath(path) = NoEntry THEN <<>> ELSE initStateSync[SchemaOnly(path)].pathtrees

\* RequestStateSync for one path: the paths that are passed to UpdateSync.
RequestStateSync(elems) ==
    UNION {IF IsSchemaPath(elems) THEN SyncedForSchema(p)
           ELSE UNION {{q \in trees[i] : Related(q, p)} : i \in ToSet(PathTrees(p))} :
              p \in FindPaths(elems)}

\* RequestStateSyncBySubscriptionList: the inner index hides the outer one, so
\* that the n-th path tree is searched for the n-th of the paths.  strpath is
\* FindPaths in the order of Go's maps.
SearchedByPosition(strpath) ==
    UNION {LET t == PathTrees(strpath[i])
           IN  UNION {{q \in trees[t[n]] : Related(q, strpath[n])} :
                         n \in DOMAIN t \cap DOMAIN strpath} : i \in DOMAIN strpath}

\* There are more path trees than paths.
OutOfRange(strpath) ==
    \E i \in DOMAIN strpath : Len(PathTrees(strpath[i])) > Len(strpath)

-----------------------------------------------------------------------------
(* Model updates, called by ydb for each node of what is published *)

addStateSyncPath(t, path) ==
    LET ctrl == initStateSync[SchemaOnly(path)]
    IN  IF ctrl.syncRequired THEN [t EXCEPT ![ctrl.pathtrees[1]] = @ \cup {path}] ELSE t

deleteStateSyncPath(t, path) ==
    LET ctrl == initStateSync[SchemaOnly(path)]
    IN  IF ctrl.syncRequired THEN [t EXCEPT ![ctrl.pathtrees[1]] = @ \ {path}] ELSE t

\* model = [data, trees].  An unknown path is ignored; the path is registered
\* before the value is converted and written.
UpdateCreate(model, path, value) ==
    IF FindSchemaByXPath(path) = NoEntry THEN model
    ELSE [data |-> WriteStringValue(model.data, path, value, TRUE).data,
          trees |-> addStateSyncPath(model.trees, path)]

UpdateReplace(model, path, value) ==
    IF FindSchemaByXPath(path) = NoEntry THEN model
    ELSE [model EXCEPT !.data = WriteStringValue(@, path, value, TRUE).data]

\* Defect: the path is unregistered and its value stays.
UnregistersOnly(model, path) == [model EXCEPT !.trees = deleteStateSyncPath(@, path)]

UpdateDelete(model, path) ==
    IF FindSchemaByXPath(path) = NoEntry THEN model
    ELSE [data |-> DeleteValue(model.data, path),
          trees |-> deleteStateSyncPath(model.trees, path)]

\* marshal: the nodes of one interface, parents first.
marshal(i, version) ==
    LET p == IfPath(i)
        state == Append(p, Elem("state"))
        counters == Append(state, Elem("counters"))
        Node(path, value) == [path |-> path, value |-> value]
    IN  <<Node(p, DIR), Node(Append(p, Elem("name")), KEY), Node(state, DIR),
          Node(Append(state, Elem("name")), 0), Node(counters, DIR),
          Node(Append(counters, Elem("in-pkts")), version)>>

\* db.Write in the subsystem: ydb creates the nodes that are new to the model
\* and replaces the others.
Write(model, i, version) ==
    FoldLeft(LAMBDA m, n : IF n.path \in Nodes(m.data) THEN UpdateReplace(m, n.path, n.value)
                           ELSE UpdateCreate(m, n.path, n.value),
             model, marshal(i, version))

Model == [data |-> data, trees |-> trees]
SetModel(m) == data' = m.data /\ trees' = m.trees

-----------------------------------------------------------------------------
(* The subsystem *)

Idle == [phase |-> "idle", req |-> CHOOSE r \in Requests : TRUE, wait |-> {},
         since |-> [i \in Ifs |-> 0], late |-> {}, result |-> "none", answer |-> {}]

\* gnmid has loaded the startup file, which Load writes to ydb as StateConfig and
\* puts in the tree without registering it, and SetTarget has passed all that ydb
\* holds to the model as creates, which register it (external).
Init ==
    \E present \in {Responders, {}} :
        LET start == FoldSet(LAMBDA i, m : Write(m, i, 0),
                             [data |-> EmptyTree, trees |-> [t \in SyncTrees |-> {}]], present \cup Loaded)
        IN  /\ data = start.data
            /\ trees = start.trees
            /\ dev = [i \in Ifs |-> 0]
            /\ poll = [i \in Ifs |-> NoSnap]
            /\ call = [c \in Clients |-> Idle]
            /\ calls = [c \in Clients |-> 0]
            /\ crashed = FALSE

Count(i) ==
    /\ dev[i] < MaxVersion
    /\ dev' = [dev EXCEPT ![i] = @ + 1]
    /\ UNCHANGED <<data, trees, poll, call, calls, crashed>>

\* pollStats: a tick collects all interfaces, which are then written one by one.
PollTick ==
    /\ \A i \in Ifs : poll[i] = NoSnap
    /\ poll' = dev
    /\ UNCHANGED <<data, trees, dev, call, calls, crashed>>

\* A write of counters older than a request spoils what it waits for.
PollWrite(i) ==
    /\ poll[i] # NoSnap
    /\ SetModel(Write(Model, i, poll[i]))
    /\ poll' = [poll EXCEPT ![i] = NoSnap]
    /\ call' = [c \in Clients |->
                  IF call[c].phase = "sync" /\ poll[i] < call[c].since[i]
                  THEN [call[c] EXCEPT !.late = @ \cup {i}] ELSE call[c]]
    /\ UNCHANGED <<dev, calls, crashed>>

\* Another publisher deletes an interface: the node alone, or node by node.
Withdraw(i) ==
    /\ IfPath(i) \in Nodes(data)
    /\ \/ SetModel(UpdateDelete(Model, IfPath(i)))
       \/ SetModel(FoldLeft(LAMBDA m, n : UpdateDelete(m, n.path), Model, Reverse(marshal(i, 0))))
    /\ UNCHANGED <<dev, poll, call, calls, crashed>>

\* SyncResponse collects one interface and publishes it.  ydb calls it and
\* delivers what it returns one request at a time.
SyncResponse(c, i) ==
    /\ i \in call[c].wait
    /\ SetModel(Write(Model, i, dev[i]))
    /\ call' = [call EXCEPT ![c].wait = @ \ {i}]
    /\ UNCHANGED <<dev, poll, calls, crashed>>

\* SyncTo returns without an answer.
SyncTimeout(c) ==
    /\ call[c].wait # {}
    /\ call' = [call EXCEPT ![c].late = @ \cup call[c].wait, ![c].wait = {}]
    /\ UNCHANGED <<data, trees, dev, poll, calls, crashed>>

-----------------------------------------------------------------------------
(* gnmi/server: Get, and the first read of a subscription *)

SupportedEncodings == {"JSON", "JSON_IETF"}
CheckEncoding(encoding) == encoding \in SupportedEncodings
CheckModels(models) == models \subseteq Models

Admitted(r) ==
    /\ r.kind = "get" => r.type = "ALL"
    /\ CheckModels(r.models)
    /\ CheckEncoding(r.encoding)

FullPath(r) == r.prefix \o r.path

\* The interfaces that answer for one of the paths of UpdateSync.
Asked(paths) == {i \in Responders : \E q \in paths : Related(q, IfPath(i))}

Waiting(c, r, paths) ==
    call' = [call EXCEPT ![c] = [Idle EXCEPT !.phase = "sync", !.req = r, !.wait = Asked(paths),
                                             !.since = dev]]

Refuse(c, r) ==
    call' = [call EXCEPT ![c] = [Idle EXCEPT !.phase = "done", !.req = r, !.result = "error"]]

Start(c, r) ==
    /\ call[c].phase = "idle"
    /\ calls[c] < MaxCalls
    /\ calls' = [calls EXCEPT ![c] = @ + 1]
    /\ \/ ~Admitted(r) /\ Refuse(c, r) /\ UNCHANGED crashed
       \/ /\ Admitted(r) /\ r.kind = "get"
          /\ Waiting(c, r, RequestStateSync(FullPath(r)))
          /\ UNCHANGED crashed
       \/ /\ Admitted(r) /\ r.kind = "subscribe" /\ IsSchemaPath(FullPath(r))
          /\ Waiting(c, r, RequestStateSync(FullPath(r)))
          /\ UNCHANGED crashed
       \/ /\ Admitted(r) /\ r.kind = "subscribe" /\ ~IsSchemaPath(FullPath(r))
          /\ \E strpath \in SetToSeqs(FindPaths(FullPath(r))) :
                IF OutOfRange(strpath) THEN crashed' = TRUE /\ UNCHANGED call
                ELSE Waiting(c, r, SearchedByPosition(strpath)) /\ UNCHANGED crashed
    /\ UNCHANGED <<data, trees, dev, poll>>

\* The leaves of the nodes found, with their values.  A field that a wildcard
\* finds unset makes an update without a value, which is no data of an answer.
LeavesOf(found) ==
    {[path |-> q, value |-> data[q]] :
        q \in {n \in Nodes(data) : data[n] # DIR /\ \E f \in found : IsPrefix(f, n)}}

\* The paths are only looked at when the prefix is in the tree.
Read(c) ==
    LET r == call[c].req
        tops == Get(data, r.prefix)
        found == UNION {Find(data, top, r.path) : top \in tops}
        Done(result, answer) ==
            /\ call' = [call EXCEPT ![c].phase = "done", ![c].result = result, ![c].answer = answer]
            /\ UNCHANGED crashed
    IN  /\ call[c].phase = "sync" /\ call[c].wait = {}
        /\ \/ ~ValidatePathSchema("", r.prefix) /\ Done("error", {})
           \/ /\ ValidatePathSchema("", r.prefix) /\ tops = {}
              /\ Done("ok", {})
           \/ /\ ValidatePathSchema("", r.prefix)
              /\ \E top \in tops : ~IsDir(FindSchemaByGNMIPath(top))
              /\ crashed' = TRUE /\ UNCHANGED call
           \/ /\ ValidatePathSchema("", r.prefix) /\ tops # {}
              /\ \A top \in tops : IsDir(FindSchemaByGNMIPath(top))
              /\ IF ValidatePathSchema("", FullPath(r)) THEN Done("ok", LeavesOf(found))
                 ELSE Done("error", {})
        /\ UNCHANGED <<data, trees, dev, poll, calls>>

Finish(c) ==
    /\ call[c].phase = "done"
    /\ call' = [call EXCEPT ![c] = Idle]
    /\ UNCHANGED <<data, trees, dev, poll, calls, crashed>>

Next ==
    \/ PollTick
    \/ \E i \in Ifs : Count(i) \/ PollWrite(i) \/ Withdraw(i)
    \/ \E c \in Clients :
          \/ \E r \in Requests : Start(c, r)
          \/ \E i \in Ifs : SyncResponse(c, i)
          \/ SyncTimeout(c) \/ Read(c) \/ Finish(c)

Spec == Init /\ [][~crashed /\ Next]_vars

-----------------------------------------------------------------------------
(* Properties *)

\* The data is a tree of the schema (the parent of every node is in it), and
\* the path trees hold instance paths of their own sync path (model.go,
\* addStateSyncPath).
TypeOK ==
    /\ \A q \in Nodes(data) : q = <<>> \/ Parent(q) \in Nodes(data)
    /\ trees \in [SyncTrees -> SUBSET UNION {{n.path : n \in ToSet(marshal(i, 0))} : i \in Ifs \cup Loaded}]
    /\ dev \in [Ifs -> 0..MaxVersion]
    /\ poll \in [Ifs -> {NoSnap} \cup 0..MaxVersion]
    /\ \A c \in Clients : call[c].wait \subseteq Responders /\ calls[c] \in 0..MaxCalls

\* Every node of the tree that is to be synchronised before it is read is in the
\* path tree of its sync path, however it was created, deleted and created again.
SyncRegistered ==
    \A t \in SyncTrees : \A q \in Nodes(data) :
        SchemaOnly(q) = SyncPathList[t] => q \in trees[t]

\* The counters in an answer are not older than the request, unless the system
\* did not answer in time or an older poll arrived after it was asked: the sync
\* request (RequestStateSync) covers everything the read (Find) returns.
GetFresh ==
    \A c \in Clients : call[c].phase = "done" =>
        \A a \in call[c].answer : \A i \in Responders \ call[c].late :
            IsCounter(a.path) /\ IsPrefix(IfPath(i), a.path) => a.value >= call[c].since[i]

\* No request makes a handler panic: a prefix that stands for a leaf does, and a
\* keyed subscription below two sync paths of which one contains the other.
NoPanic == ~crashed

\* An element of a request stands for an element of the data.
Matches(elem, e) ==
    elem.name = "*" \/ (/\ elem.name = e.name
                        /\ \A k \in DOMAIN elem.key : elem.key[k] \in {"*", e.key[k]})

\* A path stands for a node: "..." is one or more levels.
StandsFor(elems, q) ==
    IF \E i \in DOMAIN elems : elems[i].name = "..."
    THEN LET i == CHOOSE j \in DOMAIN elems : elems[j].name = "..."
             rest == Len(elems) - i
         IN  /\ Len(q) >= Len(elems)
             /\ \A j \in 1..(i - 1) : Matches(elems[j], q[j])
             /\ \A j \in 1..rest : Matches(elems[i + j], q[Len(q) - rest + j])
    ELSE Len(elems) = Len(q) /\ \A j \in DOMAIN elems : Matches(elems[j], q[j])

\* An answer has the leaves of the tree at the time of the read that are at or
\* below a node the full path stands for, no others, whichever part of the path
\* is the prefix.
AnswerIsExact ==
    [][\A c \in Clients : call[c].phase = "sync" /\ call'[c].phase = "done"
                          /\ call'[c].result = "ok" =>
          {a.path : a \in call'[c].answer} =
              {q \in Nodes(data) : /\ data[q] # DIR
                                   /\ \E n \in 0..Len(q) : StandsFor(FullPath(call[c].req), SubSeq(q, 1, n))}]_vars
=============================================================================
