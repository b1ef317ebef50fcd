------------------------------ MODULE MCSchema ------------------------------
(***************************************************************************)
(* Every node of the device schema, with a data tree that holds it and the *)
(* requests that stand for it: a walk down the schema that picks, level by *)
(* level, the element of the data and how the request writes it.           *)
(***************************************************************************)
EXTENDS DataTree

CONSTANTS
    MaxWild,     \* elements of a request that are not the element of the data
    KeyValues    \* the values of the first and of the second key of a list

VARIABLES
    inst,      \* the path of the node in the data
    req,       \* the request
    wild       \* the elements spent on wildcards

vars == <<inst, req, wild>>

Generated == INSTANCE DeviceSchema
Device == Generated!Device
DeviceModels == Generated!ModelData

PlainKeys == <<"v", "w">>
SpacedKeys == <<"a b", "w">>

KeyOf(entry) ==
    [k \in KeyNames(entry) |-> KeyValues[CHOOSE i \in DOMAIN entry.key : entry.key[i] = k]]

\* The ways to write an element of the data: without keys, with one of its
\* keys, or with "*" for its keys or for its name.
WrittenAs(elem) ==
    ({Elem(elem.name), Elem("*"), Keyed(elem.name, [k \in DOMAIN elem.key |-> "*"])}
     \cup {Keyed(elem.name, k :> elem.key[k]) : k \in DOMAIN elem.key}) \ {elem}

EndsDeep == req # <<>> /\ Last(req).name = "..."

Init == inst = <<>> /\ req = <<>> /\ wild = 0

\* One level down; "..." takes one or more levels.
Descend(n) ==
    LET entry == FindSchemaByGNMIPath(inst).dir[n]
        elem == Keyed(n, KeyOf(entry))
    IN  /\ inst' = Append(inst, elem)
        /\ \/ req' = Append(req, elem) /\ wild' = wild
           \/ /\ wild < MaxWild
              /\ \E w \in WrittenAs(elem) \cup {Elem("...")} : req' = Append(req, w)
              /\ wild' = wild + 1
           \/ EndsDeep /\ UNCHANGED <<req, wild>>

Next == \E n \in Children(FindSchemaByGNMIPath(inst)) : Descend(n)

Spec == Init /\ [][Next]_vars

-----------------------------------------------------------------------------
IsLeaf == ~IsDir(FindSchemaByGNMIPath(inst))
Written == WriteStringValue(EmptyTree, inst, 1, TRUE).data

\* p stands for q: the same names, and no other keys.
Covers(p, q) ==
    /\ Len(p) = Len(q)
    /\ \A i \in DOMAIN p : /\ p[i].name = q[i].name
                           /\ \A k \in DOMAIN p[i].key : p[i].key[k] = q[i].key[k]

Starred(elem) == \E k \in DOMAIN elem.key : elem.key[k] = "*"
KeyMissing == \E i \in DOMAIN req : /\ req[i].key # NoKey
                                    /\ ~Starred(req[i])
                                    /\ req[i] \notin ToSet(inst)

\* A node that was written (WriteStringValue) is found by every request that
\* stands for it (MO.Find, ListAll), and the schema searches that validate the
\* request and choose what to synchronise for it (ValidatePathSchema,
\* FindPaths, FindAllSchemaPaths) know that it stands for the node.  ydb finds
\* no entry by a part of its keys.
WrittenIsFound ==
    /\ inst \in Get(Written, req) <=> ~KeyMissing
    /\ IsLeaf => /\ FindValue(Written, inst) = 1
                 /\ \A n \in DOMAIN inst : inst \in ListAll(Written, <<>>, SubSeq(inst, 1, n))
    /\ ValidatePathSchema("", req)
    /\ SchemaOnly(inst) \in FindSchemaPaths(req)
    /\ SchemaOnly(inst) \in FindAllSchemaPaths(req)
    /\ \E p \in FindPaths(req) : Covers(p, inst)

\* The subscriptions whose paths are written the way a change is looked up:
\* with the keys of the data, or with all keys of no list.
KeysAsLookedUp ==
    /\ \A i \in DOMAIN req : ~Starred(req[i])
    /\ \/ [i \in DOMAIN req |-> req[i].key] = [i \in DOMAIN inst |-> inst[i].key]
       \/ \A i \in DOMAIN req : req[i].key = NoKey \/ req[i] \notin ToSet(inst)

\* A change is looked up by its path and by its schema path (ChangeCreated).
\* teleCtrl.register has registered one of the two for every such subscription
\* that stands for the changed node.
ChangeIsRegistered ==
    KeysAsLookedUp => FindAllPaths(req) \cap {inst, SchemaOnly(inst)} # {}

\* The same without the condition, which fails for a key "*" and for a
\* subscription with the keys of one list and not of another.
EveryChangeIsRegistered == FindAllPaths(req) \cap {inst, SchemaOnly(inst)} # {}

\* MO.DeleteValue spares the leaves whose names are part of the key string of
\* their list.  In the whole schema of the device these are the keys alone:
\* every other node that is written can be deleted, and with it what is below.
DeleteSparesOnlyKeys ==
    inst # <<>> =>
        LET parent == FindSchemaByGNMIPath(Parent(inst))
        IN  inst \in Nodes(DeleteValue(Written, inst)) <=> Last(inst).name \in KeyNames(parent)

\* The internal JSON of a leaf (unmarshalInternalJSON) is read back to the tree
\* that holds the leaf; not so when a key value of its lists has a space.
JSONReadsBack ==
    IsLeaf => unmarshalInternalJSON(EmptyTree, << <<JSONKeys(inst), 1>> >>)
                  = [data |-> Written, ok |-> TRUE]
=============================================================================
