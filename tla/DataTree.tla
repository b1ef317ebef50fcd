------------------------------ MODULE DataTree ------------------------------
(***************************************************************************)
(* The data tree of the model (the MO of gnmi/model/mo.go and              *)
(* utilities.go) over the schema of Schema.tla.                            *)
(*                                                                         *)
(* data is a function from the instance paths of the tree to their values: *)
(* DIR for a Go struct, KEY for a key leaf (its value is in the path), a   *)
(* number for any other leaf that is set.  Its domain has the root <<>>    *)
(* and the parents of its members.  A list entry is named by all its keys. *)
(* ytypes and ydb, which work on the Go structs by reflection, are seen    *)
(* through what their callers rely on.                                     *)
(***************************************************************************)
EXTENDS Schema

DIR == -1
Unset == -2          \* the value of a field that is found but not set
KEY == 0
EmptyTree == <<>> :> DIR

Nodes(data) == DOMAIN data
Parent(path) == Front(path)
ValueAt(data, path) == IF path \in Nodes(data) THEN data[path] ELSE Unset

-----------------------------------------------------------------------------
(* Reading *)

\* The entries of the list n under path.
ListEntries(data, path, n) ==
    {q \in Nodes(data) : Len(q) = Len(path) + 1 /\ IsPrefix(path, q) /\ Last(q).name = n}

\* Every field of a struct, set or not, and the entries of its lists.  The
\* elements of a leaf-list have its path: they are the leaf-list here.
getAllChildren(data, path) ==
    LET entry == FindSchemaByGNMIPath(path)
        fields == {n \in Children(entry) : entry.dir[n].kind # "list"}
    IN  IF ValueAt(data, path) # DIR THEN {}
        ELSE {Append(path, Elem(n)) : n \in fields}
             \cup UNION {ListEntries(data, path, n) : n \in Children(entry) \ fields}

\* Defect: a key "*" only matches an entry whose key is "*".
AnyEntryNoKey(elem) == elem.key = NoKey

\* One key "*" is enough for the whole list.
AnyEntry(elem) == elem.key = NoKey \/ \E k \in DOMAIN elem.key : elem.key[k] = "*"

\* The child an element names if it is set, or the entries of a list.
findChildren(data, path, elem) ==
    LET entry == FindSchemaByGNMIPath(path)
    IN  IF ValueAt(data, path) # DIR \/ elem.name \notin Children(entry) THEN {}
        ELSE IF entry.dir[elem.name].kind = "list" /\ AnyEntry(elem)
             THEN ListEntries(data, path, elem.name)
             ELSE {Append(path, elem)} \cap Nodes(data)

RECURSIVE findAllData(_, _, _)
findAllData(data, path, elems) ==
    IF elems = <<>> THEN {path}
    ELSE LET e == Head(elems)
         IN  CASE e.name = "*" ->
                    UNION {findAllData(data, q, Tail(elems)) : q \in getAllChildren(data, path)}
               [] e.name = "..." ->
                    UNION {findAllData(data, q, Tail(elems)) \cup findAllData(data, q, elems) :
                              q \in getAllChildren(data, path)}
               [] OTHER ->
                    UNION {findAllData(data, q, Tail(elems)) : q \in findChildren(data, path, e)}

\* The names before the first wildcard exist and have the keys given.
RECURSIVE KnownUntilWildcard(_, _)
KnownUntilWildcard(entry, elems) ==
    \/ elems = <<>>
    \/ Head(elems).name \in {"*", "..."}
    \/ /\ Head(elems).name \in Children(entry)
       /\ KeyAccepted(entry.dir[Head(elems).name], Head(elems))
       /\ KnownUntilWildcard(entry.dir[Head(elems).name], Tail(elems))

\* The paths of what is found below the struct at base.
Find(data, base, elems) ==
    IF KnownUntilWildcard(FindSchemaByGNMIPath(base), elems)
    THEN findAllData(data, base, elems) ELSE {}

Get(data, elems) == Find(data, <<>>, elems)

Everything == <<Elem("...")>>

\* All below the targets that are structs, and the targets that are not.
ListAll(data, base, elems) ==
    UNION {IF IsDir(FindSchemaByGNMIPath(q)) THEN Find(data, q, Everything) ELSE {q} :
              q \in Find(data, base, elems)}

-----------------------------------------------------------------------------
(* Writing *)

\* GetOrCreateNode of a struct: a list entry comes with its key leaves.
Created(data, path) ==
    IF path \in Nodes(data) THEN data
    ELSE data @@ (path :> DIR)
              @@ [q \in {Append(path, Elem(k)) : k \in DOMAIN Last(path).key} |-> KEY]

\* An element ytypes can create under a struct: all keys of a list, no others.
Creatable(parent, elem) ==
    elem.name \in Children(parent) /\ DOMAIN elem.key = KeyNames(parent.dir[elem.name])

\* Walks down to the first leaf, creating what is missing, and writes value
\* there; what was created stays when a later element or the value is refused.
\* value is never empty: the element after a leaf-list is not taken for one.
WriteStringValue(data, path, value, converts) ==
    LET Step(acc, i) ==
            LET here == SubSeq(path, 1, i)
            IN  CASE acc.done -> acc
                  [] ~acc.done /\ ~Creatable(acc.entry, path[i]) ->
                        [acc EXCEPT !.done = TRUE, !.ok = FALSE]
                  [] OTHER ->
                     LET child == acc.entry.dir[path[i].name]
                     IN  IF IsDir(child)
                         THEN [acc EXCEPT !.data = Created(acc.data, here), !.entry = child]
                         ELSE [acc EXCEPT !.data = IF converts THEN (here :> value) @@ @ ELSE @,
                                          !.done = TRUE, !.ok = converts]
        start == [data |-> data, entry |-> RootSchema, done |-> FALSE, ok |-> TRUE]
        end == FoldLeftDomain(Step, start, path)
    IN  [data |-> end.data, ok |-> end.ok]

\* Defect: only list entries are spared.
SparesEntries(path) == DOMAIN Last(path).key # {}

\* A leaf whose name is part of the key string of its list is spared.
SparedByDelete(path) == InKey(FindSchemaByGNMIPath(Parent(path)), Last(path).name)

DeleteValue(data, path) ==
    IF path = <<>> \/ FindSchemaByGNMIPath(path) = NoEntry \/ SparedByDelete(path)
    THEN data
    ELSE [q \in {p \in Nodes(data) : ~IsPrefix(path, p)} |-> data[q]]

FindValue(data, path) == ValueAt(data, path)

-----------------------------------------------------------------------------
(* Internal JSON: a scalar below object keys, where the keys of a list      *)
(* entry are one object key, the words of its key values.                   *)

RECURSIVE Words(_)
Words(value) ==
    IF \E i \in 1..Len(value) : SubSeq(value, i, i) = " "
    THEN LET i == CHOOSE j \in 1..Len(value) :
                      SubSeq(value, j, j) = " " /\ \A n \in 1..(j - 1) : SubSeq(value, n, n) # " "
         IN  <<SubSeq(value, 1, i - 1)>> \o Words(SubSeq(value, i + 1, Len(value)))
    ELSE <<value>>

\* The object keys that lead to a node in the JSON that is written for a tree.
JSONKeys(path) ==
    FlattenSeq([i \in DOMAIN path |->
        LET entry == FindSchemaByGNMIPath(SubSeq(path, 1, i))
        IN  IF entry.kind = "list"
            THEN << <<path[i].name>>,
                    FlattenSeq([j \in DOMAIN entry.key |-> Words(path[i].key[entry.key[j]])]) >>
            ELSE << <<path[i].name>> >>])

\* Defect: the key values of an entry are taken for a name of their own.
KeysNotSkipped(entry) == 1

\* The object keys one element of the path takes.
KeysTaken(entry) == IF entry.kind = "list" THEN 2 ELSE 1

\* The path unmarshalInternalJSON writes the scalar to; <<>> is an error.
RECURSIVE JSONPath(_, _, _)
JSONPath(entry, path, keys) ==
    IF keys = <<>> THEN path
    ELSE LET n == keys[1][1]
         IN  IF n \notin Children(entry) THEN <<>>
             ELSE LET child == entry.dir[n]
                      rest == SubSeq(keys, KeysTaken(child) + 1, Len(keys))
                  IN  IF child.kind # "list" THEN JSONPath(child, Append(path, Elem(n)), rest)
                      ELSE IF Len(keys) < 2 \/ Len(keys[2]) # Len(child.key) THEN <<>>
                      ELSE JSONPath(child,
                             Append(path, Keyed(n, [k \in KeyNames(child) |->
                                 keys[2][CHOOSE j \in DOMAIN child.key : child.key[j] = k]])),
                             rest)

\* UnmarshalInternalJSON of scalars given as pairs of keys and value, in the
\* order of the Go maps; the first that fails ends it.
unmarshalInternalJSON(data, scalars) ==
    LET Step(acc, s) ==
            LET path == JSONPath(RootSchema, <<>>, s[1])
            IN  IF ~acc.ok \/ path = <<>> THEN [acc EXCEPT !.ok = FALSE]
                ELSE WriteStringValue(acc.data, path, s[2], TRUE)
    IN  FoldLeft(Step, [data |-> data, ok |-> TRUE], scalars)
=============================================================================
