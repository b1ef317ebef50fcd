------------------------------- MODULE Schema -------------------------------
(***************************************************************************)
(* The searches in the schema tree (gnmi/model/model.go, mo.go and         *)
(* utilities.go).  Some walk yang.Entry.Dir, some the Go types; they       *)
(* answer whether a path exists, and which schema or data paths a path     *)
(* with wildcards stands for.                                              *)
(*                                                                         *)
(* A path is a sequence of elements [name, key]; key is NoKey or a         *)
(* function from key names to values, "*" included.  A string path is the  *)
(* sequence it denotes, a list of paths the set of its members.            *)
(***************************************************************************)
EXTENDS Integers, FiniteSets, SequencesExt

CONSTANTS
    RootSchema,   \* the schema: Device of DeviceSchema.tla, or a part of it
    Models        \* the models of the device, which are the origins of paths

NoKey == <<>>
Elem(n) == [name |-> n, key |-> NoKey]
Keyed(n, key) == [name |-> n, key |-> key]
NoEntry == [kind |-> "none", key |-> <<>>, dir |-> <<>>]

-----------------------------------------------------------------------------
(* Lookup of one entry *)

RECURSIVE EntryBelow(_, _)
EntryBelow(entry, elems) ==
    IF elems = <<>> THEN entry
    ELSE IF Head(elems).name \in DOMAIN entry.dir
         THEN EntryBelow(entry.dir[Head(elems).name], Tail(elems)) ELSE NoEntry

FindSchemaByGNMIPath(elems) == EntryBelow(RootSchema, elems)

\* The walk over the string of a path finds no entry for an element with two
\* keys (FindSchemaByRelativeXPath of XPath.tla).
FindSchemaByXPath(elems) ==
    IF \E i \in DOMAIN elems : Cardinality(DOMAIN elems[i].key) > 1
    THEN NoEntry ELSE FindSchemaByGNMIPath(elems)

Children(entry) == DOMAIN entry.dir
IsDir(entry) == entry.kind \in {"container", "list"}
KeyNames(entry) == {entry.key[i] : i \in DOMAIN entry.key}

\* strings.Contains(entry.Key, name), where Key joins the names with spaces: a
\* part of a key name will do.
InKey(entry, name) ==
    LET Joined == FoldLeft(LAMBDA acc, k : acc \o k \o " ", "", entry.key)
    IN  \E i \in 0..(Len(Joined) - Len(name)) : SubSeq(Joined, i + 1, i + Len(name)) = name

KeyAccepted(entry, elem) == \A k \in DOMAIN elem.key : InKey(entry, k)

-----------------------------------------------------------------------------
(* Searches over yang.Entry.Dir *)

\* The children an element leads to, each with the elements left to match:
\* "..." stays for the levels below as well.
Descents(entry, elems) ==
    CASE Head(elems).name = "*"   -> Children(entry) \X {Tail(elems)}
      [] Head(elems).name = "..." -> Children(entry) \X {Tail(elems), elems}
      [] OTHER -> {n \in Children(entry) :
                      n = Head(elems).name /\ KeyAccepted(entry.dir[n], Head(elems))}
                  \X {Tail(elems)}

RECURSIVE validatePathSchema(_, _)
validatePathSchema(entry, elems) ==
    elems # <<>> => \E d \in Descents(entry, elems) :
                        validatePathSchema(entry.dir[d[1]], d[2])

ValidatePathSchema(origin, elems) ==
    origin \in Models \cup {""} /\ validatePathSchema(RootSchema, elems)

RECURSIVE findSchemaPath(_, _, _)
findSchemaPath(prefix, parent, elems) ==
    IF elems = <<>> THEN {prefix}
    ELSE UNION {findSchemaPath(Append(prefix, Elem(d[1])), parent.dir[d[1]], d[2]) :
                    d \in Descents(parent, elems)}

FindSchemaPaths(elems) == findSchemaPath(<<>>, RootSchema, elems)

\* The key names that findPaths writes: in the order of the schema, up to the
\* first one that is missing or "*".
LeadingKeys(entry, elem) ==
    {entry.key[i] : i \in {j \in DOMAIN entry.key :
        \A n \in 1..j : /\ entry.key[n] \in DOMAIN elem.key
                        /\ elem.key[entry.key[n]] # "*"}}

\* The element of child n on the way to what elems stand for.
FoundElem(entry, n, elem) ==
    IF elem.name # n THEN Elem(n)
    ELSE Keyed(n, [k \in LeadingKeys(entry, elem) |-> elem.key[k]])

RECURSIVE findPaths(_, _, _)
findPaths(prefix, parent, elems) ==
    IF elems = <<>> THEN {prefix}
    ELSE UNION {findPaths(Append(prefix, FoundElem(parent.dir[d[1]], d[1], Head(elems))),
                          parent.dir[d[1]], d[2]) : d \in Descents(parent, elems)}

FindPaths(elems) == findPaths(<<>>, RootSchema, elems)

-----------------------------------------------------------------------------
(* Searches over the Go types *)

\* getAllSchemaPaths and findSchemaPath(sp, elemname): the type of a leaf-list
\* gives its element type under any name, with the same path.
TypeDescents(entry, elems) ==
    CASE Head(elems).name = "*"   -> Children(entry) \X {Tail(elems)}
      [] Head(elems).name = "..." -> Children(entry) \X {Tail(elems), elems}
      [] OTHER -> (Children(entry) \cap {Head(elems).name}) \X {Tail(elems)}

\* Defect: an element is registered with the keys it has.
KeysGiven(entry, elem) == elem.key

\* The keys findAllPaths writes: all of the list's, or none.  Others are not
\* looked at.
KeysIfComplete(entry, elem) ==
    IF KeyNames(entry) # {} /\ KeyNames(entry) \subseteq DOMAIN elem.key
    THEN [k \in KeyNames(entry) |-> elem.key[k]] ELSE NoKey

RECURSIVE findAllPaths(_, _, _)
findAllPaths(prefix, entry, elems) ==
    CASE elems = <<>>                               -> {prefix}
      [] elems # <<>> /\ entry.kind = "leaf"        -> {}
      [] elems # <<>> /\ entry.kind = "leaf-list"   -> IF Len(elems) = 1 THEN {prefix} ELSE {}
      [] OTHER ->
            UNION {findAllPaths(
                     Append(prefix, IF d[1] = Head(elems).name
                                    THEN Keyed(d[1], KeysIfComplete(entry.dir[d[1]], Head(elems)))
                                    ELSE Elem(d[1])),
                     entry.dir[d[1]], d[2]) : d \in TypeDescents(entry, elems)}

FindAllPaths(elems) == findAllPaths(<<>>, RootSchema, elems)

SchemaOnly(path) == [i \in DOMAIN path |-> Elem(path[i].name)]

\* The same walk without keys, and the types it ends at.
findAllSchemaPaths(elems) == {SchemaOnly(p) : p \in FindAllPaths(SchemaOnly(elems))}
FindAllSchemaPaths(elems) == findAllSchemaPaths(elems)
findAllSchemaTypes(elems) == {FindSchemaByGNMIPath(p) : p \in findAllSchemaPaths(elems)}
=============================================================================
