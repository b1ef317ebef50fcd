------------------------------- MODULE XPath -------------------------------
(***************************************************************************)
(* The path library (utilities/xpath): string paths, gNMI paths and what   *)
(* converts one into the other.                                            *)
(*                                                                         *)
(* A string is a sequence of characters of the alphabet below: letters     *)
(* stand for all that YANG identifiers begin with, and every character     *)
(* that the parser tells apart is there.  A gNMI path element is           *)
(* [name, key] with key = NoKey for a nil map; a Go map is a function.     *)
(* Results that may be an error are [ok |-> FALSE, val |-> <<>>].          *)
(***************************************************************************)
EXTENDS Integers, Sequences, FiniteSets, SequencesExt

Letters == {"a", "b", "k"}
Specials == {"/", "[", "]", "\\", "=", "."}
NoKey == <<>>

Fine(v) == [ok |-> TRUE, val |-> v]
Error == [ok |-> FALSE, val |-> <<>>]

\* Applies an operator that may fail to each element, the first error wins.
TryAll(Op(_), seq) ==
    LET r == [i \in DOMAIN seq |-> Op(seq[i])]
    IN  IF \A i \in DOMAIN r : r[i].ok
        THEN Fine([i \in DOMAIN r |-> r[i].val]) ELSE Error

-----------------------------------------------------------------------------
(* Parsing *)

\* idRe
IsIdentifier(s) ==
    /\ s # <<>>
    /\ Head(s) \in Letters
    /\ \A i \in DOMAIN s : s[i] \in Letters \cup {"."}

\* Character c at i, without a backslash before it.
Unescaped(s, i, c) == s[i] = c /\ (i = 1 \/ s[i - 1] # "\\")

Separates(s, i, inside) == s[i] = "/" /\ ~inside

splitPath(str) ==
    LET s == Append(str, "/")
        Step(acc, i) ==
            IF Separates(s, i, acc.inside)
            THEN [acc EXCEPT !.path = IF acc.elem = <<>> THEN @ ELSE Append(@, acc.elem),
                             !.elem = <<>>]
            ELSE [acc EXCEPT !.elem = Append(@, s[i]),
                             !.inside = IF @ THEN ~Unescaped(s, i, "]")
                                             ELSE Unescaped(s, i, "[")]
        end == FoldLeftDomain(Step, [path |-> <<>>, elem |-> <<>>, inside |-> FALSE], s)
    IN  IF end.inside THEN Error ELSE Fine(end.path)

\* Defect: the backslashes stay in the value.
KeepsEscapes(val) == val

\* strings.Replace of the escaped brackets.
Unescape(val) ==
    LET kept == {i \in DOMAIN val : ~(/\ val[i] = "\\"
                                      /\ i < Len(val)
                                      /\ val[i + 1] \in {"[", "]"})}
    IN  [n \in 1..Cardinality(kept) |->
            val[CHOOSE i \in kept : Cardinality({j \in kept : j <= i}) = n]]

\* "[key=value]" as a function of one key: kvRe, then the first "=".
KeyValue(s) ==
    LET eq == SelectInSeq(s, LAMBDA c : c = "=")
    IN  IF /\ s[1] = "[" /\ s[Len(s)] = "]"
           /\ eq > 0 /\ eq < Len(s) - 1
           /\ IsIdentifier(SubSeq(s, 2, eq - 1))
        THEN Fine([k \in {SubSeq(s, 2, eq - 1)} |-> Unescape(SubSeq(s, eq + 1, Len(s) - 1))])
        ELSE Error

\* A later pair of the same key wins.
parseKeyValueString(str) ==
    LET Step(acc, i) ==
            CASE Unescaped(str, i, "[") -> [acc EXCEPT !.depth = @ + 1]
              [] Unescaped(str, i, "]") /\ acc.depth > 1 -> [acc EXCEPT !.depth = @ - 1]
              [] Unescaped(str, i, "]") /\ acc.depth = 1 ->
                     LET kv == KeyValue(SubSeq(str, acc.begin, i))
                     IN  [depth |-> 0, begin |-> i + 1, ok |-> acc.ok /\ kv.ok,
                          pairs |-> IF kv.ok THEN kv.val @@ acc.pairs ELSE acc.pairs]
              [] Unescaped(str, i, "]") /\ acc.depth = 0 -> [acc EXCEPT !.ok = FALSE]
              [] OTHER -> acc
        end == FoldLeftDomain(Step, [depth |-> 0, begin |-> 1, ok |-> TRUE, pairs |-> <<>>], str)
    IN  IF end.ok /\ end.begin > Len(str) THEN Fine(end.pairs) ELSE Error

\* The parts of an element: its name, and its keys if it has some.
parseElement(elem) ==
    LET bracket == SelectInSeq(elem, LAMBDA c : c = "[")
        list == SubSeq(elem, 1, bracket - 1)
        keys == parseKeyValueString(SubSeq(elem, bracket, Len(elem)))
    IN  IF bracket = 0
        THEN IF \/ IsIdentifier(elem)
                \/ elem \in {<<".">>, <<".", ".">>}
                \/ SelectInSeq(elem, LAMBDA c : c = "=") > 1
             THEN Fine([name |-> elem, key |-> NoKey]) ELSE Error
        ELSE IF IsIdentifier(list) /\ keys.ok
             THEN Fine([name |-> list, key |-> keys.val]) ELSE Error

ParseStringPath(str) ==
    LET elems == splitPath(str)
    IN  IF elems.ok THEN TryAll(parseElement, elems.val) ELSE Error

\* The two errors about key-value lists without a name of their own do not
\* occur: parseElement returns a key-value list only behind its name.
ToGNMIPath(str) == ParseStringPath(str)

SlicePathToGNMIPath(slice) ==
    LET parts == TryAll(ParseStringPath, slice)
    IN  IF parts.ok THEN Fine(FlattenSeq(parts.val)) ELSE Error

Names(elems) == [i \in DOMAIN elems |-> elems[i].name]
HasKeys(elem) == elem.key # NoKey

Join(strs) == FlattenSeq([i \in DOMAIN strs |-> <<"/">> \o strs[i]])

\* Defect: the joined names lack the leading slash.
SchemaPathNoRoot(str) ==
    LET p == ParseStringPath(str)
    IN  IF p.ok THEN Fine(IF p.val = <<>> THEN <<>> ELSE Tail(Join(Names(p.val)))) ELSE Error

ToSchemaPath(str) ==
    LET p == ParseStringPath(str)
    IN  IF p.ok THEN Fine(Join(Names(p.val))) ELSE Error

\* With whether the slice was a schema path already.
ToSchemaSlicePath(slice) ==
    LET p == SlicePathToGNMIPath(slice)
    IN  IF p.ok
        THEN <<Fine(Names(p.val)), \A i \in DOMAIN p.val : ~HasKeys(p.val[i])>>
        ELSE <<Error, FALSE>>

-----------------------------------------------------------------------------
(* The lookup of a schema entry walks the string on its own. *)

\* Defect: the brackets of a key are taken for part of the path.
LookupKeepsKey(str, acc, i) ==
    IF Unescaped(str, i, "]") THEN [acc EXCEPT !.depth = @ - 1] ELSE acc

\* A closing bracket: what follows it begins the next name.
LookupEndsKey(str, acc, i) ==
    IF Unescaped(str, i, "]") THEN [acc EXCEPT !.depth = @ - 1, !.begin = i + 1] ELSE acc

\* The names that are looked up one below the other, in a schema that has an
\* entry for every identifier.  A second pair of brackets behind a name looks
\* up the empty name, which no schema has.
FindSchemaByRelativeXPath(str) ==
    LET Look(acc, i) ==
            LET name == SubSeq(str, acc.begin, i - 1)
            IN  [acc EXCEPT !.names = Append(@, name), !.ok = @ /\ IsIdentifier(name),
                            !.begin = i + 1]
        Step(acc, i) ==
            CASE i = 1 -> [acc EXCEPT !.ok = str[1] \notin {"[", "]"},
                                      !.begin = IF str[1] = "/" THEN 2 ELSE 1]
              [] i > 1 /\ str[i] = "/" /\ acc.depth <= 0 ->
                     IF acc.begin < i THEN Look(acc, i) ELSE [acc EXCEPT !.begin = @ + 1]
              [] i > 1 /\ Unescaped(str, i, "[") -> [Look(acc, i) EXCEPT !.depth = @ + 1]
              [] OTHER -> LookupEndsKey(str, acc, i)
        end == FoldLeftDomain(Step, [names |-> <<>>, ok |-> TRUE, begin |-> 1, depth |-> 0], str)
        last == IF end.begin <= Len(str) THEN Look(end, Len(str) + 1) ELSE end
    IN  IF last.ok THEN Fine(last.names) ELSE Error

-----------------------------------------------------------------------------
(* Formatting: the keys come in the order of a Go map, which is any order. *)

\* Defect: the key values are written between one pair of brackets.
OneBracket(elem) ==
    {elem.name \o <<"[">> \o Tail(FlattenSeq([i \in DOMAIN order |->
                       <<"[">> \o order[i] \o <<"=">> \o elem.key[order[i]]])) \o <<"]">> :
        order \in SetToSeqs(DOMAIN elem.key)}

KeyedElem(elem) ==
    {elem.name \o FlattenSeq([i \in DOMAIN order |->
                       <<"[">> \o order[i] \o <<"=">> \o elem.key[order[i]] \o <<"]">>]) :
        order \in SetToSeqs(DOMAIN elem.key)}

ElemStrings(elem) == IF HasKeys(elem) THEN KeyedElem(elem) ELSE {elem.name}

\* The strings that PathElemToXPATH may return.
PathElemToXPATH(elems, schemaPath) ==
    IF schemaPath THEN {Join(Names(elems))}
    ELSE LET choices == [DOMAIN elems -> UNION {ElemStrings(elems[i]) : i \in DOMAIN elems}]
         IN  {Join(c) : c \in {f \in choices : \A i \in DOMAIN elems : f[i] \in ElemStrings(elems[i])}}

\* The strings that ToXPath may return.
ToXPath(elems) == PathElemToXPATH(elems, FALSE)

-----------------------------------------------------------------------------
(* gNMI paths *)

IsSchemaPath(elems) ==
    \A i \in DOMAIN elems : HasKeys(elems[i]) =>
        \A k \in DOMAIN elems[i].key : elems[i].key[k] = <<"*">>

\* Defect: a dot is an element like any other.
DotStays(merged, elem) ==
    IF elem.name = <<".", ".">> THEN SubSeq(merged, 1, Len(merged) - 1)
    ELSE Append(merged, elem)

MergeElem(merged, elem) ==
    CASE elem.name = <<".">>      -> merged
      [] elem.name = <<".", ".">> -> SubSeq(merged, 1, Len(merged) - 1)
      [] OTHER                    -> Append(merged, elem)

\* mergedPath[:max-1] of an empty slice: the test max < 0 is never true and
\* the program panics.
mergePaths(absElems, relElems) ==
    LET Step(acc, elem) ==
            IF acc.panic \/ (elem.name = <<".", ".">> /\ acc.merged = <<>>)
            THEN [acc EXCEPT !.panic = TRUE]
            ELSE [acc EXCEPT !.merged = MergeElem(acc.merged, elem)]
    IN  FoldLeft(Step, [merged |-> absElems, panic |-> FALSE], relElems)
-----------------------------------------------------------------------------
(* gNMI paths with what comes besides the elements: [target, elem, element], *)
(* elem and element are Nil or a sequence, element is the deprecated form.   *)

Nil == "nil"
EmptyPath == [target |-> "", elem |-> Nil, element |-> Nil]
Elems(path) == IF path = Nil \/ path.elem = Nil THEN <<>> ELSE path.elem

\* [path, panic]
GNMIFullPath(prefix, path) ==
    LET base == IF prefix = Nil THEN path ELSE prefix
        merge == mergePaths(Elems(prefix), Elems(path))
    IN  IF prefix = Nil \/ path = Nil \/ path.elem = Nil
        THEN [path |-> IF base = Nil THEN EmptyPath ELSE base, panic |-> FALSE]
        ELSE [path |-> [prefix EXCEPT !.elem = merge.merged], panic |-> merge.panic]

\* The prefix and a path of a request: "error", "panic" or "ok" with the path.
ValidateGNMIPath(prefix, path) ==
    LET Deprecated(p) == p # Nil /\ p.elem = Nil /\ p.element # Nil
        full == GNMIFullPath(prefix, path)
    IN  CASE Deprecated(prefix) \/ Deprecated(path) -> [res |-> "error", elem |-> <<>>]
          [] path # Nil /\ path.target # ""          -> [res |-> "error", elem |-> <<>>]
          [] full.panic                              -> [res |-> "panic", elem |-> <<>>]
          [] OTHER                                   -> [res |-> "ok", elem |-> Elems(full.path)]
=============================================================================
