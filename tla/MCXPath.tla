------------------------------ MODULE MCXPath ------------------------------
(***************************************************************************)
(* The path library on every string that is typed from a small set of      *)
(* fragments: a state is such a string, and each property compares what    *)
(* the library makes of it with a reference definition.                    *)
(***************************************************************************)
EXTENDS XPath

CONSTANTS
    MaxFragments  \* fragments typed behind the first one

VARIABLES text, typed

Starts == {<<>>, <<"a">>, <<"a", "[", "k", "=">>, <<"a", "[", "k", "=", "b", "]">>,
           <<"a", "/", ".", ".", "/">>}
Fragments == {<<"/">>, <<"b">>, <<".", ".">>, <<".">>, <<"[">>, <<"]">>, <<"\\">>,
              <<"=">>, <<"[", "k", "=">>, <<"[", "b", "=">>}

Init == text \in Starts /\ typed = 0

Type(f) ==
    /\ typed < MaxFragments
    /\ text' = text \o f
    /\ typed' = typed + 1

Next == \E f \in Fragments : Type(f)
Spec == Init /\ [][Next]_<<text, typed>>

-----------------------------------------------------------------------------
Brackets == {"[", "]"}
Plain(str) == \A i \in DOMAIN str : str[i] \notin Brackets \cup {"\\"}
PlainKeys(elems) ==
    \A i \in DOMAIN elems : HasKeys(elems[i]) =>
        \A k \in DOMAIN elems[i].key : Plain(elems[i].key[k])

(***************************************************************************)
(* What ToXPath makes of a path that was parsed parses to the same path    *)
(* again, in whatever order the keys of the Go map come out, as long as    *)
(* the key values hold no brackets and no backslashes.                     *)
(***************************************************************************)
FormattedParsesBack ==
    LET p == ToGNMIPath(text)
    IN  p.ok /\ PlainKeys(p.val) =>
            \A str \in ToXPath(p.val) : ToGNMIPath(str) = p

\* A key value written the way the comment of splitPath asks for.
Escaped(val) == FlattenSeq([i \in DOMAIN val |->
                    IF val[i] \in Brackets THEN <<"\\", val[i]>> ELSE <<val[i]>>])

(***************************************************************************)
(* Any text without a backslash can be the value of a list key, slashes,   *)
(* brackets and equal signs included, when its brackets are escaped: the   *)
(* two passes, one with a flag and one with a counter, find the same end   *)
(* of the key and give the text back.                                      *)
(***************************************************************************)
EscapedValueSurvives ==
    text # <<>> /\ Contains(text, "\\") = FALSE =>
        ToGNMIPath(<<"/", "a", "[", "k", "=">> \o Escaped(text) \o <<"]", "/", "b">>) =
            Fine(<<[name |-> <<"a">>, key |-> [k \in {<<"k">>} |-> text]],
                   [name |-> <<"b">>, key |-> NoKey]>>)

(***************************************************************************)
(* The ways to read a path agree: parsed whole, parsed from the slices     *)
(* that splitPath cuts, or reduced to its schema path.                     *)
(***************************************************************************)
ReadersAgree ==
    LET slices == splitPath(text)
        p == ToGNMIPath(text)
    IN  slices.ok =>
        /\ SlicePathToGNMIPath(slices.val) = p
        /\ p.ok => /\ ToSchemaSlicePath(slices.val) =
                        <<Fine(Names(p.val)), \A i \in DOMAIN p.val : ~HasKeys(p.val[i])>>
                   /\ PathElemToXPATH(p.val, TRUE) = {ToSchemaPath(text).val}

\* No key behind a key.
OneKeyEach(str) == \A i \in 1..(Len(str) - 1) : ~(Unescaped(str, i, "]") /\ str[i + 1] = "[")
\* The brackets inside key values are escaped.
Flat(str) == \A i, j \in DOMAIN str :
    i < j /\ Unescaped(str, i, "[") /\ Unescaped(str, j, "[") =>
        \E n \in i..j : Unescaped(str, n, "]")
Identifiers(elems) == \A i \in DOMAIN elems : IsIdentifier(elems[i].name)

(***************************************************************************)
(* FindSchemaByXPath, which cuts the string with a counter of its own,     *)
(* looks up exactly the names of the path that ToGNMIPath reads, escaped   *)
(* brackets and slashes in key values included, for paths whose elements   *)
(* have one key each: a reported path is never written to another node     *)
(* than the one whose schema was checked.                                  *)
(***************************************************************************)
LookupFollowsPath ==
    LET p == ToGNMIPath(text)
    IN  p.ok /\ Identifiers(p.val) /\ OneKeyEach(text) /\ Flat(text) =>
            FindSchemaByRelativeXPath(text) = Fine(Names(p.val))

\* "FindSchemaByXPath finds *yang.Entry by XPath string from root model"
\* (mo.go:88): every path that parses is found.
LookupFindsEveryPath ==
    LET p == ToGNMIPath(text)
    IN  p.ok /\ Identifiers(p.val) /\ Flat(text) => FindSchemaByRelativeXPath(text).ok

\* Elements below the root after the first n of a path.
Depth(abs, rel, n) ==
    LET ups == {i \in 1..n : rel[i].name = <<".", ".">>}
        dots == {i \in 1..n : rel[i].name = <<".">>}
    IN  Len(abs) + n - 2 * Cardinality(ups) - Cardinality(dots)

\* The elements that no later ".." takes away, in order.
Surviving(abs, rel) ==
    LET all == abs \o rel
        DepthAt(i) == IF i <= Len(abs) THEN i ELSE Depth(abs, rel, i - Len(abs))
        kept == {i \in DOMAIN all :
                    /\ i > Len(abs) => all[i].name \notin {<<".">>, <<".", ".">>}
                    /\ \A j \in i..Len(all) : DepthAt(j) >= DepthAt(i)}
    IN  [n \in 1..Cardinality(kept) |->
            all[CHOOSE i \in kept : Cardinality({j \in kept : j <= i}) = n]]

MergePrefixes == {<<>>, <<[name |-> <<"k">>, key |-> NoKey]>>,
                  <<[name |-> <<"k">>, key |-> NoKey], [name |-> <<"b">>, key |-> NoKey]>>}

(***************************************************************************)
(* Merging a relative path into a prefix keeps what no ".." took away, and *)
(* panics exactly when a ".." has nothing left to take, however deep the   *)
(* path goes afterwards.                                                   *)
(***************************************************************************)
MergeFollowsDepth ==
    LET rel == ToGNMIPath(text)
    IN  rel.ok => \A abs \in MergePrefixes :
        LET m == mergePaths(abs, rel.val)
        IN  /\ m.panic <=> \E n \in 1..Len(rel.val) : Depth(abs, rel.val, n) < 0
            /\ ~m.panic => m.merged = Surviving(abs, rel.val)

\* splitPath's comment: within a list key value "[" and an escaped "[" are
\* equivalent.
BracketNeedsNoEscape ==
    (\A i \in DOMAIN text : text[i] \notin {"]", "\\"}) /\ text # <<>> =>
        ToGNMIPath(<<"a", "[", "k", "=">> \o text \o <<"]">>).ok
=============================================================================
