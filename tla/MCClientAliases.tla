-------------------------- MODULE MCClientAliases --------------------------
(* ClientAliases on three names and two paths: two target-defined aliases   *)
(* share a path, a third one has a path that does not parse.                *)
EXTENDS ClientAliases, TLC

CONSTANTS a1, a2, a3, p1, p2

MCServerAliases == a1 :> p1 @@ a2 :> p1 @@ a3 :> BadPath

\* No two target-defined aliases share a path.
MCDistinctAliases == a1 :> p1 @@ a2 :> p2
=============================================================================
