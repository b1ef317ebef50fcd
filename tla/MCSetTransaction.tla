-------------------------- MODULE MCSetTransaction --------------------------
(* SetTransaction on a container with two leaves, one with a single leaf,   *)
(* and a read-only leaf whose refusal makes a Set fail.                     *)
EXTENDS SetTransaction

CONSTANTS c, d, s, x, y, z, r

MCDirOf == [l \in Leaves |-> IF l = r THEN s ELSE IF l = z THEN d ELSE c]
=============================================================================
