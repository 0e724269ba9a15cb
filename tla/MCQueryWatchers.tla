-------------------------- MODULE MCQueryWatchers --------------------------
(* Small instances of QueryWatchers for TLC.                               *)
EXTENDS QueryWatchers
CONSTANTS w1, w2, i1, i2

MCPolicyOf == [w \in Watchers |-> IF w = w1 THEN "andFetch" ELSE "dontFetch"]
=============================================================================
