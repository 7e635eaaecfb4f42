---------------------------- MODULE MCCacheFiles ----------------------------
(* Small instances of CacheFiles for TLC: two of the three workers are given *)
(* the same temporary path, two of them (not the same two) one request.      *)
EXTENDS CacheFiles

CONSTANTS Lone, Odd

TemporaryPaths == [w \in Workers |-> IF w = Lone THEN "tmp.2.0" ELSE "tmp.1.0"]
Requests == [w \in Workers |-> IF w = Odd THEN "stale" ELSE "current"]
=============================================================================
