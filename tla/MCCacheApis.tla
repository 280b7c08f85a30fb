---------------------------- MODULE MCCacheApis -----------------------------
(* Small instances of CacheApis for TLC. *)
EXTENDS CacheApis

CONSTANTS a, c1, c2

PA       == <<a>>
OnlyA    == {PA}
OnlyName == {a}
Clients  == {c1, c2}

AnyCall == [r \in Request |-> Op]

(* Between two reads of one client the other one removes a path that it,   *)
(* or a Java thread, has added; unless it has stopped the cache before.    *)
RemoveBetweenReads ==
  <<{c1} \X {"AddPathToCache", "GetChildren", "Stop"},
    {c2} \X {"GetData"},
    {c1} \X {"RemovePathFromCache"},
    {c2} \X {"Find"}>>

AddsAndRemoves == [n \in Ask |-> {c1} \X {"AddPathToCache", "RemovePathFromCache"}]
=============================================================================
