------------------------- MODULE MCScakkaZooCache ---------------------------
(* Small instances of ScakkaZooCache for TLC. *)
EXTENDS ScakkaZooCache

CONSTANTS a, b

AB  == {a, b}
PA  == <<a>>
PAB == <<a, b>>

Chain     == {PA, PAB}
FromRoot  == {Root, PA}
OnlyA     == {PA}
Fork      == {PA, PAB, <<a, a>>}

AddThenAny == [r \in Request |-> IF r = 1 THEN {"addPathToCache"} ELSE Op]
AddsOnly   == [r \in Request |-> {"addPathToCache"}]
AddRemoveAdd ==
  [r \in Request |-> IF r = 2 THEN {"removePathFromCache"} ELSE {"addPathToCache"}]
=============================================================================
