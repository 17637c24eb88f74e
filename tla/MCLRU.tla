-------------------------------- MODULE MCLRU --------------------------------
(* An instance of LRUCache: paths of two servers, and one that none has.   *)
EXTENDS LRUCache

MCIndex == [k \in Key |-> CASE k \in {"a", "d"} -> "s0"
                            [] k = "b" -> "s1"
                            [] OTHER -> NoValue]
=============================================================================
