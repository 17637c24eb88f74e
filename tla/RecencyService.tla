--------------------------- MODULE RecencyService ---------------------------
(***************************************************************************)
(* The abstract cache of lookups: one lookup after the other, each of them *)
(* done at once on a list of the last paths asked for.                     *)
(***************************************************************************)
EXTENDS RecencyCache

CONSTANT Index    \* what search_trie answers for each path

VARIABLES
  cache,   \* the last lookups, most recent first
  answer   \* the last answer

vars == <<cache, answer>>

Init == cache = EmptyCache /\ answer = NoValue

Lookup(k) == /\ answer' = Answer(cache, k, Index[k])
             /\ cache' = AfterLookup(cache, k, Index[k])

Next == \E k \in Key : Lookup(k)

Spec == Init /\ [][Next]_vars
=============================================================================
