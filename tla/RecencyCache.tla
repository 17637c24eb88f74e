---------------------------- MODULE RecencyCache ----------------------------
(***************************************************************************)
(* What findStorageServer makes of the lru array: the last lookups, most   *)
(* recent first.  A lookup that finds its key moves the entry to the       *)
(* front and answers from it; one that does not asks the trie and evicts   *)
(* the entry at the end.  The array starts full of empty entries (hash 0,  *)
(* server -1, nm.c:313-317), which no path hits.                           *)
(***************************************************************************)
EXTENDS Naturals

CONSTANTS
  CacheSize,   \* MAX_CACHE_SIZE
  Key,         \* the paths asked for (their hashes, taken as injective)
  NoKey,       \* the hash 0 of an empty entry
  Value,       \* what the trie answers: a server or -1
  NoValue      \* -1

ASSUME CacheAssumption ==
  /\ CacheSize \in Nat \ {0}
  /\ NoKey \notin Key
  /\ NoValue \in Value

Slot == 1..CacheSize
Entry == [key : Key \union {NoKey}, value : Value]
Cache == [Slot -> Entry]

EmptyCache == [i \in Slot |-> [key |-> NoKey, value |-> NoValue]]

Hits(c, k) == {i \in Slot : c[i].key = k}

(* The entry e takes the front and those before slot i move back by one.   *)
ToFront(c, i, e) ==
  [j \in Slot |-> IF j = 1 THEN e ELSE IF j <= i THEN c[j - 1] ELSE c[j]]

(* What a lookup of k answers, and the cache it leaves, if the trie would  *)
(* answer v.                                                               *)
Answer(c, k, v) ==
  IF Hits(c, k) = {} THEN v ELSE c[CHOOSE i \in Hits(c, k) : TRUE].value

AfterLookup(c, k, v) ==
  IF Hits(c, k) = {}
  THEN ToFront(c, CacheSize, [key |-> k, value |-> v])
  ELSE LET i == CHOOSE h \in Hits(c, k) : TRUE IN ToFront(c, i, c[i])
=============================================================================
