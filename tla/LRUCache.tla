------------------------------- MODULE LRUCache -------------------------------
(***************************************************************************)
(* findStorageServer on the lru array, write by write                      *)
(* (src/NamingServer/nm_helper.c:329-362, nm.c:313-317).                   *)
(*                                                                         *)
(* The array is in no order: each entry has a rank that every lookup adds  *)
(* one to, and a lookup sets to 0 the rank of the entry that it hits or    *)
(* replaces.  The client threads share the array without a lock; a step    *)
(* is one access of it.  (Adding to all the ranks is one step: the other   *)
(* threads read them only to find the greatest.)                           *)
(***************************************************************************)
EXTENDS RecencyCache, Integers, FiniteSets

CONSTANTS
  Thread,      \* the client threads
  Index,       \* what search_trie answers for each path
  EmptyRank,   \* the rank of the empty entries at the start, 1e9
  MaxRank      \* bound: no lookup starts when a rank has reached it

ASSUME LRUAssumption ==
  /\ Index \in [Key -> Value]
  /\ EmptyRank \in Nat /\ MaxRank \in Nat

VARIABLES
  lru,       \* the array: pathHash, serverID and rank of each entry
  pc,        \* where each thread is
  path,      \* the path it looks up
  i,         \* its loop variable
  maxRank,   \* the greatest rank it has seen
  victim,    \* maxRankIdx, the first slot with that rank (0 is the code's -1);
             \* in the end the slot whose server is returned
  answer     \* what findStorageServer returned last

vars == <<lru, pc, path, i, maxRank, victim, answer>>

(* "scan" in the loop (343-353); "claimed" the slot has the new hash and   *)
(* rank 0, serverID is still the old one; "filled" about to read serverID.  *)
Location == {"idle", "scan", "claimed", "filled"}

TypeOK ==
  /\ lru \in [Slot -> [key : Key \union {NoKey}, value : Value, rank : Nat]]
  /\ pc \in [Thread -> Location]
  /\ path \in [Thread -> Key \union {NoKey}]
  /\ i \in [Thread -> 1..CacheSize + 1]
  /\ maxRank \in [Thread -> Int]
  /\ victim \in [Thread -> Slot \union {0}]
  /\ answer \in [Thread -> Value]
  /\ \A t \in Thread : pc[t] \in {"claimed", "filled"} => victim[t] \in Slot

(* maxRank before the loop; a slip: the rank of an empty entry.            *)
RankOfEmpty == EmptyRank + CacheSize
NoRank == -1

Init ==
  /\ lru = [s \in Slot |-> [key |-> NoKey, value |-> NoValue, rank |-> EmptyRank]]
  /\ pc = [t \in Thread |-> "idle"]
  /\ path = [t \in Thread |-> NoKey]
  /\ i = [t \in Thread |-> 1]
  /\ maxRank = [t \in Thread |-> NoRank]
  /\ victim = [t \in Thread |-> 0]
  /\ answer = [t \in Thread |-> NoValue]

-----------------------------------------------------------------------------
(* The hash and the first loop.                                            *)
Look(t, k) ==
  /\ pc[t] = "idle"
  /\ \A s \in Slot : lru[s].rank < MaxRank
  /\ lru' = [s \in Slot |-> [lru[s] EXCEPT !.rank = @ + 1]]
  /\ path' = [path EXCEPT ![t] = k]
  /\ i' = [i EXCEPT ![t] = 1]
  /\ maxRank' = [maxRank EXCEPT ![t] = NoRank]
  /\ victim' = [victim EXCEPT ![t] = 0]
  /\ pc' = [pc EXCEPT ![t] = "scan"]
  /\ UNCHANGED answer

Scanning(t) == pc[t] = "scan" /\ i[t] \in Slot

(* A slip: a hit does not make the entry recent.                           *)
HitKeepsRank(t) ==
  /\ Scanning(t) /\ lru[i[t]].key = path[t]
  /\ victim' = [victim EXCEPT ![t] = i[t]]
  /\ pc' = [pc EXCEPT ![t] = "filled"]
  /\ UNCHANGED <<lru, path, i, maxRank, answer>>

(* The entry is in the LRU.                                                *)
Hit(t) ==
  /\ Scanning(t) /\ lru[i[t]].key = path[t]
  /\ lru' = [lru EXCEPT ![i[t]].rank = 0]
  /\ victim' = [victim EXCEPT ![t] = i[t]]
  /\ pc' = [pc EXCEPT ![t] = "filled"]
  /\ UNCHANGED <<path, i, maxRank, answer>>

Pass(t) ==
  LET s == i[t]
  IN /\ Scanning(t) /\ lru[s].key # path[t]
     /\ i' = [i EXCEPT ![t] = s + 1]
     /\ IF maxRank[t] < lru[s].rank
        THEN /\ maxRank' = [maxRank EXCEPT ![t] = lru[s].rank]
             /\ victim' = [victim EXCEPT ![t] = s]
        ELSE UNCHANGED <<maxRank, victim>>
     /\ UNCHANGED <<lru, pc, path, answer>>

(* A miss: the hash and the rank are written first.                        *)
Claim(t) ==
  /\ pc[t] = "scan" /\ i[t] = CacheSize + 1
  /\ lru' = [lru EXCEPT ![victim[t]] = [@ EXCEPT !.key = path[t], !.rank = 0]]
  /\ pc' = [pc EXCEPT ![t] = "claimed"]
  /\ UNCHANGED <<path, i, maxRank, victim, answer>>

(* A slip: the search is left out when the entry already names a server.   *)
FillIfEmpty(t) ==
  /\ pc[t] = "claimed"
  /\ lru' = [lru EXCEPT ![victim[t]].value = IF @ = NoValue THEN Index[path[t]] ELSE @]
  /\ pc' = [pc EXCEPT ![t] = "filled"]
  /\ UNCHANGED <<path, i, maxRank, victim, answer>>

(* Then the answer of the trie.                                            *)
Fill(t) ==
  /\ pc[t] = "claimed"
  /\ lru' = [lru EXCEPT ![victim[t]].value = Index[path[t]]]
  /\ pc' = [pc EXCEPT ![t] = "filled"]
  /\ UNCHANGED <<path, i, maxRank, victim, answer>>

Return(t) ==
  /\ pc[t] = "filled"
  /\ answer' = [answer EXCEPT ![t] = lru[victim[t]].value]
  /\ pc' = [pc EXCEPT ![t] = "idle"]
  /\ UNCHANGED <<lru, path, i, maxRank, victim>>

Next == \E t \in Thread :
          \/ \E k \in Key : Look(t, k)
          \/ Hit(t) \/ Pass(t) \/ Claim(t) \/ Fill(t) \/ Return(t)

Spec == Init /\ [][Next]_vars

-----------------------------------------------------------------------------
(* Recency: the smaller the rank, the more recent; of the empty entries,   *)
(* which tie, the first is taken first, so it is the oldest.               *)
Newer(a, b) == \/ lru[a].rank < lru[b].rank
               \/ lru[a].rank = lru[b].rank /\ a >= b

SlotAt(n) == CHOOSE s \in Slot : Cardinality({a \in Slot : Newer(a, s)}) = n

(* An entry counts as complete from the moment its slot is claimed.        *)
Claimant(s) == {t \in Thread : pc[t] = "claimed" /\ victim[t] = s}
ServerAt(s) == IF Claimant(s) = {} THEN lru[s].value
               ELSE Index[path[CHOOSE t \in Claimant(s) : TRUE]]
Answered(t) == IF pc[t] \in {"claimed", "filled"} THEN Index[path[t]] ELSE answer[t]

List == INSTANCE RecencyService
          WITH cache <- [n \in Slot |-> [key |-> lru[SlotAt(n)].key, value |-> ServerAt(SlotAt(n))]],
               answer <- Answered(CHOOSE t \in Thread : TRUE)

(* For one thread the ranks are a list of the last paths asked for: a hit  *)
(* moves its entry to the front, a miss evicts the oldest (structs.h:103). *)
RecencyList == List!Spec

(* A lookup returns "the storage server idx given the path"                *)
(* (nm_helper.c:321-328), not that of another path or of an empty entry.   *)
AnswersItsPath ==
  \A t \in Thread : pc[t] = "idle" /\ path[t] # NoKey => answer[t] = Index[path[t]]
=============================================================================
