------------------------------ MODULE LRUProofs ------------------------------
(***************************************************************************)
(* The array of recent lookups for any paths, sizes and threads: types     *)
(* whatever the threads do to each other, and right answers when there is  *)
(* one thread.                                                             *)
(***************************************************************************)
EXTENDS LRUCache, FiniteSetTheorems, TLAPS

(* A thread that passed a slot has a victim: every rank is above NoRank.   *)
Chosen ==
  \A t \in Thread :
    /\ pc[t] # "idle" => path[t] \in Key
    /\ pc[t] = "scan" /\ victim[t] = 0 => i[t] = 1 /\ maxRank[t] = NoRank

TInv == TypeOK /\ Chosen

LEMMA TInit == Init => TInv
  BY LRUAssumption, CacheAssumption DEF Init, TInv, TypeOK, Chosen, Location, NoRank, Slot

LEMMA LookTypes ==
  ASSUME TInv, NEW t \in Thread, NEW k \in Key, Look(t, k)
  PROVE  TInv'
<1>1. lru' \in [Slot -> [key : Key \union {NoKey}, value : Value, rank : Nat]]
  BY SMTT(30) DEF TInv, TypeOK, Look
<1>2. /\ path' \in [Thread -> Key \union {NoKey}] /\ i' \in [Thread -> 1..CacheSize + 1]
      /\ maxRank' \in [Thread -> Int] /\ victim' \in [Thread -> Slot \union {0}]
      /\ pc' \in [Thread -> Location] /\ answer' \in [Thread -> Value]
      /\ path'[t] = k /\ i'[t] = 1 /\ maxRank'[t] = NoRank /\ victim'[t] = 0 /\ pc'[t] = "scan"
      /\ \A u \in Thread \ {t} : /\ path'[u] = path[u] /\ i'[u] = i[u] /\ maxRank'[u] = maxRank[u]
                                 /\ victim'[u] = victim[u] /\ pc'[u] = pc[u]
  BY CacheAssumption DEF TInv, TypeOK, Look, Location, NoRank
<1> QED
  BY <1>1, <1>2 DEF TInv, TypeOK, Chosen

LEMMA PassTypes ==
  ASSUME TInv, NEW t \in Thread, Pass(t)
  PROVE  TInv'
<1>1. i[t] \in Slot /\ i[t] + 1 \in 1..CacheSize + 1 /\ pc[t] = "scan" /\ lru[i[t]].rank \in Nat
  BY CacheAssumption DEF TInv, TypeOK, Pass, Scanning, Slot
<1>2. /\ UNCHANGED <<lru, pc, path, answer>> /\ i' = [i EXCEPT ![t] = i[t] + 1]
      /\ \/ /\ maxRank' = [maxRank EXCEPT ![t] = lru[i[t]].rank]
            /\ victim' = [victim EXCEPT ![t] = i[t]]
         \/ /\ UNCHANGED <<maxRank, victim>>
            /\ ~(maxRank[t] < lru[i[t]].rank)
  BY DEF Pass
<1>3. victim[t] = 0 => maxRank[t] < lru[i[t]].rank
  BY <1>1 DEF TInv, Chosen, NoRank
<1>4. victim'[t] # 0
  BY <1>1, <1>2, <1>3, CacheAssumption DEF TInv, TypeOK, Slot
<1>5. /\ i' \in [Thread -> 1..CacheSize + 1]
      /\ maxRank' \in [Thread -> Int] /\ victim' \in [Thread -> Slot \union {0}]
      /\ \A u \in Thread \ {t} : i'[u] = i[u] /\ maxRank'[u] = maxRank[u] /\ victim'[u] = victim[u]
  BY <1>1, <1>2 DEF TInv, TypeOK
<1> QED
  BY <1>1, <1>2, <1>4, <1>5 DEF TInv, TypeOK, Chosen

LEMMA ClaimTypes ==
  ASSUME TInv, NEW t \in Thread, Claim(t)
  PROVE  /\ TInv' /\ victim[t] \in Slot /\ path[t] \in Key
         /\ pc' = [pc EXCEPT ![t] = "claimed"] /\ UNCHANGED <<path, i, maxRank, victim, answer>>
         /\ \A s \in Slot \ {victim[t]} : lru'[s] = lru[s]
         /\ lru'[victim[t]].key = path[t] /\ lru'[victim[t]].rank = 0
         /\ lru'[victim[t]].value = lru[victim[t]].value
<1>1. /\ pc[t] = "scan" /\ i[t] # 1 /\ path[t] \in Key
      /\ UNCHANGED <<path, i, maxRank, victim, answer>> /\ pc' = [pc EXCEPT ![t] = "claimed"]
  BY CacheAssumption DEF Claim, TInv, TypeOK, Chosen, Slot
<1>2. victim[t] \in Slot
  BY <1>1 DEF TInv, TypeOK, Chosen
<1> DEFINE e == [lru[victim[t]] EXCEPT !.key = path[t], !.rank = 0]
<1>3. lru' = [lru EXCEPT ![victim[t]] = e]
  BY DEF Claim
<1>4. /\ e \in [key : Key \union {NoKey}, value : Value, rank : Nat]
      /\ e.key = path[t] /\ e.rank = 0 /\ e.value = lru[victim[t]].value
  BY <1>1, <1>2 DEF TInv, TypeOK
<1>5. /\ lru' \in [Slot -> [key : Key \union {NoKey}, value : Value, rank : Nat]]
      /\ lru'[victim[t]] = e /\ \A s \in Slot \ {victim[t]} : lru'[s] = lru[s]
  BY <1>2, <1>3, <1>4 DEF TInv, TypeOK
<1>6. pc' \in [Thread -> Location] /\ pc'[t] = "claimed" /\ \A u \in Thread \ {t} : pc'[u] = pc[u]
  BY <1>1 DEF TInv, TypeOK, Location
<1>7. TypeOK'
  BY <1>1, <1>2, <1>5, <1>6 DEF TInv, TypeOK
<1>8. Chosen'
  BY <1>1, <1>6 DEF TInv, Chosen
<1> QED
  BY <1>1, <1>2, <1>4, <1>5, <1>7, <1>8 DEF TInv

LEMMA HitTypes ==
  ASSUME TInv, NEW t \in Thread, Hit(t)
  PROVE  /\ TInv' /\ i[t] \in Slot /\ lru[i[t]].key = path[t] /\ path[t] \in Key
         /\ victim' = [victim EXCEPT ![t] = i[t]] /\ victim'[t] = i[t]
         /\ pc[t] = "scan" /\ pc' = [pc EXCEPT ![t] = "filled"] /\ pc'[t] = "filled"
         /\ UNCHANGED <<path, answer>>
         /\ \A s \in Slot : lru'[s].key = lru[s].key /\ lru'[s].value = lru[s].value
<1>1. /\ i[t] \in Slot /\ lru[i[t]].key = path[t] /\ pc[t] = "scan" /\ path[t] \in Key
      /\ lru' = [lru EXCEPT ![i[t]].rank = 0]
      /\ victim' = [victim EXCEPT ![t] = i[t]]
      /\ pc' = [pc EXCEPT ![t] = "filled"]
      /\ UNCHANGED <<path, i, maxRank, answer>>
  BY DEF Hit, Scanning, TInv, Chosen
<1>2. /\ lru' \in [Slot -> [key : Key \union {NoKey}, value : Value, rank : Nat]]
      /\ \A s \in Slot : lru'[s].key = lru[s].key /\ lru'[s].value = lru[s].value
  BY <1>1 DEF TInv, TypeOK
<1>3. /\ victim' \in [Thread -> Slot \union {0}] /\ victim'[t] = i[t]
      /\ pc' \in [Thread -> Location] /\ pc'[t] = "filled"
      /\ \A u \in Thread \ {t} : pc'[u] = pc[u] /\ victim'[u] = victim[u]
  BY <1>1 DEF TInv, TypeOK, Location
<1>4. TypeOK'
  BY <1>1, <1>2, <1>3 DEF TInv, TypeOK
<1>5. Chosen'
  BY <1>1, <1>3 DEF TInv, Chosen
<1> QED
  BY <1>1, <1>2, <1>3, <1>4, <1>5 DEF TInv

LEMMA FillTypes ==
  ASSUME TInv, NEW t \in Thread, Fill(t)
  PROVE  /\ TInv' /\ victim[t] \in Slot /\ path[t] \in Key
         /\ pc' = [pc EXCEPT ![t] = "filled"] /\ UNCHANGED <<path, i, maxRank, victim, answer>>
         /\ \A s \in Slot : /\ lru'[s].key = lru[s].key /\ lru'[s].rank = lru[s].rank
                            /\ lru'[s].value = IF s = victim[t] THEN Index[path[t]] ELSE lru[s].value
<1>1. /\ pc[t] = "claimed" /\ lru' = [lru EXCEPT ![victim[t]].value = Index[path[t]]]
      /\ pc' = [pc EXCEPT ![t] = "filled"] /\ UNCHANGED <<path, i, maxRank, victim, answer>>
      /\ victim[t] \in Slot /\ path[t] \in Key
  BY DEF Fill, TInv, TypeOK, Chosen
<1>2. Index[path[t]] \in Value
  BY <1>1, LRUAssumption
<1>3. /\ lru' \in [Slot -> [key : Key \union {NoKey}, value : Value, rank : Nat]]
      /\ \A s \in Slot : /\ lru'[s].key = lru[s].key /\ lru'[s].rank = lru[s].rank
                         /\ lru'[s].value = IF s = victim[t] THEN Index[path[t]] ELSE lru[s].value
  BY <1>1, <1>2 DEF TInv, TypeOK
<1>4. pc' \in [Thread -> Location] /\ pc'[t] = "filled" /\ \A u \in Thread \ {t} : pc'[u] = pc[u]
  BY <1>1 DEF TInv, TypeOK, Location
<1> QED
  BY <1>1, <1>3, <1>4 DEF TInv, TypeOK, Chosen

LEMMA ReturnTypes ==
  ASSUME TInv, NEW t \in Thread, Return(t)
  PROVE  TInv'
<1>1. /\ answer' = [answer EXCEPT ![t] = lru[victim[t]].value] /\ lru[victim[t]].value \in Value
      /\ pc' = [pc EXCEPT ![t] = "idle"] /\ UNCHANGED <<lru, path, i, maxRank, victim>>
  BY DEF Return, TInv, TypeOK
<1>2. answer' \in [Thread -> Value] /\ pc' \in [Thread -> Location] /\ pc'[t] = "idle"
      /\ \A u \in Thread \ {t} : pc'[u] = pc[u]
  BY <1>1 DEF TInv, TypeOK, Location
<1> QED
  BY <1>1, <1>2 DEF TInv, TypeOK, Chosen

LEMMA TStep == TInv /\ [Next]_vars => TInv'
<1>1. TInv /\ UNCHANGED vars => TInv'
  BY DEF TInv, TypeOK, Chosen, vars
<1> QED
  BY <1>1, LookTypes, PassTypes, ClaimTypes, HitTypes, FillTypes, ReturnTypes DEF Next

LEMMA LRUInvariant == Spec => []TInv
  BY TInit, TStep, PTL DEF Spec

(* However many threads scan, claim and fill the same slots, a thread that *)
(* writes writes to a slot of the array: maxRankIdx is no longer -1 after  *)
(* the loop (nm_helper.c:340-359).                                         *)
THEOREM LRUType == Spec => []TypeOK
<1>1. TInv => TypeOK
  BY DEF TInv
<1> QED
  BY <1>1, LRUInvariant, PTL

-----------------------------------------------------------------------------
(* One thread: an entry is never seen with the server of another path.     *)

Alone == \A t, u \in Thread : t = u

(* Every entry but the one that is claimed names the server of its path.   *)
Entries ==
  /\ \A s \in Slot : (\A t \in Thread : pc[t] = "claimed" => s # victim[t]) =>
       lru[s].key = NoKey \/ lru[s].value = Index[lru[s].key]
  /\ \A t \in Thread : pc[t] \in {"claimed", "filled"} => lru[victim[t]].key = path[t]

AInv == TInv /\ Entries /\ AnswersItsPath

LEMMA AStep ==
  ASSUME Alone, AInv, [Next]_vars
  PROVE  Entries' /\ AnswersItsPath'
<1>1. ASSUME UNCHANGED vars PROVE Entries' /\ AnswersItsPath'
  BY <1>1 DEF AInv, Entries, AnswersItsPath, vars
<1> SUFFICES ASSUME NEW t \in Thread, \A u \in Thread : u = t,
                    (\E k \in Key : Look(t, k)) \/ Hit(t) \/ Pass(t) \/ Claim(t) \/ Fill(t) \/ Return(t)
             PROVE  Entries' /\ AnswersItsPath'
  BY <1>1 DEF Next, Alone
<1>2. TInv /\ Entries /\ AnswersItsPath /\ TypeOK
  BY DEF AInv, TInv
<1>3. ASSUME NEW k \in Key, Look(t, k) PROVE Entries' /\ AnswersItsPath'
  <2>1. /\ pc[t] = "idle" /\ pc'[t] = "scan"
        /\ \A s \in Slot : lru'[s].key = lru[s].key /\ lru'[s].value = lru[s].value
    BY <1>2, <1>3 DEF Look, TypeOK
  <2> QED
    BY <1>2, <2>1 DEF Entries, AnswersItsPath
<1>4. CASE Pass(t)
  BY <1>2, <1>4 DEF Pass, Scanning, Entries, AnswersItsPath
<1>5. CASE Hit(t)
  <2>1. /\ pc[t] = "scan" /\ pc'[t] = "filled" /\ path' = path
        /\ victim'[t] = i[t] /\ i[t] \in Slot /\ lru[i[t]].key = path[t]
        /\ \A s \in Slot : lru'[s].key = lru[s].key /\ lru'[s].value = lru[s].value
    BY <1>2, <1>5, HitTypes
  <2>2. Entries'
    BY <1>2, <2>1 DEF Entries
  <2> QED
    BY <2>1, <2>2 DEF AnswersItsPath
<1>6. CASE Claim(t)
  <2>1. pc[t] = "scan" /\ pc'[t] = "claimed"
    BY <1>2, <1>6 DEF Claim, TypeOK
  <2> QED
    BY <1>2, <1>6, <2>1, ClaimTypes DEF Entries, AnswersItsPath
<1>7. CASE Fill(t)
  <2>1. pc[t] = "claimed" /\ pc'[t] = "filled"
    BY <1>2, <1>7 DEF Fill, TypeOK
  <2> QED
    BY <1>2, <1>7, <2>1, FillTypes DEF Entries, AnswersItsPath
<1>8. CASE Return(t)
  <2>1. /\ pc[t] = "filled" /\ pc'[t] = "idle" /\ UNCHANGED <<lru, path, victim>>
        /\ answer'[t] = lru[victim[t]].value
    BY <1>2, <1>8 DEF Return, TypeOK
  <2>2. victim[t] \in Slot /\ path[t] \in Key
    BY <1>2, <2>1 DEF TInv, TypeOK, Chosen
  <2>3. answer'[t] = Index[path[t]]
    BY <1>2, <2>1, <2>2, CacheAssumption DEF Entries
  <2> QED
    BY <1>2, <2>1, <2>3 DEF Entries, AnswersItsPath
<1> QED
  BY <1>3, <1>4, <1>5, <1>6, <1>7, <1>8

(* If there is one client thread, a lookup returns the server of the path  *)
(* it was given, not that of the entry it replaced (nm_helper.c:321-361).  *)
THEOREM LRUAnswers ==
  ASSUME Alone
  PROVE  Spec => []AnswersItsPath
<1>1. Init => AInv
  <2>1. Init => Entries /\ AnswersItsPath
    BY DEF Init, Entries, AnswersItsPath
  <2> QED
    BY <2>1, TInit DEF AInv
<1>2. AInv /\ [Next]_vars => AInv'
  BY AStep, TStep DEF AInv
<1>3. AInv => AnswersItsPath
  BY DEF AInv
<1> QED
  BY <1>1, <1>2, <1>3, PTL DEF Spec

-----------------------------------------------------------------------------
(* The order of the entries.  It depends on the ranks alone; r and q are   *)
(* the ranks of all slots at some moment.                                  *)

Ahead(r, a, b) == r[a] < r[b] \/ (r[a] = r[b] /\ a >= b)
Before(r, s) == {a \in Slot : Ahead(r, a, s)}
Position(r, s) == Cardinality(Before(r, s))
At(r, n) == CHOOSE s \in Slot : Position(r, s) = n
Ranks == [Slot -> Nat]

LEMMA SlotsFinite ==
  /\ IsFiniteSet(Slot) /\ Cardinality(Slot) = CacheSize /\ CacheSize \in Nat \ {0}
  /\ \A n \in Slot : n \in Nat /\ 1 <= n /\ n <= CacheSize
<1>1. IsFiniteSet(1..CacheSize) /\ Cardinality(1..CacheSize) = IF 1 > CacheSize THEN 0 ELSE CacheSize - 1 + 1
  BY CacheAssumption, FS_Interval
<1> QED
  BY <1>1, CacheAssumption DEF Slot

(* Positions are slots, in the order of the entries.                       *)
LEMMA PositionOrder ==
  ASSUME NEW r \in Ranks
  PROVE  /\ \A s \in Slot : Position(r, s) \in Slot
         /\ \A a, b \in Slot : Position(r, a) <= Position(r, b) <=> Ahead(r, a, b)
         /\ \A a, b \in Slot : Position(r, a) = Position(r, b) => a = b
<1>0. ASSUME NEW a \in Slot, NEW b \in Slot
      PROVE  /\ a \in Int /\ b \in Int /\ r[a] \in Nat /\ r[b] \in Nat
  BY SlotsFinite DEF Ranks
<1>1. \A s \in Slot : IsFiniteSet(Before(r, s)) /\ s \in Before(r, s)
                      /\ Position(r, s) \in Nat /\ Position(r, s) <= CacheSize
  <2> SUFFICES ASSUME NEW s \in Slot
               PROVE  IsFiniteSet(Before(r, s)) /\ s \in Before(r, s)
                      /\ Position(r, s) \in Nat /\ Position(r, s) <= CacheSize
    OBVIOUS
  <2>1. Before(r, s) \in SUBSET Slot /\ s \in Before(r, s)
    BY <1>0 DEF Before, Ahead
  <2>2. IsFiniteSet(Before(r, s)) /\ Cardinality(Before(r, s)) <= Cardinality(Slot)
    BY <2>1, SlotsFinite, FS_Subset
  <2> QED
    BY <2>1, <2>2, SlotsFinite, FS_CardinalityType DEF Position
<1>2. \A s \in Slot : Position(r, s) \in Slot
  <2> SUFFICES ASSUME NEW s \in Slot PROVE Position(r, s) \in Slot
    OBVIOUS
  <2>1. Position(r, s) # 0
    BY <1>1, FS_EmptySet DEF Position
  <2> QED
    BY <1>1, <2>1, SlotsFinite DEF Slot
<1>3. ASSUME NEW a \in Slot, NEW b \in Slot, Ahead(r, a, b), a # b
      PROVE  Position(r, a) < Position(r, b)
  <2>1. Before(r, a) \subseteq Before(r, b) \ {b}
    <3> SUFFICES ASSUME NEW c \in Slot, Ahead(r, c, a) PROVE Ahead(r, c, b) /\ c # b
      BY DEF Before
    <3> QED
      BY <1>0, <1>3 DEF Ahead
  <2>2. IsFiniteSet(Before(r, b) \ {b}) /\ Cardinality(Before(r, b) \ {b}) = Position(r, b) - 1
    BY <1>1, FS_RemoveElement DEF Position
  <2>3. Position(r, a) <= Position(r, b) - 1
    BY <2>1, <2>2, FS_Subset DEF Position
  <2> QED
    BY <1>1, <2>3
<1>4. \A a, b \in Slot : Ahead(r, a, b) \/ Ahead(r, b, a)
  BY <1>0 DEF Ahead
<1>5. \A a \in Slot : Ahead(r, a, a)
  BY <1>0 DEF Ahead
<1>6. \A a, b \in Slot : Position(r, a) = Position(r, b) => a = b
  BY <1>1, <1>3, <1>4
<1>7. \A a, b \in Slot : Position(r, a) <= Position(r, b) <=> Ahead(r, a, b)
  BY <1>1, <1>3, <1>4, <1>5
<1> QED
  BY <1>2, <1>6, <1>7

(* Every position is taken by one slot.                                    *)
LEMMA PositionTaken ==
  ASSUME NEW r \in Ranks
  PROVE  /\ \A n \in Slot : At(r, n) \in Slot /\ Position(r, At(r, n)) = n
         /\ \A s \in Slot : At(r, Position(r, s)) = s
<1> DEFINE f == [s \in Slot |-> Position(r, s)]
<1>1. f \in Injection(Slot, Slot)
  BY PositionOrder DEF Injection, IsInjective
<1>2. f \in Surjection(Slot, Slot)
  BY <1>1, SlotsFinite, FS_Injection
<1>3. \A n \in Slot : \E s \in Slot : Position(r, s) = n
  BY <1>2 DEF Surjection
<1>4. \A n \in Slot : At(r, n) \in Slot /\ Position(r, At(r, n)) = n
  BY <1>3 DEF At
<1> QED
  BY <1>4, PositionOrder

(* The slot s becomes the most recent: those ahead of it move back by one. *)
LEMMA Renewed ==
  ASSUME NEW r \in Ranks, NEW q \in Ranks, NEW s \in Slot,
         q[s] = 0, \A a \in Slot \ {s} : q[a] = r[a] /\ r[a] # 0
  PROVE  \A n \in Slot : At(q, n) = IF n = 1 THEN s
                                    ELSE IF n <= Position(r, s) THEN At(r, n - 1) ELSE At(r, n)
<1>0. \A a \in Slot : a \in Int /\ r[a] \in Nat /\ q[a] \in Nat
  BY SlotsFinite DEF Ranks
<1>1. Position(q, s) = 1
  <2>1. Before(q, s) = {s}
    BY <1>0 DEF Before, Ahead
  <2> QED
    BY <2>1, FS_Singleton DEF Position
<1>2. ASSUME NEW a \in Slot \ {s}
      PROVE  Position(q, a) = IF Ahead(r, a, s) THEN Position(r, a) + 1 ELSE Position(r, a)
  <2>1. Before(q, a) = Before(r, a) \union {s}
    BY <1>0, <1>2 DEF Before, Ahead
  <2>2. IsFiniteSet(Before(r, a))
    BY SlotsFinite, FS_Subset DEF Before
  <2>3. s \in Before(r, a) <=> ~Ahead(r, a, s)
    BY <1>0, <1>2 DEF Before, Ahead
  <2>4. Cardinality(Before(r, a) \union {s}) =
          IF s \in Before(r, a) THEN Cardinality(Before(r, a)) ELSE Cardinality(Before(r, a)) + 1
    BY <2>2, FS_AddElement
  <2> HIDE DEF Before, Ahead
  <2> QED
    BY <2>1, <2>3, <2>4 DEF Position
<1> SUFFICES ASSUME NEW n \in Slot
             PROVE  At(q, n) = IF n = 1 THEN s
                               ELSE IF n <= Position(r, s) THEN At(r, n - 1) ELSE At(r, n)
  OBVIOUS
<1>3. Position(r, s) \in Slot /\ \A m \in Slot : m \in Nat /\ 1 <= m /\ m <= CacheSize
  BY PositionOrder, SlotsFinite
<1>4. CASE n = 1
  BY <1>1, <1>4, PositionTaken
<1>5. CASE n # 1 /\ n <= Position(r, s)
  <2> DEFINE a == At(r, n - 1)
  <2>1. n - 1 \in Slot /\ n - 1 < Position(r, s)
    BY <1>3, <1>5, SlotsFinite DEF Slot
  <2>2. a \in Slot /\ Position(r, a) = n - 1
    BY <2>1, PositionTaken
  <2>3. a # s /\ Ahead(r, a, s)
    BY <1>3, <2>1, <2>2, PositionOrder
  <2>4. Position(q, a) = n
    BY <1>2, <1>3, <2>2, <2>3
  <2> QED
    BY <1>5, <2>2, <2>4, PositionTaken
<1>6. CASE n # 1 /\ ~(n <= Position(r, s))
  <2> DEFINE a == At(r, n)
  <2>1. a \in Slot /\ Position(r, a) = n
    BY PositionTaken
  <2>2. a # s /\ ~Ahead(r, a, s)
    BY <1>3, <1>6, <2>1, PositionOrder
  <2>3. Position(q, a) = n
    BY <1>2, <2>1, <2>2
  <2> QED
    BY <1>6, <2>1, <2>3, PositionTaken
<1> QED
  BY <1>4, <1>5, <1>6

-----------------------------------------------------------------------------
(* One thread: the array is a list of the last paths.                      *)

rank == [s \in Slot |-> lru[s].rank]

(* While it scans, every rank was raised since the last entry was renewed, *)
(* the slots passed do not hold the path, and the victim is the oldest of  *)
(* them.  No path has two entries.                                         *)
Scanned ==
  /\ \A t \in Thread : pc[t] = "scan" =>
       /\ \A s \in Slot : rank[s] # 0
       /\ \A s \in Slot : s < i[t] => lru[s].key # path[t]
       /\ i[t] = 1 => maxRank[t] = NoRank
       /\ i[t] # 1 => /\ victim[t] \in Slot /\ victim[t] < i[t] /\ maxRank[t] = rank[victim[t]]
                      /\ \A s \in Slot : s < i[t] => Ahead(rank, s, victim[t])
  /\ \A a, b \in Slot : lru[a].key = lru[b].key => a = b \/ lru[a].key = NoKey

LInv == AInv /\ Scanned

LEMMA RankTyped == ASSUME TypeOK PROVE rank \in Ranks
  BY DEF TypeOK, rank, Ranks

LEMMA ScannedStep ==
  ASSUME Alone, LInv, [Next]_vars
  PROVE  Scanned'
<1>0. TInv /\ TypeOK /\ Chosen /\ Scanned /\ rank \in Ranks
  BY RankTyped DEF LInv, AInv, TInv
<1>1. ASSUME UNCHANGED vars PROVE Scanned'
  <2>1. rank' = rank
    BY <1>1 DEF vars, rank
  <2> QED
    BY <1>0, <1>1, <2>1 DEF Scanned, vars
<1> SUFFICES ASSUME NEW t \in Thread, \A u \in Thread : u = t,
                    (\E k \in Key : Look(t, k)) \/ Hit(t) \/ Pass(t) \/ Claim(t) \/ Fill(t) \/ Return(t)
             PROVE  Scanned'
  BY <1>1 DEF Next, Alone
<1>2. ASSUME NEW k \in Key, Look(t, k) PROVE Scanned'
  <2>1. /\ i'[t] = 1 /\ maxRank'[t] = NoRank
        /\ \A s \in Slot : lru'[s].key = lru[s].key /\ lru'[s].rank = lru[s].rank + 1
    BY <1>0, <1>2 DEF Look, TypeOK
  <2>2. \A s \in Slot : s \in Nat /\ ~(s < 1)
    BY SlotsFinite
  <2>3. \A s \in Slot : rank'[s] # 0
    BY <1>0, <2>1 DEF TypeOK, rank
  <2> QED
    BY <1>0, <2>1, <2>2, <2>3 DEF Scanned
<1>3. CASE Pass(t)
  <2> DEFINE s == i[t]
  <2>1. /\ s \in Slot /\ pc[t] = "scan" /\ lru[s].key # path[t] /\ i'[t] = s + 1 /\ rank' = rank
        /\ UNCHANGED <<lru, pc, path>> /\ s \in Nat /\ rank[s] \in Nat
        /\ \/ maxRank[t] < rank[s] /\ maxRank'[t] = rank[s] /\ victim'[t] = s
           \/ ~(maxRank[t] < rank[s]) /\ maxRank'[t] = maxRank[t] /\ victim'[t] = victim[t]
    BY <1>0, <1>3, SlotsFinite DEF Pass, Scanning, TypeOK, rank
  <2>2. \A a \in Slot : /\ a \in Nat /\ rank[a] \in Nat
                        /\ a < s + 1 <=> (a < s \/ a = s)
    BY <1>0, <2>1, SlotsFinite DEF Ranks
  <2>3. /\ \A a \in Slot : a < i'[t] => lru[a].key # path[t]
        /\ i'[t] # 1
    BY <1>0, <2>1, <2>2, SlotsFinite DEF Scanned
  <2>4. CASE maxRank[t] < rank[s]
    <3>1. \A a \in Slot : a < s => rank[a] < rank[s]
      <4>1. CASE s = 1
        BY <2>2, <4>1, SlotsFinite
      <4>2. CASE s # 1
        <5>1. /\ victim[t] \in Slot /\ maxRank[t] = rank[victim[t]]
              /\ \A a \in Slot : a < s => Ahead(rank, a, victim[t])
          BY <1>0, <2>1, <4>2 DEF Scanned
        <5> QED
          BY <2>1, <2>2, <2>4, <5>1 DEF Ahead
      <4> QED
        BY <4>1, <4>2
    <3>2. \A a \in Slot : a < s + 1 => Ahead(rank, a, s)
      BY <2>1, <2>2, <3>1 DEF Ahead
    <3>3. victim'[t] = s /\ maxRank'[t] = rank[s] /\ s < s + 1
      BY <2>1, <2>4
    <3> QED
      BY <1>0, <2>1, <2>3, <3>2, <3>3 DEF Scanned
  <2>5. CASE ~(maxRank[t] < rank[s])
    <3>1. s # 1
      BY <1>0, <2>1, <2>5 DEF Scanned, NoRank
    <3>2. /\ victim[t] \in Slot /\ victim[t] < s /\ maxRank[t] = rank[victim[t]]
          /\ \A a \in Slot : a < s => Ahead(rank, a, victim[t])
      BY <1>0, <2>1, <3>1 DEF Scanned
    <3>3. Ahead(rank, s, victim[t]) /\ victim[t] < s + 1
      BY <2>1, <2>2, <2>5, <3>2 DEF Ahead
    <3>4. victim'[t] = victim[t] /\ maxRank'[t] = maxRank[t]
      BY <2>1, <2>5
    <3> QED
      BY <1>0, <2>1, <2>2, <2>3, <3>2, <3>3, <3>4 DEF Scanned
  <2> QED
    BY <2>4, <2>5
<1>4. CASE Hit(t) \/ Fill(t) \/ Return(t)
  <2>1. pc'[t] # "scan"
    BY <1>0, <1>4 DEF Hit, Fill, Return, TypeOK
  <2>2. \A s \in Slot : lru'[s].key = lru[s].key
    BY <1>0, <1>4, HitTypes, FillTypes DEF Return
  <2> QED
    BY <1>0, <2>1, <2>2 DEF Scanned
<1>5. CASE Claim(t)
  <2>1. pc'[t] # "scan" /\ pc[t] = "scan" /\ i[t] = CacheSize + 1
    BY <1>0, <1>5 DEF Claim, TypeOK
  <2>2. \A s \in Slot : lru[s].key # path[t]
    BY <1>0, <2>1, SlotsFinite DEF Scanned
  <2>3. \A s \in Slot : lru'[s].key = IF s = victim[t] THEN path[t] ELSE lru[s].key
    BY <1>0, <1>5, ClaimTypes
  <2> QED
    BY <1>0, <2>1, <2>2, <2>3 DEF Scanned
<1> QED
  BY <1>2, <1>3, <1>4, <1>5

(* SlotAt reads the order off the ranks.                                   *)
LEMMA SlotAtNow == TypeOK => \A n \in Slot : SlotAt(n) = At(rank, n)
<1> SUFFICES ASSUME TypeOK, NEW n \in Slot PROVE SlotAt(n) = At(rank, n)
  OBVIOUS
<1>1. rank \in Ranks
  BY RankTyped
<1>2. \A s \in Slot : {a \in Slot : Newer(a, s)} = Before(rank, s)
  BY DEF Newer, Before, Ahead, rank
<1>3. \A s \in Slot : Cardinality({a \in Slot : Newer(a, s)}) = Position(rank, s)
  BY <1>2 DEF Position
<1>4. At(rank, n) \in Slot /\ Position(rank, At(rank, n)) = n
  BY <1>1, PositionTaken
<1>5. SlotAt(n) \in Slot /\ Cardinality({a \in Slot : Newer(a, SlotAt(n))}) = n
  BY <1>3, <1>4 DEF SlotAt
<1>6. Position(rank, SlotAt(n)) = n
  BY <1>3, <1>5
<1> QED
  BY <1>1, <1>4, <1>5, <1>6, PositionOrder

LEMMA SameOrder ==
  ASSUME NEW r \in Ranks, NEW q \in Ranks,
         \A a, b \in Slot : Ahead(q, a, b) <=> Ahead(r, a, b)
  PROVE  \A n \in Slot : At(q, n) = At(r, n)
<1>1. \A s \in Slot : Position(q, s) = Position(r, s)
  BY DEF Position, Before
<1>2. \A n \in Slot : At(q, n) \in Slot /\ Position(q, At(q, n)) = n
  BY PositionTaken
<1>3. \A n \in Slot : At(r, n) \in Slot /\ Position(r, At(r, n)) = n
  BY PositionTaken
<1> QED
  BY <1>1, <1>2, <1>3, PositionOrder

cache == [n \in Slot |-> [key |-> lru[SlotAt(n)].key, value |-> ServerAt(SlotAt(n))]]
reply == Answered(CHOOSE t \in Thread : TRUE)
server == [s \in Slot |-> ServerAt(s)]

(* What the abstract cache is: before and after a step.                    *)
Seen ==
  /\ cache = [n \in Slot |-> [key |-> lru[At(rank, n)].key, value |-> server[At(rank, n)]]]
  /\ \A t \in Thread : (\A u \in Thread : u = t) =>
       /\ reply = Answered(t)
       /\ \A s \in Slot : server[s] = IF pc[t] = "claimed" /\ victim[t] = s
                                     THEN Index[path[t]] ELSE lru[s].value

LEMMA SeenNow == TypeOK => Seen
<1> SUFFICES ASSUME TypeOK PROVE Seen
  OBVIOUS
<1>1. \A n \in Slot : SlotAt(n) = At(rank, n) /\ At(rank, n) \in Slot
  BY SlotAtNow, RankTyped, PositionTaken
<1>2. cache = [n \in Slot |-> [key |-> lru[At(rank, n)].key, value |-> server[At(rank, n)]]]
  BY <1>1 DEF cache, server
<1>3. ASSUME NEW t \in Thread, \A u \in Thread : u = t
      PROVE  /\ reply = Answered(t)
             /\ \A s \in Slot : server[s] = IF pc[t] = "claimed" /\ victim[t] = s
                                           THEN Index[path[t]] ELSE lru[s].value
  <2>1. (CHOOSE u \in Thread : TRUE) = t
    BY <1>3
  <2>2. ASSUME NEW s \in Slot
        PROVE  server[s] = IF pc[t] = "claimed" /\ victim[t] = s THEN Index[path[t]] ELSE lru[s].value
    <3>1. Claimant(s) = IF pc[t] = "claimed" /\ victim[t] = s THEN {t} ELSE {}
      BY <1>3 DEF Claimant
    <3> QED
      BY <3>1 DEF server, ServerAt
  <2> QED
    BY <2>1, <2>2 DEF reply
<1> QED
  BY <1>2, <1>3 DEF Seen

LEMMA SeenNext == TypeOK' => Seen'
  BY SeenNow, PTL

(* A step that leaves the order, the paths and the servers leaves the list.*)
LEMMA SameCache ==
  ASSUME TypeOK, TypeOK',
         \A a, b \in Slot : Ahead(rank', a, b) <=> Ahead(rank, a, b),
         \A s \in Slot : lru'[s].key = lru[s].key /\ server'[s] = server[s]
  PROVE  cache' = cache
<1>1. rank \in Ranks /\ rank' \in Ranks
  BY DEF TypeOK, rank, Ranks
<1>2. \A n \in Slot : At(rank', n) = At(rank, n) /\ At(rank, n) \in Slot
  BY <1>1, SameOrder, PositionTaken
<1> QED
  BY <1>2, SeenNow, SeenNext DEF Seen

(* The entry of slot s is renewed.                                         *)
LEMMA FrontCache ==
  ASSUME TypeOK, TypeOK',
         NEW s \in Slot, rank'[s] = 0, \A a \in Slot \ {s} : rank'[a] = rank[a] /\ rank[a] # 0,
         \A a \in Slot \ {s} : lru'[a].key = lru[a].key /\ server'[a] = server[a]
  PROVE  cache' = ToFront(cache, Position(rank, s), [key |-> lru'[s].key, value |-> server'[s]])
<1>1. rank \in Ranks /\ rank' \in Ranks
  BY DEF TypeOK, rank, Ranks
<1> DEFINE p == Position(rank, s)
<1>2. p \in Slot /\ At(rank, p) = s
  BY <1>1, PositionOrder, PositionTaken
<1>3. \A n \in Slot : At(rank', n) = IF n = 1 THEN s
                                     ELSE IF n <= p THEN At(rank, n - 1) ELSE At(rank, n)
  BY <1>1, Renewed
<1>4. \A n \in Slot : /\ n # 1 /\ n <= p => n - 1 \in Slot /\ n - 1 # p
                      /\ ~(n <= p) => n # p
  BY <1>2, SlotsFinite DEF Slot
<1>5. \A n \in Slot : At(rank, n) \in Slot /\ (n # p => At(rank, n) # s)
  BY <1>1, PositionTaken
<1>6. cache = [n \in Slot |-> [key |-> lru[At(rank, n)].key, value |-> server[At(rank, n)]]]
  BY SeenNow DEF Seen
<1>7. cache' = [n \in Slot |-> [key |-> lru'[At(rank', n)].key, value |-> server'[At(rank', n)]]]
  BY SeenNext DEF Seen
<1>8. ASSUME NEW n \in Slot
       PROVE  cache'[n] = IF n = 1 THEN [key |-> lru'[s].key, value |-> server'[s]]
                          ELSE IF n <= p THEN cache[n - 1] ELSE cache[n]
  <2>1. CASE n = 1
    BY <1>3, <1>7, <2>1
  <2>2. CASE n # 1 /\ n <= p
    <3>1. At(rank', n) = At(rank, n - 1) /\ n - 1 \in Slot /\ At(rank, n - 1) \in Slot \ {s}
      BY <1>3, <1>4, <1>5, <2>2
    <3> QED
      BY <1>6, <1>7, <2>2, <3>1
  <2>3. CASE n # 1 /\ ~(n <= p)
    <3>1. At(rank', n) = At(rank, n) /\ At(rank, n) \in Slot \ {s}
      BY <1>3, <1>4, <1>5, <2>3
    <3> QED
      BY <1>6, <1>7, <2>3, <3>1
  <2> QED
    BY <2>1, <2>2, <2>3
<1> QED
  BY <1>7, <1>8 DEF ToFront

LEMMA ListStep ==
  ASSUME Alone, LInv, TypeOK', [Next]_vars
  PROVE  List!Next \/ (cache' = cache /\ reply' = reply)
<1>0. /\ TInv /\ TypeOK /\ Chosen /\ Scanned /\ Entries /\ AnswersItsPath /\ rank \in Ranks
      /\ \A s \in Slot : rank[s] \in Nat
  BY RankTyped DEF LInv, AInv, TInv, Ranks
<1>1. ASSUME UNCHANGED vars PROVE cache' = cache /\ reply' = reply
  BY <1>1 DEF vars, cache, reply, SlotAt, Newer, ServerAt, Claimant, Answered
<1> SUFFICES ASSUME NEW t \in Thread, \A u \in Thread : u = t,
                    (\E k \in Key : Look(t, k)) \/ Hit(t) \/ Pass(t) \/ Claim(t) \/ Fill(t) \/ Return(t)
             PROVE  List!Next \/ (cache' = cache /\ reply' = reply)
  BY <1>1 DEF Next, Alone
<1>2. /\ reply = Answered(t) /\ reply' = Answered(t)'
      /\ \A s \in Slot : server[s] = IF pc[t] = "claimed" /\ victim[t] = s THEN Index[path[t]]
                                     ELSE lru[s].value
      /\ \A s \in Slot : server'[s] = IF pc'[t] = "claimed" /\ victim'[t] = s THEN Index[path'[t]]
                                      ELSE lru'[s].value
      /\ cache = [n \in Slot |-> [key |-> lru[At(rank, n)].key, value |-> server[At(rank, n)]]]
  BY <1>0, SeenNow, SeenNext DEF Seen
<1>3. ASSUME NEW k \in Key, Look(t, k) PROVE cache' = cache /\ reply' = reply
  <2>1. /\ pc[t] = "idle" /\ pc'[t] = "scan" /\ answer' = answer
        /\ \A s \in Slot : /\ lru'[s].key = lru[s].key /\ lru'[s].value = lru[s].value
                           /\ rank'[s] = rank[s] + 1
    BY <1>0, <1>3 DEF Look, TypeOK, rank
  <2>2. \A a, b \in Slot : Ahead(rank', a, b) <=> Ahead(rank, a, b)
    BY <1>0, <2>1 DEF Ahead
  <2>3. cache' = cache
    BY <1>0, <1>2, <2>1, <2>2, SameCache
  <2> QED
    BY <1>2, <2>1, <2>3 DEF Answered
<1>4. CASE Pass(t) \/ Fill(t) \/ Return(t)
  <2>1. /\ rank' = rank /\ \A s \in Slot : lru'[s].key = lru[s].key /\ server'[s] = server[s]
        /\ reply' = reply
    <3>1. CASE Pass(t)
      <4>1. UNCHANGED <<lru, pc, path, answer>> /\ pc[t] = "scan"
        BY <3>1 DEF Pass, Scanning
      <4> QED
        BY <1>2, <4>1 DEF rank, Answered
    <3>2. CASE Fill(t)
      <4>1. pc[t] = "claimed" /\ pc'[t] = "filled"
        BY <1>0, <3>2 DEF Fill, TypeOK
      <4> QED
        BY <1>0, <1>2, <3>2, <4>1, FillTypes DEF rank, Answered
    <3>3. CASE Return(t)
      <4>1. /\ pc[t] = "filled" /\ pc'[t] = "idle" /\ UNCHANGED <<lru, path, victim>>
            /\ answer'[t] = lru[victim[t]].value
        BY <1>0, <3>3 DEF Return, TypeOK
      <4>2. victim[t] \in Slot /\ path[t] \in Key
        BY <1>0, <4>1 DEF TypeOK, Chosen
      <4>3. answer'[t] = Index[path[t]]
        BY <1>0, <4>1, <4>2, CacheAssumption DEF Entries
      <4> QED
        BY <1>2, <4>1, <4>3 DEF rank, Answered
    <3> QED
      BY <1>4, <3>1, <3>2, <3>3
  <2> QED
    BY <1>0, <2>1, SameCache
<1>5. CASE Hit(t)
  <2> DEFINE s == i[t]  k == path[t]  p == Position(rank, s)
  <2>1. /\ pc[t] = "scan" /\ pc'[t] = "filled" /\ s \in Slot /\ k \in Key /\ lru[s].key = k
        /\ path' = path
        /\ \A a \in Slot : lru'[a].key = lru[a].key /\ lru'[a].value = lru[a].value
    BY <1>0, <1>5, HitTypes
  <2>2. rank'[s] = 0 /\ \A a \in Slot \ {s} : rank'[a] = rank[a] /\ rank[a] # 0
    <3>1. lru' = [lru EXCEPT ![s].rank = 0]
      BY <1>5 DEF Hit
    <3>2. \A a \in Slot : lru'[a].rank = IF a = s THEN 0 ELSE lru[a].rank
      BY <1>0, <2>1, <3>1 DEF TypeOK
    <3>3. \A a \in Slot : lru[a].rank # 0
      BY <1>0, <2>1 DEF Scanned, rank
    <3>4. rank' = [a \in Slot |-> lru'[a].rank]
      BY DEF rank
    <3> HIDE DEF s
    <3> QED
      BY <2>1, <3>2, <3>3, <3>4 DEF rank
  <2>3. p \in Slot /\ At(rank, p) = s /\ \A n \in Slot : At(rank, n) = s => n = p
    BY <1>0, <2>1, PositionOrder, PositionTaken
  <2>4. \A n \in Slot : cache[n].key = k <=> n = p
    <3>1. \A n \in Slot : At(rank, n) \in Slot
      BY <1>0, PositionTaken
    <3>2. \A a \in Slot : lru[a].key = k => a = s
      BY <1>0, <2>1, CacheAssumption DEF Scanned
    <3> QED
      BY <1>2, <2>1, <2>3, <3>1, <3>2
  <2>5. cache[p] = [key |-> lru'[s].key, value |-> server'[s]] /\ cache[p].value = lru[s].value
    BY <1>2, <2>1, <2>3
  <2>6. cache' = ToFront(cache, p, cache[p])
    BY <1>0, <1>2, <2>1, <2>2, <2>5, FrontCache
  <2>7. reply' = cache[p].value
    <3>1. lru[s].value = Index[k]
      BY <1>0, <2>1, CacheAssumption DEF Entries
    <3> QED
      BY <1>2, <2>1, <2>5, <3>1 DEF Answered
  <2>8. List!Lookup(k)
    <3> DEFINE c == cache
    <3>1. List!Hits(cache, k) = {p}
      BY <2>3, <2>4 DEF List!Hits, List!Slot, Slot
    <3>2. (CHOOSE h \in {p} : TRUE) = p
      OBVIOUS
    <3>3. List!Answer(cache, k, Index[k]) = cache[p].value
      BY <3>1, <3>2 DEF List!Answer
    <3>4. List!AfterLookup(cache, k, Index[k]) = ToFront(cache, p, cache[p])
      BY <3>1, <3>2 DEF List!AfterLookup, List!ToFront, ToFront, List!Slot, Slot
    <3> QED
      BY <2>6, <2>7, <3>3, <3>4 DEF List!Lookup, cache, reply
  <2> QED
    BY <2>1, <2>8 DEF List!Next
<1>6. CASE Claim(t)
  <2> DEFINE s == victim[t]  k == path[t]  e == [key |-> k, value |-> Index[k]]
  <2>1. /\ pc[t] = "scan" /\ pc'[t] = "claimed" /\ i[t] = CacheSize + 1 /\ s \in Slot /\ k \in Key
        /\ UNCHANGED <<path, victim>>
        /\ \A a \in Slot \ {s} : lru'[a] = lru[a]
        /\ lru'[s].key = k /\ lru'[s].rank = 0
    BY <1>0, <1>6, ClaimTypes, ZenonT(60) DEF Claim, TypeOK
  <2>2. \A a \in Slot : a < i[t]
    BY <2>1, SlotsFinite
  <2>3. rank'[s] = 0 /\ \A a \in Slot \ {s} : rank'[a] = rank[a] /\ rank[a] # 0
    BY <1>0, <2>1 DEF Scanned, rank
  <2>4. Position(rank, s) = CacheSize
    <3>1. i[t] # 1
      BY <2>1, CacheAssumption
    <3>2. Before(rank, s) = Slot
      BY <1>0, <2>1, <2>2, <3>1 DEF Scanned, Before
    <3> QED
      BY <3>2, SlotsFinite DEF Position
  <2>5. cache' = ToFront(cache, CacheSize, e)
    <3>1. server'[s] = Index[k] /\ \A a \in Slot \ {s} : server'[a] = server[a]
      BY <1>2, <2>1
    <3>2. \A a \in Slot \ {s} : lru'[a].key = lru[a].key /\ server'[a] = server[a]
      BY <2>1, <3>1
    <3> QED
      BY <1>0, <2>1, <2>3, <2>4, <3>1, <3>2, FrontCache
  <2>6. reply' = Index[k]
    BY <1>2, <2>1 DEF Answered
  <2>7. List!Lookup(k)
    <3>1. \A n \in Slot : cache[n].key # k
      <4>1. \A n \in Slot : At(rank, n) \in Slot
        BY <1>0, PositionTaken
      <4> QED
        BY <1>0, <1>2, <2>1, <2>2, <4>1 DEF Scanned
    <3>2. List!Hits(cache, k) = {}
      BY <3>1 DEF List!Hits, List!Slot, Slot
    <3>3. List!Answer(cache, k, Index[k]) = Index[k]
      BY <3>2 DEF List!Answer
    <3>4. List!AfterLookup(cache, k, Index[k]) = ToFront(cache, CacheSize, e)
      BY <3>2 DEF List!AfterLookup, List!ToFront, ToFront, List!Slot, Slot
    <3> QED
      BY <2>5, <2>6, <3>3, <3>4 DEF List!Lookup, cache, reply
  <2> QED
    BY <2>1, <2>7 DEF List!Next
<1> QED
  BY <1>3, <1>4, <1>5, <1>6

(* If there is one client thread, the ranks are a list of the last paths   *)
(* asked for: a hit moves its entry to the front, a miss evicts the oldest *)
(* and answers from the trie (structs.h:103, nm_helper.c:329-361).         *)
THEOREM LRUImplementsList ==
  ASSUME Alone, Thread # {}
  PROVE  Spec => RecencyList
<1>1. Init => LInv
  <2> SUFFICES ASSUME Init PROVE LInv
    OBVIOUS
  <2>1. Entries /\ AnswersItsPath /\ Scanned
    BY DEF Init, Entries, AnswersItsPath, Scanned
  <2> QED
    BY <2>1, TInit DEF LInv, AInv
<1>2. LInv /\ [Next]_vars => LInv'
  BY AStep, TStep, ScannedStep DEF LInv, AInv
<1>3. Init => List!Init
  <2> SUFFICES ASSUME Init PROVE List!Init
    OBVIOUS
  <2>1. TypeOK /\ rank \in Ranks
    BY TInit, RankTyped DEF TInv
  <2>2. PICK t \in Thread : \A u \in Thread : u = t
    BY DEF Alone
  <2>3. \A n \in Slot : At(rank, n) \in Slot
    BY <2>1, PositionTaken
  <2>4. cache = EmptyCache
    BY <2>1, <2>2, <2>3, SeenNow DEF Seen, Init, EmptyCache
  <2>5. reply = NoValue
    BY <2>1, <2>2, SeenNow DEF Seen, Init, Answered
  <2> QED
    BY <2>4, <2>5 DEF List!Init, List!EmptyCache, List!Slot, EmptyCache, Slot, cache, reply
<1>4. LInv /\ LInv' /\ [Next]_vars => [List!Next]_(List!vars)
  BY ListStep DEF LInv, AInv, TInv, List!vars, cache, reply
<1> QED
  BY <1>1, <1>2, <1>3, <1>4, PTL DEF Spec, RecencyList, List!Spec
=============================================================================
