----------------------------- MODULE TrieProofs -----------------------------
(***************************************************************************)
(* What the trie does for every set of texts, servers and marks, and what  *)
(* its nodes do under every number of threads.                             *)
(***************************************************************************)
EXTENDS TrieThreads, WellFoundedInduction, TLAPS

(* Marks stay marks and answers stay routes under every call.              *)
THEOREM TrieTypeCorrect == Spec => []TypeOK
<1>1. Init => TypeOK
  BY DEF Init, TypeOK, EmptyTrie, Mark, Route
<1>2. TypeOK /\ [Next]_vars => TypeOK'
  <2> SUFFICES ASSUME TypeOK, [Next]_vars PROVE TypeOK'
    OBVIOUS
  <2>1. ASSUME NEW p \in Text, NEW s \in Server, Insert(p, s) PROVE TypeOK'
    BY <2>1 DEF TypeOK, Insert, trieinsert, Mark
  <2>2. ASSUME NEW p \in Text, Delete(p) PROVE TypeOK'
    BY <2>2 DEF TypeOK, Delete, delete_from_trie, Mark
  <2>3. ASSUME NEW p \in Text, Search(p) PROVE TypeOK'
    BY <2>3 DEF TypeOK, Search, search_trie, Mark, Route
  <2>4. CASE UNCHANGED vars
    BY <2>4 DEF TypeOK, vars
  <2> QED
    BY <2>1, <2>2, <2>3, <2>4 DEF Next
<1> QED
  BY <1>1, <1>2, PTL DEF Spec

(* A search that is blocked is blocked by a node on the way: the path's    *)
(* own, or one that PrefixFree makes a directory.                          *)
LEMMA BlockerIsDirectory ==
  ASSUME PrefixFree, NEW tr \in [Text -> Mark], NEW t \in Text,
         NEW q \in BlockedBy(tr, t), q # t
  PROVE  q \in DirsOf(t) /\ tr[q] = NoServer
  BY DEF PrefixFree, BlockedBy, DirsOf

(* Every text is a prefix of itself.                                       *)
LEMMA PrefixOfItself == \A t \in Text : IsPrefix(t, t)
<1> SUFFICES ASSUME NEW t \in Text PROVE IsPrefix(t, t)
  OBVIOUS
<1>1. t \in Seq(Char)
  BY TextAssumption
<1> QED
  BY <1>1 DEF IsPrefix

(* With names of which none starts another, a path that a server announced *)
(* last is not found only if a directory on its way has been deleted: the  *)
(* comment at nm_helper.c:445 then says what the code does.                *)
THEOREM PrefixFreeNamesAreFound == PrefixFree => (Spec => []FoundUnlessDeleted)
<1> SUFFICES ASSUME PrefixFree PROVE Spec => []FoundUnlessDeleted
  OBVIOUS
<1>1. TypeOK => FoundUnlessDeleted
  <2> SUFFICES ASSUME TypeOK, NEW t \in Text, trie[t] \in Server,
                      search_trie(trie, t) = NoServer
               PROVE  \E q \in DirsOf(t) : trie[q] = NoServer
    BY DEF FoundUnlessDeleted
  <2>1. PICK q \in BlockedBy(trie, t) : TRUE
    BY MarkAssumption DEF search_trie
  <2>2. q # t
    BY MarkAssumption DEF BlockedBy
  <2> QED
    BY <2>1, <2>2, BlockerIsDirectory DEF TypeOK
<1> QED
  BY <1>1, TrieTypeCorrect, PTL
-----------------------------------------------------------------------------
(* The lookup of the tree index, seen through the refinement mapping, is   *)
(* the character walk.                                                     *)
LEMMA SearchIsLookup ==
  ASSUME PrefixFree, TypeOK, NEW t \in Text
  PROVE  Tree!Lookup(t) = search_trie(trie, t)
<1> DEFINE gone == {u \in Text : trie[u] = NoServer}
           on == {t} \union DirsOf(t)
<1>1. Tree!Lookup(t) = IF on \intersect gone # {} THEN NoServer ELSE OwnerOf(t)
  BY DEF Tree!Lookup
<1>2. on \intersect gone = BlockedBy(trie, t)
  <2>1. BlockedBy(trie, t) \subseteq on \intersect gone
    BY BlockerIsDirectory DEF BlockedBy, TypeOK
  <2>2. on \intersect gone \subseteq BlockedBy(trie, t)
    BY PrefixOfItself DEF BlockedBy, DirsOf
  <2> QED
    BY <2>1, <2>2
<1>3. trie[t] \notin Server => search_trie(trie, t) = NoServer
  BY DEF search_trie, TypeOK, Mark
<1> QED
  BY <1>1, <1>2, <1>3, MarkAssumption DEF search_trie, OwnerOf

(* With such names the character trie implements the directory tree.       *)
THEOREM TrieImplementsTree == PrefixFree => (Spec => TreeIndex)
<1> SUFFICES ASSUME PrefixFree PROVE Spec => TreeIndex
  OBVIOUS
<1>1. Init => Tree!Init
  BY MarkAssumption DEF Init, Tree!Init, EmptyTrie, OwnerOf
<1>2. TypeOK /\ TypeOK' /\ [Next]_vars => [Tree!Next]_(Tree!vars)
  <2> SUFFICES ASSUME TypeOK, TypeOK', [Next]_vars
               PROVE  [Tree!Next]_(Tree!vars)
    OBVIOUS
  <2>1. ASSUME NEW p \in Text, NEW s \in Server, Insert(p, s)
        PROVE  Tree!Announce(p, s)
    BY <2>1, MarkAssumption
    DEF Insert, trieinsert, MarkedBy, Tree!Announce, OwnerOf, TypeOK
  <2>2. ASSUME NEW p \in Text, Delete(p)
        PROVE  [Tree!Remove(p)]_(Tree!vars)
    <3>1. CASE search_trie(trie, p) = NoServer
      BY <2>2, <3>1 DEF Delete, delete_from_trie, Tree!vars, OwnerOf
    <3>2. CASE search_trie(trie, p) # NoServer
      <4>1. Tree!Lookup(p) # NoServer
        BY <3>2, SearchIsLookup
      <4>2. trie' = [trie EXCEPT ![p] = NoServer] /\ answer' = answer
        BY <2>2, <3>2 DEF Delete, delete_from_trie
      <4> QED
        BY <4>1, <4>2, MarkAssumption DEF Tree!Remove, OwnerOf, TypeOK
    <3> QED
      BY <3>1, <3>2
  <2>3. ASSUME NEW p \in Text, Search(p)
        PROVE  Tree!Ask(p)
    BY <2>3, SearchIsLookup DEF Search, Tree!Ask, OwnerOf
  <2>4. CASE UNCHANGED vars
    BY <2>4 DEF vars, Tree!vars, OwnerOf
  <2> QED
    BY <2>1, <2>2, <2>3, <2>4 DEF Next, Tree!Next
<1> QED
  BY <1>1, <1>2, TrieTypeCorrect, PTL DEF Spec, TreeIndex, Tree!Spec

-----------------------------------------------------------------------------
(* The nodes.  First the ways through them: what a link leads to along the *)
(* steps of a path, how it changes when a link is made, and where the ways *)
(* of two paths meet.                                                      *)

(* Counting up: what holds of 0 and of every next number holds up to N.    *)
LEMMA UpTo ==
  ASSUME NEW N \in Nat, NEW S, 0 \in S, \A k \in 0..N : k \in S /\ k < N => k + 1 \in S
  PROVE  \A k \in 0..N : k \in S
<1>1. SUFFICES ASSUME ~(\A k \in 0..N : k \in S) PROVE FALSE
  OBVIOUS
<1> DEFINE T == {k \in 0..N : k \notin S}
<1>2. T \subseteq Nat /\ T # {}
  BY <1>1
<1>3. \E x \in T : \A y \in T : ~(<<y, x>> \in OpToRel(<, Nat))
  <2> HIDE DEF T
  <2> QED
    BY <1>2, WFMin, NatLessThanWellFounded
<1>4. PICK x \in T : \A y \in T : ~(y < x)
  BY <1>2, <1>3 DEF OpToRel
<1>5. x \in 1..N /\ x \notin S
  OBVIOUS
<1>6. x - 1 \in 0..N /\ x - 1 < x /\ (x - 1) + 1 = x /\ x - 1 < N
  BY <1>5
<1>7. x - 1 \in S
  BY <1>4, <1>6
<1> QED
  BY <1>5, <1>6, <1>7

(* The definition of a way by recursion defines what it says.              *)
LEMMA WayDefined ==
  ASSUME NEW lk, NEW s, Len(s) \in Nat
  PROVE  Way(lk, s) = [k \in 0..Len(s) |->
                         IF k = 0 THEN 0 ELSE Child(lk, Way(lk, s)[k - 1], s[k])]
<1> DEFINE N == Len(s)
           Upto(f, n) == f = [k \in 0..n |-> IF k = 0 THEN 0 ELSE Child(lk, f[k - 1], s[k])]
           S == {n \in 0..N : \E f : Upto(f, n)}
<1>1. 0 \in S
  <2> DEFINE g == [k \in 0..0 |-> 0]
  <2>1. g = [k \in 0..0 |-> IF k = 0 THEN 0 ELSE Child(lk, g[k - 1], s[k])]
    <3>1. \A k \in 0..0 : k = 0
      OBVIOUS
    <3> QED
      BY <3>1
  <2>2. Upto(g, 0)
    BY <2>1
  <2> HIDE DEF g, Upto
  <2> QED
    BY <2>2
<1>2. ASSUME NEW n \in 0..N, n \in S, n < N PROVE n + 1 \in S
  <2>1. PICK f : Upto(f, n)
    BY <1>2
  <2> DEFINE g == [k \in 0..n + 1 |-> IF k = n + 1 THEN Child(lk, f[n], s[n + 1]) ELSE f[k]]
  <2>2. \A k \in 0..n + 1 : g[k] = IF k = 0 THEN 0 ELSE Child(lk, g[k - 1], s[k])
    <3> SUFFICES ASSUME NEW k \in 0..n + 1
                 PROVE  g[k] = IF k = 0 THEN 0 ELSE Child(lk, g[k - 1], s[k])
      OBVIOUS
    <3>1. CASE k = 0
      BY <2>1, <3>1
    <3>2. CASE k = n + 1
      BY <3>2
    <3>3. CASE k \in 1..n
      <4>1. k - 1 \in 0..n /\ k \in 0..n /\ k # n + 1 /\ k - 1 # n + 1 /\ k # 0
        BY <3>3
      <4>2. f[k] = Child(lk, f[k - 1], s[k])
        BY <2>1, <4>1
      <4>3. g[k] = f[k] /\ g[k - 1] = f[k - 1]
        BY <4>1
      <4> QED
        BY <4>1, <4>2, <4>3
    <3> QED
      BY <3>1, <3>2, <3>3
  <2>3. g = [k \in 0..n + 1 |-> g[k]]
    OBVIOUS
  <2> HIDE DEF g
  <2>4. g = [k \in 0..n + 1 |-> IF k = 0 THEN 0 ELSE Child(lk, g[k - 1], s[k])]
    BY <2>2, <2>3
  <2>5. Upto(g, n + 1)
    BY <2>4
  <2> HIDE DEF Upto
  <2> QED
    BY <1>2, <2>5
<1>3. N \in S
  <2> HIDE DEF S
  <2>1. \A k \in 0..N : k \in S /\ k < N => k + 1 \in S
    BY <1>2
  <2>2. N \in Nat
    OBVIOUS
  <2> HIDE DEF N
  <2>3. \A k \in 0..N : k \in S
    BY <1>1, <2>1, <2>2, UpTo
  <2> QED
    BY <2>2, <2>3
<1>4. \E f : Upto(f, N)
  BY <1>3
<1> DEFINE at == CHOOSE f : Upto(f, N)
<1>5. Way(lk, s) = at
  BY DEF Way
<1>6. Upto(at, N)
  <2> HIDE DEF Upto
  <2> QED
    BY <1>4
<1> QED
  BY <1>5, <1>6

(* The steps of a path: the pointer root, then its characters.             *)
LEMMA StepsAre ==
  ASSUME NEW p \in Text
  PROVE  /\ p \in Seq(Char) /\ Len(p) \in Nat /\ Len(p) >= 1
         /\ Len(Steps(p)) = Len(p) + 1
         /\ Steps(p)[1] = Top
         /\ \A k \in 2..Len(p) + 1 : /\ Steps(p)[k] = p[k - 1]
                                     /\ Steps(p)[k] \in Char
                                     /\ Steps(p)[k] # Top
<1>1. p \in Seq(Char) /\ p # <<>> /\ Top \notin Char
  BY TextAssumption, ThreadsAssumption
<1>2. Len(p) \in Nat /\ Len(p) >= 1
  BY <1>1
<1>3. Steps(p) = [k \in 1..Len(p) + 1 |-> IF k <= 1 THEN <<Top>>[k] ELSE p[k - 1]]
  BY <1>1, <1>2 DEF Steps
<1>4. Len(Steps(p)) = Len(p) + 1
  BY <1>1, <1>2 DEF Steps
<1>5. \A k \in 2..Len(p) + 1 : Steps(p)[k] = p[k - 1] /\ p[k - 1] \in Char
  BY <1>1, <1>2, <1>3
<1>6. Steps(p)[1] = Top
  BY <1>1, <1>2, <1>3
<1> QED
  BY <1>1, <1>2, <1>4, <1>5, <1>6

(* A prefix, by its characters and by the steps of the two paths.          *)
LEMMA PrefixIs ==
  ASSUME NEW a \in Text, NEW b \in Text
  PROVE  /\ IsPrefix(a, b) <=> Len(a) <= Len(b) /\ \A i \in 1..Len(a) : a[i] = b[i]
         /\ IsPrefix(a, b) <=> /\ Len(a) <= Len(b)
                               /\ \A i \in 1..Len(a) + 1 : Steps(a)[i] = Steps(b)[i]
<1>1. a \in Seq(Char) /\ b \in Seq(Char)
  BY TextAssumption
<1>2. IsPrefix(a, b) <=> Len(a) <= Len(b) /\ \A i \in 1..Len(a) : a[i] = b[i]
  BY <1>1 DEF IsPrefix
<1>3. ASSUME Len(a) <= Len(b)
      PROVE  (\A i \in 1..Len(a) : a[i] = b[i])
               <=> (\A i \in 1..Len(a) + 1 : Steps(a)[i] = Steps(b)[i])
  <2>1. Len(a) \in Nat /\ Len(b) \in Nat
    BY <1>1
  <2>2. ASSUME \A i \in 1..Len(a) : a[i] = b[i], NEW i \in 1..Len(a) + 1
        PROVE  Steps(a)[i] = Steps(b)[i]
    <3>1. CASE i = 1
      BY <3>1, StepsAre
    <3>2. CASE i # 1
      <4>1. i \in 2..Len(a) + 1 /\ i \in 2..Len(b) + 1 /\ i - 1 \in 1..Len(a)
        BY <1>3, <2>1, <3>2
      <4> QED
        BY <2>2, <4>1, StepsAre
    <3> QED
      BY <3>1, <3>2
  <2>3. ASSUME \A i \in 1..Len(a) + 1 : Steps(a)[i] = Steps(b)[i], NEW i \in 1..Len(a)
        PROVE  a[i] = b[i]
    <3>1. i + 1 \in 2..Len(a) + 1 /\ i + 1 \in 2..Len(b) + 1 /\ (i + 1) - 1 = i /\ i + 1 \in 1..Len(a) + 1
      BY <1>3, <2>1
    <3>2. Steps(a)[i + 1] = a[i] /\ Steps(b)[i + 1] = b[i]
      BY <3>1, StepsAre
    <3> QED
      BY <2>3, <3>1, <3>2
  <2> QED
    BY <2>2, <2>3
<1> QED
  BY <1>2, <1>3

(* What the links keep to: the pointer root is the only link from the      *)
(* place 0, and no node is linked twice.                                   *)
LinksTo(lk, N) ==
  /\ lk \in [DOMAIN lk -> 1..N]
  /\ \A l \in DOMAIN lk : l \in (0..N) \X (Char \union {Top})
  /\ \A c \in Char : <<0, c>> \notin DOMAIN lk
  /\ \A l, m \in DOMAIN lk : lk[l] = lk[m] => l = m

(* A way starts at the place 0 and takes the steps of the path.            *)
LEMMA WaySteps ==
  ASSUME NEW lk, NEW p \in Text
  PROVE  /\ Way(lk, Steps(p))[0] = 0
         /\ \A k \in 1..Len(p) + 1 :
              Way(lk, Steps(p))[k] = Child(lk, Way(lk, Steps(p))[k - 1], Steps(p)[k])
<1>1. Len(Steps(p)) = Len(p) + 1 /\ Len(p) \in Nat
  BY StepsAre
<1>2. Way(lk, Steps(p)) = [k \in 0..Len(p) + 1 |->
         IF k = 0 THEN 0 ELSE Child(lk, Way(lk, Steps(p))[k - 1], Steps(p)[k])]
  BY <1>1, WayDefined
<1> HIDE DEF Steps
<1> DEFINE w == Way(lk, Steps(p))
<1> HIDE DEF w
<1>3. w = [k \in 0..Len(p) + 1 |-> IF k = 0 THEN 0 ELSE Child(lk, w[k - 1], Steps(p)[k])]
  BY <1>2 DEF w
<1>4. 0 \in 0..Len(p) + 1 /\ \A k \in 1..Len(p) + 1 : k \in 0..Len(p) + 1 /\ k # 0
  BY <1>1
<1>5. w[0] = 0 /\ \A k \in 1..Len(p) + 1 : w[k] = Child(lk, w[k - 1], Steps(p)[k])
  BY <1>3, <1>4
<1> QED
  BY <1>5 DEF w

(* The places on a way are nodes, or 0 from where it ends.                 *)
LEMMA WayRange ==
  ASSUME NEW N \in Nat, NEW lk, LinksTo(lk, N), NEW p \in Text
  PROVE  /\ \A k \in 0..Len(p) + 1 : Way(lk, Steps(p))[k] \in 0..N
         /\ \A k \in 1..Len(p) : Way(lk, Steps(p))[k] = 0 => Way(lk, Steps(p))[k + 1] = 0
<1> DEFINE w == Way(lk, Steps(p))
<1>1. w[0] = 0 /\ \A k \in 1..Len(p) + 1 : w[k] = Child(lk, w[k - 1], Steps(p)[k])
  BY WaySteps
<1>2. Len(p) \in Nat /\ \A k \in 2..Len(p) + 1 : Steps(p)[k] \in Char
  BY StepsAre
<1> HIDE DEF w
<1>3. \A a, c : Child(lk, a, c) \in 0..N
  BY DEF Child, LinksTo
<1>4. \A k \in 0..Len(p) + 1 : k = 0 \/ k \in 1..Len(p) + 1
  BY <1>2
<1>5. \A k \in 0..Len(p) + 1 : w[k] \in 0..N
  BY <1>1, <1>3, <1>4
<1>6. ASSUME NEW k \in 1..Len(p), w[k] = 0 PROVE w[k + 1] = 0
  <2>1. k + 1 \in 1..Len(p) + 1 /\ k + 1 \in 2..Len(p) + 1 /\ (k + 1) - 1 = k
    BY <1>2
  <2>2. w[k + 1] = Child(lk, 0, Steps(p)[k + 1]) /\ Steps(p)[k + 1] \in Char
    BY <1>1, <1>2, <1>6, <2>1
  <2> QED
    BY <2>2 DEF Child, LinksTo
<1> QED
  BY <1>5, <1>6 DEF w

(* A way that has ended stays ended.                                       *)
LEMMA WayEnded ==
  ASSUME NEW N \in Nat, NEW lk, LinksTo(lk, N), NEW p \in Text,
         NEW j \in 1..Len(p) + 1, Way(lk, Steps(p))[j] = 0
  PROVE  \A k \in j..Len(p) + 1 : Way(lk, Steps(p))[k] = 0
<1> DEFINE w == Way(lk, Steps(p))
           M == Len(p) + 1 - j
           S == {d \in 0..M : w[j + d] = 0}
<1>1. Len(p) \in Nat /\ \A k \in 1..Len(p) : w[k] = 0 => w[k + 1] = 0
  BY WayRange, StepsAre
<1>2. M \in Nat /\ 0 \in S
  BY <1>1
<1> HIDE DEF w
<1>3. ASSUME NEW d \in 0..M, d \in S, d < M PROVE d + 1 \in S
  <2>1. j + d \in 1..Len(p) /\ j + (d + 1) = (j + d) + 1 /\ d + 1 \in 0..M
    BY <1>1, <1>3
  <2> QED
    BY <1>1, <1>3, <2>1
<1>4. \A d \in 0..M : d \in S
  <2> HIDE DEF S
  <2>1. \A d \in 0..M : d \in S /\ d < M => d + 1 \in S
    BY <1>3
  <2> HIDE DEF M
  <2> QED
    BY <1>2, <2>1, UpTo
<1>5. ASSUME NEW k \in j..Len(p) + 1 PROVE w[k] = 0
  <2>1. k - j \in 0..M /\ j + (k - j) = k
    BY <1>1
  <2>2. k - j \in S
    BY <1>4, <2>1
  <2> QED
    BY <2>1, <2>2
<1> QED
  BY <1>5 DEF w

(* Paths that take the same steps come the same way.                       *)
LEMMA WayShared ==
  ASSUME NEW lk, NEW p \in Text, NEW r \in Text,
         NEW K \in Nat, K <= Len(p) + 1, K <= Len(r) + 1,
         \A k \in 1..K : Steps(p)[k] = Steps(r)[k]
  PROVE  \A k \in 0..K : Way(lk, Steps(p))[k] = Way(lk, Steps(r))[k]
<1> DEFINE w == Way(lk, Steps(p))
           v == Way(lk, Steps(r))
           S == {k \in 0..K : w[k] = v[k]}
<1>1. /\ w[0] = 0 /\ \A k \in 1..Len(p) + 1 : w[k] = Child(lk, w[k - 1], Steps(p)[k])
      /\ v[0] = 0 /\ \A k \in 1..Len(r) + 1 : v[k] = Child(lk, v[k - 1], Steps(r)[k])
  BY WaySteps
<1>2. Len(p) \in Nat /\ Len(r) \in Nat
  BY StepsAre
<1> HIDE DEF w, v
<1>3. 0 \in S
  BY <1>1
<1>4. ASSUME NEW k \in 0..K, k \in S, k < K PROVE k + 1 \in S
  <2>1. k + 1 \in 1..Len(p) + 1 /\ k + 1 \in 1..Len(r) + 1 /\ (k + 1) - 1 = k /\ k + 1 \in 0..K /\ k + 1 \in 1..K
    BY <1>2, <1>4
  <2>2. w[k + 1] = Child(lk, w[k], Steps(p)[k + 1]) /\ v[k + 1] = Child(lk, v[k], Steps(r)[k + 1])
    BY <1>1, <2>1
  <2> QED
    BY <1>4, <2>1, <2>2
<1>5. \A k \in 0..K : k \in S
  <2> HIDE DEF S
  <2>1. \A k \in 0..K : k \in S /\ k < K => k + 1 \in S
    BY <1>4
  <2> QED
    BY <1>3, <2>1, UpTo
<1> QED
  BY <1>5 DEF w, v

(* Reading a link after one has been overwritten.                          *)
LEMMA RelinkChild ==
  ASSUME NEW lk, NEW a, NEW c, NEW m, NEW x, NEW y
  PROVE  Child(Relink(lk, a, c, m), x, y) = IF x = a /\ y = c THEN m ELSE Child(lk, x, y)
<1>1. <<x, y>> = <<a, c>> <=> x = a /\ y = c
  OBVIOUS
<1>2. <<x, y>> \in DOMAIN Relink(lk, a, c, m) <=> <<x, y>> = <<a, c>> \/ <<x, y>> \in DOMAIN lk
  BY DEF Relink
<1> QED
  BY <1>1, <1>2 DEF Relink, Child

(* A new node is linked from a along c, over what was there.               *)
Edge(N, a, c, m) == /\ N \in Nat /\ m = N + 1
                    /\ a \in 0..N /\ c \in Char \union {Top} /\ (a = 0 => c = Top)

(* The links after one was overwritten keep to what links keep to.         *)
LEMMA RelinkIs ==
  ASSUME NEW N, NEW lk, LinksTo(lk, N),
         NEW a, NEW c, NEW m, Edge(N, a, c, m)
  PROVE  /\ LinksTo(Relink(lk, a, c, m), m)
         /\ DOMAIN Relink(lk, a, c, m) = {<<a, c>>} \union DOMAIN lk
         /\ Relink(lk, a, c, m)[<<a, c>>] = m
         /\ \A l \in DOMAIN lk : l # <<a, c>> => Relink(lk, a, c, m)[l] = lk[l]
<1> DEFINE rk == Relink(lk, a, c, m)
<1>0. N \in Nat /\ m = N + 1 /\ a # m
  BY DEF Edge
<1>1. rk = [l \in {<<a, c>>} \union DOMAIN lk |-> IF l = <<a, c>> THEN m ELSE lk[l]]
  BY DEF Relink, Edge
<1> HIDE DEF rk
<1>2. DOMAIN rk = {<<a, c>>} \union DOMAIN lk
  BY <1>1
<1>3. rk[<<a, c>>] = m /\ \A l \in DOMAIN lk : l # <<a, c>> => rk[l] = lk[l]
  BY <1>1
<1>4. LinksTo(rk, m)
  <2>1. \A l \in DOMAIN lk : lk[l] \in 1..N
    BY DEF LinksTo
  <2>2. rk \in [DOMAIN rk -> 1..m]
    BY <1>0, <1>1, <1>2, <2>1
  <2>3. \A l \in DOMAIN rk : l \in (0..m) \X (Char \union {Top})
    BY <1>2 DEF LinksTo, Edge
  <2>4. \A d \in Char : <<0, d>> \notin DOMAIN rk
    BY <1>2, ThreadsAssumption DEF LinksTo, Edge
  <2>5. \A l, k \in DOMAIN rk : rk[l] = rk[k] => l = k
    <3> SUFFICES ASSUME NEW l \in DOMAIN rk, NEW k \in DOMAIN rk, rk[l] = rk[k] PROVE l = k
      OBVIOUS
    <3>1. \A e \in DOMAIN rk : e # <<a, c>> => e \in DOMAIN lk /\ rk[e] = lk[e] /\ rk[e] # m
      BY <1>0, <1>2, <1>3, <2>1
    <3> QED
      BY <1>3, <3>1 DEF LinksTo
  <2> QED
    BY <2>2, <2>3, <2>4, <2>5 DEF LinksTo
<1> QED
  BY <1>2, <1>3, <1>4 DEF rk

(* A way that does not take the link stays, up to where it would.          *)
LEMMA WayKept ==
  ASSUME NEW N, NEW lk, LinksTo(lk, N),
         NEW a, NEW c, NEW m, Edge(N, a, c, m),
         NEW p \in Text, NEW K \in Nat, K <= Len(p) + 1,
         \A k \in 1..K : ~(Way(lk, Steps(p))[k - 1] = a /\ Steps(p)[k] = c)
  PROVE  \A k \in 0..K : Way(Relink(lk, a, c, m), Steps(p))[k] = Way(lk, Steps(p))[k]
<1> DEFINE rk == Relink(lk, a, c, m)
           w == Way(lk, Steps(p))
           v == Way(rk, Steps(p))
           S == {k \in 0..K : v[k] = w[k]}
<1>1. /\ w[0] = 0 /\ \A k \in 1..Len(p) + 1 : w[k] = Child(lk, w[k - 1], Steps(p)[k])
      /\ v[0] = 0 /\ \A k \in 1..Len(p) + 1 : v[k] = Child(rk, v[k - 1], Steps(p)[k])
  BY WaySteps
<1>2. Len(p) \in Nat
  BY StepsAre
<1>3. \A x, y : Child(rk, x, y) = IF x = a /\ y = c THEN m ELSE Child(lk, x, y)
  BY RelinkChild
<1>4. \A k \in 1..K : ~(w[k - 1] = a /\ Steps(p)[k] = c)
  OBVIOUS
<1> HIDE DEF w, v, rk
<1>5. 0 \in S
  BY <1>1
<1>6. ASSUME NEW k \in 0..K, k \in S, k < K PROVE k + 1 \in S
  <2>1. k + 1 \in 1..Len(p) + 1 /\ (k + 1) - 1 = k /\ k + 1 \in 0..K /\ k + 1 \in 1..K
    BY <1>2, <1>6
  <2>2. w[k + 1] = Child(lk, w[k], Steps(p)[k + 1]) /\ v[k + 1] = Child(rk, v[k], Steps(p)[k + 1])
    BY <1>1, <2>1
  <2>3. ~(w[k] = a /\ Steps(p)[k + 1] = c)
    BY <1>4, <2>1
  <2> QED
    BY <1>3, <1>6, <2>1, <2>2, <2>3
<1>7. \A k \in 0..K : k \in S
  <2> HIDE DEF S
  <2>1. \A k \in 0..K : k \in S /\ k < K => k + 1 \in S
    BY <1>6
  <2> QED
    BY <1>5, <2>1, UpTo
<1> QED
  BY <1>7 DEF w, v, rk

(* A way that takes the link leads to the new node, and no further.        *)
LEMMA WayRelinked ==
  ASSUME NEW N, NEW lk, LinksTo(lk, N),
         NEW a, NEW c, NEW m, Edge(N, a, c, m),
         NEW p \in Text
  PROVE  \A k \in 0..Len(p) + 1 :
           LET n == Way(Relink(lk, a, c, m), Steps(p))[k]
           IN n \in {Way(lk, Steps(p))[k], m, 0}
<1> DEFINE rk == Relink(lk, a, c, m)
           w == Way(lk, Steps(p))
           v == Way(rk, Steps(p))
           L == Len(p) + 1
           S == {k \in 0..L : v[k] \in {w[k], m, 0}}
<1>1. /\ w[0] = 0 /\ \A k \in 1..L : w[k] = Child(lk, w[k - 1], Steps(p)[k])
      /\ v[0] = 0 /\ \A k \in 1..L : v[k] = Child(rk, v[k - 1], Steps(p)[k])
  BY WaySteps
<1>2. Len(p) \in Nat /\ L \in Nat /\ \A k \in 2..L : Steps(p)[k] \in Char
  BY StepsAre
<1>3. /\ \A x, y : Child(rk, x, y) = IF x = a /\ y = c THEN m ELSE Child(lk, x, y)
      /\ LinksTo(rk, m)
  <2>1. LinksTo(rk, m)
    BY RelinkIs
  <2> QED
    BY <2>1, RelinkChild
<1> HIDE DEF w, v, rk
<1>4. 0 \in S
  BY <1>1
<1>5. ASSUME NEW k \in 0..L, k \in S, k < L PROVE k + 1 \in S
  <2>1. k + 1 \in 1..L /\ (k + 1) - 1 = k /\ k + 1 \in 0..L
    BY <1>2, <1>5
  <2>2. w[k + 1] = Child(lk, w[k], Steps(p)[k + 1]) /\ v[k + 1] = Child(rk, v[k], Steps(p)[k + 1])
    BY <1>1, <2>1
  <2>3. CASE v[k] = w[k]
    BY <1>3, <2>1, <2>2, <2>3
  <2>4. CASE v[k] = m
    <3>1. \A y : <<m, y>> \notin DOMAIN lk
      BY DEF LinksTo, Edge
    <3> QED
      BY <1>3, <2>1, <2>2, <2>4, <3>1 DEF Child, Edge
  <2>5. CASE v[k] = 0 /\ v[k] # w[k]
    <3>1. k # 0
      BY <1>1, <2>5
    <3>2. Steps(p)[k + 1] \in Char
      BY <1>2, <1>5, <3>1
    <3> QED
      BY <1>3, <2>1, <2>2, <2>5, <3>2 DEF Child, LinksTo
  <2> QED
    BY <1>5, <2>3, <2>4, <2>5
<1>6. \A k \in 0..L : k \in S
  <2> HIDE DEF S
  <2>1. \A k \in 0..L : k \in S /\ k < L => k + 1 \in S
    BY <1>5
  <2> HIDE DEF L
  <2> QED
    BY <1>2, <1>4, <2>1, UpTo
<1> QED
  BY <1>6 DEF w, v, rk

-----------------------------------------------------------------------------
(* The calls.  Where one is: the number of steps of its path it has taken. *)
PosIn(c) == IF c.stage \in {"owner", "end", "look"} THEN c.i ELSE c.i - 1

(* What the place of a call says of its stage.                             *)
Fit(c) ==
  LET last == Len(Steps(c.path))
  IN /\ c \in Call
     /\ c.i \in 1..last + 1
     /\ c.stage \in {"return", "erase"} <=> c.i = last + 1
     /\ c.op = "insert" => c.server \in Server /\ c.stage \in {"walk", "link", "owner", "end"}
     /\ c.op = "delete" => c.stage \in {"walk", "look", "return", "again", "erase"}
     /\ c.op = "search" => c.stage \in {"walk", "look", "return"}
     /\ c.stage \in {"owner", "end", "look"} => c.i >= 2
     /\ c.stage \in {"owner", "end"} => Steps(c.path)[c.i] = Slash \/ c.i = last
     /\ c.at = 0 <=> PosIn(c) = 0

CallsFit == \A t \in Thread : Active(t) => Fit(call[t])

(* A call taken up later is the same call.                                 *)
SameCall(c, d) == d.op = c.op /\ d.path = c.path /\ d.server = c.server /\ d.alone = c.alone

(* A thread is in a call or in none.                                       *)
LEMMA NoneIsNoCall == None \notin Call
  BY DEF None, Call, Op

(* What Onward makes of a call that has come to a node, field by field.    *)
LEMMA OnwardIs ==
  ASSUME NEW c \in Call, NEW n \in Nat, c.i \in 1..Len(Steps(c.path))
  PROVE  /\ Onward([c EXCEPT !.at = n]) \in Call
         /\ SameCall(c, Onward([c EXCEPT !.at = n]))
         /\ Onward([c EXCEPT !.at = n]).at = n
         /\ Onward([c EXCEPT !.at = n]).i = c.i + 1
         /\ Onward([c EXCEPT !.at = n]).stage =
              IF c.i < Len(Steps(c.path))
              THEN IF c.stage = "again" THEN "again" ELSE "walk"
              ELSE IF c.stage = "again" THEN "erase" ELSE "return"
<1> DEFINE h == [c EXCEPT !.at = n]
<1>0. Len(Steps(c.path)) \in Nat
  BY StepsAre DEF Call
<1>1. /\ h \in Call /\ SameCall(c, h) /\ h.at = n /\ h.i = c.i /\ h.stage = c.stage
  BY DEF Call, SameCall
<1> HIDE DEF h
<1>2. Onward(h) = [h EXCEPT !.i = c.i + 1,
                    !.stage = IF c.i < Len(Steps(c.path))
                              THEN IF c.stage = "again" THEN "again" ELSE "walk"
                              ELSE IF c.stage = "again" THEN "erase" ELSE "return"]
  BY <1>0, <1>1 DEF Onward, SameCall
<1>3. c.i + 1 \in Nat
  BY <1>0
<1> QED
  BY <1>1, <1>2, <1>3 DEF Call, SameCall, Stage, h

(* A call that goes on from a node to which it has come still fits.        *)
LEMMA OnwardFits ==
  ASSUME NEW c, Fit(c), NEW n \in Nat, c.i < Len(Steps(c.path)) + 1, n # 0, c.op = "insert" => c.i < Len(Steps(c.path))
  PROVE  Fit(Onward([c EXCEPT !.at = n]))
<1>0. c.path \in Text /\ Len(c.path) \in Nat /\ Len(Steps(c.path)) = Len(c.path) + 1 /\ Len(c.path) >= 1
  BY StepsAre DEF Fit, Call
<1>1. c \in Call /\ c.i \in 1..Len(Steps(c.path))
  BY <1>0 DEF Fit
<1>2. Onward([c EXCEPT !.at = n]) \in Call /\ SameCall(c, Onward([c EXCEPT !.at = n])) /\ Onward([c EXCEPT !.at = n]).at = n
  BY <1>1, OnwardIs
<1>3. Onward([c EXCEPT !.at = n]).i = c.i + 1
  BY <1>1, OnwardIs
<1>4. Onward([c EXCEPT !.at = n]).stage =
              IF c.i < Len(Steps(c.path))
              THEN IF c.stage = "again" THEN "again" ELSE "walk"
              ELSE IF c.stage = "again" THEN "erase" ELSE "return"
  BY <1>1, OnwardIs
<1> DEFINE d == Onward([c EXCEPT !.at = n])
<1> HIDE DEF d
<1> QED
  BY <1>0, <1>1, <1>2, <1>3, <1>4, SMTT(30) DEF Fit, PosIn, SameCall, d

(* A call that follows a link is one step further, at the node it led to.  *)
LEMMA ArrivedFits ==
  ASSUME NEW c, Fit(c), c.stage \in {"walk", "again"}, NEW n \in Nat, n # 0
  PROVE  /\ Fit(Arrived(c, n)) /\ SameCall(c, Arrived(c, n)) /\ Arrived(c, n).at = n
         /\ c.i = PosIn(c) + 1
         /\ PosIn(Arrived(c, n)) = c.i
         /\ Arrived(c, n).i \in {c.i, c.i + 1}
         /\ Arrived(c, n).i = c.i + 1 /\ c.op = "insert" /\ c.i # 1 =>
              c.i < Len(Steps(c.path)) /\ Steps(c.path)[c.i] # Slash
         /\ Arrived(c, n).i = c.i + 1 /\ c.op # "insert" /\ c.stage # "again" => c.i = 1
         /\ Arrived(c, n).stage \in {"again", "erase"} <=> c.stage = "again"
         /\ Arrived(c, n).stage = "end" => Steps(c.path)[c.i] # Slash
         /\ Arrived(c, n).stage = "owner" => Steps(c.path)[c.i] = Slash
         /\ Arrived(c, n).stage # "link"
<1>0. c.path \in Text /\ Len(c.path) \in Nat /\ Len(Steps(c.path)) = Len(c.path) + 1 /\ Len(c.path) >= 1
  BY StepsAre DEF Fit, Call
<1>1. c \in Call /\ c.i \in 1..Len(Steps(c.path))
  BY <1>0 DEF Fit
<1> DEFINE h == [c EXCEPT !.at = n]
           o == Onward(h)
           d == Arrived(c, n)
<1>2. /\ o \in Call /\ SameCall(c, o) /\ o.at = n /\ o.i = c.i + 1
      /\ o.stage = IF c.i < Len(Steps(c.path))
                   THEN IF c.stage = "again" THEN "again" ELSE "walk"
                   ELSE IF c.stage = "again" THEN "erase" ELSE "return"
  BY <1>1, OnwardIs
<1>3. c.i < Len(Steps(c.path)) + 1 /\ (c.op = "insert" /\ c.i = 1 => c.i < Len(Steps(c.path)))
  BY <1>0, <1>1
<1>4. (c.op = "insert" => c.i < Len(Steps(c.path))) => Fit(o)
  BY <1>1, <1>3, OnwardFits
<1>5. c.i = PosIn(c) + 1 /\ PosIn(o) = c.i
  BY <1>0, <1>1, <1>2 DEF PosIn
<1>6. ASSUME NEW st \in {"look", "owner", "end"}, d = [h EXCEPT !.stage = st], c.i # 1,
             c.stage = "walk"
      PROVE  /\ d \in Call /\ SameCall(c, d) /\ d.at = n /\ d.i = c.i /\ PosIn(d) = c.i /\ d.stage = st
             /\ (st = "look" <=> c.op # "insert") /\ (st # "look" => Steps(c.path)[c.i] = Slash \/ c.i = Len(Steps(c.path)))
                  => Fit(d)
  <2>1. d \in Call /\ SameCall(c, d) /\ d.at = n /\ d.i = c.i /\ d.stage = st
    BY <1>1, <1>6 DEF Call, SameCall, Stage
  <2> HIDE DEF d
  <2> QED
    BY <1>0, <1>1, <1>6, <2>1 DEF Fit, PosIn, SameCall, Call, Op
<1> HIDE DEF h
<1>7. CASE c.stage = "again" \/ c.i = 1
  <2>1. d = o
    BY <1>7 DEF Arrived, h
  <2>2. c.op = "insert" => c.i < Len(Steps(c.path))
    BY <1>3, <1>7 DEF Fit
  <2>3. c.stage = "again" => c.op # "insert"
    BY DEF Fit
  <2> HIDE DEF o
  <2> QED
    BY <1>0, <1>1, <1>2, <1>4, <1>5, <1>7, <2>1, <2>2, <2>3
<1>8. CASE ~(c.stage = "again" \/ c.i = 1) /\ c.op # "insert"
  <2>1. d = [h EXCEPT !.stage = "look"]
    BY <1>8 DEF Arrived, h
  <2> HIDE DEF o
  <2> QED
    BY <1>0, <1>1, <1>5, <1>6, <1>8, <2>1
<1>9. CASE ~(c.stage = "again" \/ c.i = 1) /\ c.op = "insert"
  <2>1. CASE Steps(c.path)[c.i] = Slash
    <3>1. d = [h EXCEPT !.stage = "owner"]
      BY <1>9, <2>1 DEF Arrived, h
    <3> HIDE DEF o
    <3> QED
      BY <1>0, <1>1, <1>5, <1>6, <1>9, <2>1, <3>1
  <2>2. CASE Steps(c.path)[c.i] # Slash /\ c.i = Len(Steps(c.path))
    <3>1. d = [h EXCEPT !.stage = "end"]
      BY <1>9, <2>2 DEF Arrived, h
    <3> HIDE DEF o
    <3> QED
      BY <1>0, <1>1, <1>5, <1>6, <1>9, <2>2, <3>1
  <2>3. CASE Steps(c.path)[c.i] # Slash /\ c.i # Len(Steps(c.path))
    <3>1. d = o
      BY <1>9, <2>3 DEF Arrived, h
    <3>2. c.i < Len(Steps(c.path))
      BY <1>0, <1>1, <2>3
    <3> HIDE DEF o
    <3> QED
      BY <1>0, <1>1, <1>2, <1>4, <1>5, <1>9, <2>3, <3>1, <3>2
  <2> QED
    BY <2>1, <2>2, <2>3
<1> QED
  BY <1>7, <1>8, <1>9

(* A call that moves on from its node.                                     *)
LEMMA LeaveFits ==
  ASSUME NEW c, Fit(c), c.stage \in {"end", "look"}, c.op = "insert" => c.i < Len(Steps(c.path))
  PROVE  /\ Fit(Onward(c)) /\ SameCall(c, Onward(c)) /\ Onward(c).at = c.at
         /\ Onward(c).i = c.i + 1
         /\ PosIn(Onward(c)) = c.i /\ PosIn(c) = c.i
         /\ Onward(c).stage \in {"walk", "return"}
<1>0. c.path \in Text /\ Len(c.path) \in Nat /\ Len(Steps(c.path)) = Len(c.path) + 1 /\ Len(c.path) >= 1
  BY StepsAre DEF Fit, Call
<1>1. c \in Call /\ c.i \in 1..Len(Steps(c.path)) /\ c.at \in Nat /\ c.at # 0 /\ PosIn(c) = c.i
  BY <1>0 DEF Fit, Call, PosIn
<1>2. [c EXCEPT !.at = c.at] = c
  BY <1>1 DEF Call
<1>3. /\ SameCall(c, Onward(c)) /\ Onward(c).at = c.at /\ Onward(c).i = c.i + 1
      /\ Onward(c).stage = IF c.i < Len(Steps(c.path))
                           THEN IF c.stage = "again" THEN "again" ELSE "walk"
                           ELSE IF c.stage = "again" THEN "erase" ELSE "return"
  BY <1>1, <1>2, OnwardIs
<1>4. Fit(Onward(c))
  BY <1>0, <1>1, <1>2, OnwardFits
<1> QED
  BY <1>0, <1>1, <1>3, <1>4 DEF PosIn

TypeInv == ThreadsTypeOK /\ CallsFit /\ LinksTo(link, Len(node))

(* A call stays where it is, follows a link, or starts from the top again. *)
Moved(t) ==
  \/ call'[t].at = call[t].at /\ PosIn(call'[t]) = PosIn(call[t])
  \/ /\ call[t].stage \in {"walk", "again"} /\ Linked(t) /\ PosIn(call'[t]) = call[t].i
     /\ call'[t].at = link[<<call[t].at, Step(t)>>]
  \/ call'[t].at = 0 /\ PosIn(call'[t]) = 0

Works(t) == \/ Walk(t) \/ MakeNode(t) \/ WriteOwner(t) \/ WriteEnd(t)
            \/ Look(t) \/ ReadResult(t) \/ Erase(t)

(* What every step of a call does: the other calls stay, its own stays the *)
(* same call, or ends.                                                     *)
LEMMA Moves ==
  ASSUME TypeInv, NEW t \in Thread, Works(t)
  PROVE  /\ Active(t) /\ Fit(call[t])
         /\ call' \in [Thread -> Call \union {None}]
         /\ \A u \in Thread : u # t => call'[u] = call[u]
         /\ call'[t] # None => Fit(call'[t]) /\ SameCall(call[t], call'[t]) /\ Moved(t)
<1>1. Active(t) /\ Fit(call[t]) /\ call \in [Thread -> Call \union {None}]
  BY DEF Works, Walk, MakeNode, WriteOwner, WriteEnd, Look, ReadResult, Erase, TypeInv,
         CallsFit, ThreadsTypeOK
<1>2. /\ call[t] \in Call /\ call[t].path \in Text
      /\ Len(call[t].path) \in Nat /\ Len(Steps(call[t].path)) = Len(call[t].path) + 1
  BY <1>1, StepsAre DEF Fit, Call
<1>3. ASSUME NEW c, GoOn(t, c), Fit(c), SameCall(call[t], c),
             \/ c.at = call[t].at /\ PosIn(c) = PosIn(call[t])
             \/ /\ call[t].stage \in {"walk", "again"} /\ Linked(t) /\ PosIn(c) = call[t].i
                /\ c.at = link[<<call[t].at, Step(t)>>]
             \/ c.at = 0 /\ PosIn(c) = 0
      PROVE  /\ call' \in [Thread -> Call \union {None}]
             /\ \A u \in Thread : u # t => call'[u] = call[u]
             /\ call'[t] # None => Fit(call'[t]) /\ SameCall(call[t], call'[t]) /\ Moved(t)
  <2>1. call' = [call EXCEPT ![t] = c] /\ c \in Call
    BY <1>3 DEF GoOn, Fit
  <2>2. call'[t] = c
    BY <1>1, <2>1
  <2> QED
    BY <1>1, <1>3, <2>1, <2>2 DEF Moved
<1>4. ASSUME NEW r, Return(t, r)
      PROVE  /\ call' \in [Thread -> Call \union {None}]
             /\ \A u \in Thread : u # t => call'[u] = call[u]
             /\ call'[t] = None
  BY <1>1, <1>4 DEF Return
<1>5. CASE Walk(t)
  <2>1. CASE Linked(t)
    <3> DEFINE n == link[<<call[t].at, Step(t)>>]
    <3>1. n \in Nat /\ n # 0
      BY <2>1 DEF TypeInv, LinksTo, Linked, ThreadsTypeOK
    <3>2. GoOn(t, Arrived(call[t], n)) /\ call[t].stage \in {"walk", "again"}
      BY <1>5, <2>1 DEF Walk
    <3> HIDE DEF n
    <3>3. /\ Fit(Arrived(call[t], n)) /\ SameCall(call[t], Arrived(call[t], n))
          /\ Arrived(call[t], n).at = n /\ PosIn(Arrived(call[t], n)) = call[t].i
      BY <1>1, <3>1, <3>2, ArrivedFits
    <3> QED
      BY <1>1, <1>3, <2>1, <3>2, <3>3 DEF n
  <2>2. CASE ~Linked(t) /\ call[t].op = "insert"
    <3> DEFINE d == [call[t] EXCEPT !.stage = "link"]
    <3>1. GoOn(t, d) /\ call[t].stage \in {"walk", "again"}
      BY <1>5, <2>2 DEF Walk
    <3>2. Fit(d) /\ SameCall(call[t], d) /\ d.at = call[t].at /\ PosIn(d) = PosIn(call[t])
      BY <1>1, <1>2, <2>2, <3>1 DEF Fit, Call, PosIn, SameCall, Stage
    <3> HIDE DEF d
    <3> QED
      BY <1>1, <1>3, <3>1, <3>2
  <2>3. CASE ~Linked(t) /\ call[t].op # "insert"
    BY <1>1, <1>4, <1>5, <2>3 DEF Walk
  <2> QED
    BY <2>1, <2>2, <2>3
<1>6. CASE MakeNode(t)
  <2> DEFINE d == [call[t] EXCEPT !.stage = "walk"]
  <2>1. GoOn(t, d) /\ call[t].stage = "link"
    BY <1>6 DEF MakeNode
  <2>2. Fit(d) /\ SameCall(call[t], d) /\ d.at = call[t].at /\ PosIn(d) = PosIn(call[t])
    BY <1>1, <1>2, <2>1 DEF Fit, Call, PosIn, SameCall, Stage, Op
  <2> HIDE DEF d
  <2> QED
    BY <1>1, <1>3, <2>1, <2>2
<1>7. CASE WriteOwner(t)
  <2> DEFINE d == [call[t] EXCEPT !.stage = "end"]
  <2>1. CASE Step(t) = Slash
    <3>1. GoOn(t, d) /\ call[t].stage = "owner"
      BY <1>7, <2>1 DEF WriteOwner
    <3>2. Fit(d) /\ SameCall(call[t], d) /\ d.at = call[t].at /\ PosIn(d) = PosIn(call[t])
      BY <1>1, <1>2, <3>1 DEF Fit, Call, PosIn, SameCall, Stage, Op
    <3> HIDE DEF d
    <3> QED
      BY <1>1, <1>3, <3>1, <3>2
  <2>2. CASE Step(t) # Slash
    BY <1>1, <1>4, <1>7, <2>2 DEF WriteOwner
  <2> QED
    BY <2>1, <2>2
<1>8. CASE WriteEnd(t)
  <2> DEFINE d == [call[t] EXCEPT !.stage = "owner"]
  <2>0. call[t].stage = "end" /\ call[t].op = "insert" /\ call[t].i \in 1..Len(Steps(call[t].path))
    BY <1>1, <1>2, <1>8 DEF WriteEnd, Fit, Call, Op
  <2>1. CASE Step(t) # Slash
    <3>1. GoOn(t, d)
      BY <1>8, <2>1 DEF WriteEnd
    <3>2. Fit(d) /\ SameCall(call[t], d) /\ d.at = call[t].at /\ PosIn(d) = PosIn(call[t])
      BY <1>1, <1>2, <2>0 DEF Fit, Call, PosIn, SameCall, Stage, Op
    <3> HIDE DEF d
    <3> QED
      BY <1>1, <1>3, <3>1, <3>2
  <2>2. CASE Step(t) = Slash /\ call[t].i # Len(Steps(call[t].path))
    <3>1. GoOn(t, Onward(call[t])) /\ call[t].i < Len(Steps(call[t].path))
      BY <1>2, <1>8, <2>0, <2>2 DEF WriteEnd
    <3> QED
      BY <1>1, <1>3, <2>0, <3>1, LeaveFits
  <2>3. CASE Step(t) = Slash /\ call[t].i = Len(Steps(call[t].path))
    BY <1>1, <1>4, <1>8, <2>3 DEF WriteEnd
  <2> QED
    BY <2>1, <2>2, <2>3
<1>9. CASE Look(t)
  <2>1. CASE Deleted(call[t].at)
    BY <1>1, <1>4, <1>9, <2>1 DEF Look
  <2>2. CASE ~Deleted(call[t].at)
    <3>1. GoOn(t, Onward(call[t])) /\ call[t].stage = "look" /\ call[t].op # "insert"
      BY <1>1, <1>9, <2>2 DEF Look, Fit
    <3> QED
      BY <1>1, <1>3, <3>1, LeaveFits
  <2> QED
    BY <2>1, <2>2
<1>10. CASE ReadResult(t)
  <2> DEFINE d == [call[t] EXCEPT !.stage = "again", !.at = 0, !.i = 1]
  <2>1. CASE call[t].op = "delete" /\ Result(t) # NoServer
    <3>1. GoOn(t, d)
      BY <1>10, <2>1 DEF ReadResult
    <3>2. SameCall(call[t], d) /\ d \in Call /\ d.at = 0 /\ d.i = 1 /\ d.stage = "again"
      BY <1>2 DEF Call, SameCall, Stage
    <3> HIDE DEF d
    <3>3. Len(Steps(d.path)) \in Nat /\ 1 < Len(Steps(d.path))
      BY <1>2, <3>2, StepsAre DEF SameCall
    <3>4. Fit(d) /\ PosIn(d) = 0
      BY <2>1, <3>2, <3>3 DEF Fit, PosIn, SameCall
    <3> QED
      BY <1>1, <1>3, <3>1, <3>2, <3>4
  <2>2. CASE ~(call[t].op = "delete" /\ Result(t) # NoServer)
    BY <1>1, <1>4, <1>10, <2>2 DEF ReadResult
  <2> QED
    BY <2>1, <2>2
<1>11. CASE Erase(t)
  BY <1>1, <1>4, <1>11 DEF Erase
<1> QED
  BY <1>1, <1>5, <1>6, <1>7, <1>8, <1>9, <1>10, <1>11 DEF Works

-----------------------------------------------------------------------------
(* The marks, as the nodes and the links make them.                        *)
NodeRecord == [server : Route, end : BOOLEAN]

MarksOf(nd, lk) ==
  [p \in Text |-> IF /\ Way(lk, Steps(p))[Len(p) + 1] # 0
                     /\ nd[Way(lk, Steps(p))[Len(p) + 1]].end
                  THEN nd[Way(lk, Steps(p))[Len(p) + 1]].server ELSE Unmarked]

(* The marks in this state and in the next.                                *)
LEMMA MarksAre == Marks = MarksOf(node, link) /\ Marks' = MarksOf(node', link')
<1>1. \A p \in Text : Len(Steps(p)) = Len(p) + 1
  BY StepsAre
<1> QED
  BY <1>1 DEF Marks, MarksOf, NodeAt

(* Nodes and links that are well formed give marks.                        *)
LEMMA MarksType ==
  ASSUME NEW nd \in Seq(NodeRecord), NEW lk, LinksTo(lk, Len(nd))
  PROVE  /\ MarksOf(nd, lk) \in [Text -> Mark]
         /\ \A p \in Text : Way(lk, Steps(p))[Len(p) + 1] \in 0..Len(nd)
         /\ \A p \in Text : search_trie(MarksOf(nd, lk), p) \in Route
<1>1. ASSUME NEW p \in Text
      PROVE  Way(lk, Steps(p))[Len(p) + 1] \in 0..Len(nd)
  <2>1. Len(p) \in Nat /\ Len(nd) \in Nat
    BY StepsAre
  <2> QED
    BY <2>1, WayRange
<1>2. MarksOf(nd, lk) \in [Text -> Mark]
  <2> SUFFICES ASSUME NEW p \in Text,
                      Way(lk, Steps(p))[Len(p) + 1] # 0
               PROVE  nd[Way(lk, Steps(p))[Len(p) + 1]].server \in Route
    BY DEF MarksOf, Mark, Route
  <2> DEFINE n == Way(lk, Steps(p))[Len(p) + 1]
  <2>1. n \in 1..Len(nd)
    BY <1>1
  <2> HIDE DEF n
  <2>2. nd[n] \in NodeRecord
    BY <2>1
  <2> QED
    BY <2>2 DEF NodeRecord, n
<1>3. \A p \in Text : search_trie(MarksOf(nd, lk), p) \in Route
  BY <1>2 DEF search_trie, Mark, Route
<1> QED
  BY <1>1, <1>2, <1>3

(* What each call does to the nodes.                                       *)
LEMMA MakesNode ==
  ASSUME TypeInv, NEW t \in Thread, MakeNode(t)
  PROVE  /\ call[t].op = "insert" /\ call[t].stage = "link" /\ call'[t] # None
         /\ call'[t].i = call[t].i /\ call'[t].stage = "walk"
         /\ Edge(Len(node), call[t].at, Step(t), Len(node'))
         /\ link' = Relink(link, call[t].at, Step(t), Len(node'))
         /\ node' \in Seq(NodeRecord) /\ Len(node') = Len(node) + 1
         /\ node'[Len(node')] = [server |-> NoServer, end |-> FALSE]
         /\ \A n \in 1..Len(node) : node'[n] = node[n]
         /\ vars' = vars /\ astray' = astray /\ due' = due
<1>1. Fit(call[t]) /\ call[t].stage = "link" /\ call[t] \in Call /\ node \in Seq(NodeRecord)
  BY DEF TypeInv, MakeNode, CallsFit, Fit, ThreadsTypeOK, NodeRecord
<1>2. /\ call[t].op = "insert" /\ call[t].i \in 1..Len(Steps(call[t].path)) /\ call[t].path \in Text
      /\ call[t].at = 0 <=> call[t].i = 1
  BY <1>1, StepsAre DEF Fit, Call, Op, PosIn
<1>3. /\ node' = Append(node, [server |-> NoServer, end |-> FALSE])
      /\ link' = Relink(link, call[t].at, Step(t), Len(node) + 1)
      /\ call' = [call EXCEPT ![t] = [call[t] EXCEPT !.stage = "walk"]]
      /\ vars' = vars /\ astray' = astray /\ due' = due
  BY DEF MakeNode, GoOn
<1>4. [server |-> NoServer, end |-> FALSE] \in NodeRecord
  BY DEF NodeRecord, Route
<1>5. /\ node' \in Seq(NodeRecord) /\ Len(node') = Len(node) + 1
      /\ node'[Len(node')] = [server |-> NoServer, end |-> FALSE]
      /\ \A n \in 1..Len(node) : node'[n] = node[n]
  BY <1>1, <1>3, <1>4
<1>6. call'[t] # None /\ call'[t].i = call[t].i /\ call'[t].stage = "walk"
  <2>1. call'[t] = [call[t] EXCEPT !.stage = "walk"]
    BY <1>3 DEF TypeInv, ThreadsTypeOK
  <2>2. call'[t] \in Call
    BY <1>1, <2>1 DEF Call, Stage
  <2> QED
    BY <1>1, <2>1, <2>2, NoneIsNoCall DEF Call
<1>7. Edge(Len(node), call[t].at, Step(t), Len(node'))
  <2>1. call[t].at \in 0..Len(node) /\ Len(node) \in Nat
    BY <1>1 DEF TypeInv, ThreadsTypeOK, MakeNode, Active
  <2>2. Step(t) \in Char \union {Top} /\ (call[t].at = 0 => Step(t) = Top)
    BY <1>2, StepsAre DEF Step
  <2> QED
    BY <1>5, <2>1, <2>2 DEF Edge
<1> QED
  BY <1>1, <1>2, <1>3, <1>5, <1>6, <1>7

(* The three steps that write a node write no other.                       *)
LEMMA WritesNode ==
  ASSUME TypeInv, NEW t \in Thread, WriteOwner(t) \/ WriteEnd(t) \/ Erase(t)
  PROVE  /\ link' = link /\ node' \in Seq(NodeRecord) /\ Len(node') = Len(node)
         /\ call[t].at \in 1..Len(node) /\ call[t].stage \in {"owner", "end", "erase"}
         /\ \A n \in 1..Len(node) : n # call[t].at => node'[n] = node[n]
         /\ WriteOwner(t) => /\ node'[call[t].at].server = call[t].server
                             /\ node'[call[t].at].end = node[call[t].at].end
         /\ WriteEnd(t) => /\ node'[call[t].at].server = node[call[t].at].server
                           /\ node'[call[t].at].end = TRUE
         /\ Erase(t) => /\ node'[call[t].at].server = NoServer
                        /\ node'[call[t].at].end = node[call[t].at].end
<1>1. Fit(call[t]) /\ Active(t) /\ call[t] \in Call
  BY Moves DEF Works, Fit
<1>2. call[t].stage \in {"owner", "end", "erase"} /\ link' = link
  BY DEF WriteOwner, WriteEnd, Erase
<1>3. PosIn(call[t]) # 0
  <2>1. call[t].path \in Text /\ Len(Steps(call[t].path)) >= 2 /\ Len(Steps(call[t].path)) \in Nat
    BY <1>1, StepsAre DEF Call
  <2> QED
    BY <1>1, <1>2, <2>1 DEF Fit, PosIn
<1>4. call[t].at \in 1..Len(node) /\ node \in Seq(NodeRecord)
  BY <1>1, <1>3 DEF Fit, Call, TypeInv, ThreadsTypeOK, NodeRecord, Active
<1>5. call[t].server \in Route /\ NoServer \in Route /\ node[call[t].at] \in NodeRecord
  BY <1>1, <1>4 DEF Call, Route
<1>6. CASE WriteOwner(t)
  <2> DEFINE r == [node[call[t].at] EXCEPT !.server = call[t].server]
  <2>1. node' = [node EXCEPT ![call[t].at] = r]
    BY <1>6 DEF WriteOwner
  <2>2. r \in NodeRecord /\ r.server = call[t].server /\ r.end = node[call[t].at].end
    BY <1>5 DEF NodeRecord
  <2>3. ~WriteEnd(t) /\ ~Erase(t)
    BY <1>6 DEF WriteOwner, WriteEnd, Erase
  <2> HIDE DEF r
  <2> QED
    BY <1>2, <1>4, <2>1, <2>2, <2>3
<1>7. CASE WriteEnd(t)
  <2> DEFINE r == [node[call[t].at] EXCEPT !.end = TRUE]
  <2>1. node' = [node EXCEPT ![call[t].at] = r]
    BY <1>7 DEF WriteEnd
  <2>2. r \in NodeRecord /\ r.end = TRUE /\ r.server = node[call[t].at].server
    BY <1>5 DEF NodeRecord
  <2>3. ~WriteOwner(t) /\ ~Erase(t)
    BY <1>7 DEF WriteOwner, WriteEnd, Erase
  <2> HIDE DEF r
  <2> QED
    BY <1>2, <1>4, <2>1, <2>2, <2>3
<1>8. CASE Erase(t)
  <2> DEFINE r == [node[call[t].at] EXCEPT !.server = NoServer]
  <2>1. node' = [node EXCEPT ![call[t].at] = r]
    BY <1>8 DEF Erase
  <2>2. r \in NodeRecord /\ r.server = NoServer /\ r.end = node[call[t].at].end
    BY <1>5 DEF NodeRecord
  <2>3. ~WriteEnd(t) /\ ~WriteOwner(t)
    BY <1>8 DEF WriteOwner, WriteEnd, Erase
  <2> HIDE DEF r
  <2> QED
    BY <1>2, <1>4, <2>1, <2>2, <2>3
<1> QED
  BY <1>6, <1>7, <1>8

-----------------------------------------------------------------------------
(* What a new call is, and what becomes of the others.                     *)
LEMMA BeginIs ==
  ASSUME TypeInv, NEW t \in Thread, NEW op \in Op, NEW p \in Text, NEW s \in Route,
         op = "insert" => s \in Server, Begin(t, op, p, s)
  PROVE  /\ ~Active(t) /\ call'[t] \in Call /\ Fit(call'[t]) /\ call'[t] # None
         /\ call'[t].op = op /\ call'[t].path = p /\ call'[t].server = s
         /\ call'[t].stage = "walk" /\ call'[t].at = 0 /\ call'[t].i = 1
         /\ call' \in [Thread -> Call \union {None}]
         /\ \A u \in Thread : u # t /\ Active(u) =>
              /\ call'[u] # None /\ Fit(call'[u])
              /\ call'[u].op = call[u].op /\ call'[u].path = call[u].path
              /\ call'[u].server = call[u].server /\ call'[u].stage = call[u].stage
              /\ call'[u].at = call[u].at /\ call'[u].i = call[u].i
              /\ call'[u].alone => call[u].alone
         /\ \A u \in Thread : u # t /\ ~Active(u) => call'[u] = None
<1> DEFINE others == {u \in Thread : Writing(u)}
           clash == op # "search" /\ others # {}
           new == [op |-> op, path |-> p, server |-> s, stage |-> "walk",
                   at |-> 0, i |-> 1, alone |-> ~clash]
           shared(u) == [call[u] EXCEPT !.alone = FALSE]
<1>1. /\ ~Active(t)
      /\ call' = [u \in Thread |-> IF u = t THEN new
                                   ELSE IF clash /\ u \in others THEN shared(u) ELSE call[u]]
  BY DEF Begin
<1>2. new \in Call /\ new.op = op /\ new.path = p /\ new.server = s /\ new.stage = "walk"
      /\ new.at = 0 /\ new.i = 1
  BY DEF Call, Stage
<1>3. Fit(new)
  <2>1. Len(Steps(p)) \in Nat /\ Len(Steps(p)) >= 2
    BY StepsAre
  <2> HIDE DEF new
  <2> QED
    BY <1>2, <2>1 DEF Fit, PosIn, Op
<1>4. ASSUME NEW u \in Thread, Active(u)
      PROVE  /\ shared(u) \in Call /\ Fit(shared(u)) /\ shared(u).op = call[u].op
             /\ shared(u).path = call[u].path /\ shared(u).server = call[u].server
             /\ shared(u).stage = call[u].stage /\ shared(u).at = call[u].at
             /\ shared(u).i = call[u].i /\ shared(u).alone = FALSE
             /\ Fit(call[u]) /\ call[u] \in Call
  <2>1. Fit(call[u]) /\ call[u] \in Call
    BY <1>4 DEF TypeInv, CallsFit, Fit
  <2>2. /\ shared(u) \in Call /\ shared(u).op = call[u].op
        /\ shared(u).path = call[u].path /\ shared(u).server = call[u].server
        /\ shared(u).stage = call[u].stage /\ shared(u).at = call[u].at
        /\ shared(u).i = call[u].i /\ shared(u).alone = FALSE
    BY <2>1 DEF Call
  <2> HIDE DEF shared
  <2> QED
    BY <2>1, <2>2 DEF Fit, PosIn
<1>5. call \in [Thread -> Call \union {None}]
  BY DEF TypeInv, ThreadsTypeOK
<1> HIDE DEF new, shared, clash
<1>6. call'[t] = new
  BY <1>1
<1>7. \A u \in Thread : u # t => call'[u] = call[u] \/ (Active(u) /\ call'[u] = shared(u))
  BY <1>1 DEF Writing
<1>8. call' \in [Thread -> Call \union {None}]
  BY <1>1, <1>2, <1>4, <1>5 DEF Writing
<1> QED
  BY <1>1, <1>2, <1>3, <1>4, <1>5, <1>6, <1>7, <1>8, NoneIsNoCall DEF Active

(* What a step may be.                                                     *)
LEMMA StepIs ==
  ASSUME [ThreadsNext]_tvars
  PROVE  \/ \E t \in Thread, op \in Op, p \in Text, s \in Route :
              (op = "insert" => s \in Server) /\ Begin(t, op, p, s)
         \/ \E t \in Thread : Works(t)
         \/ UNCHANGED tvars
<1> SUFFICES ASSUME ThreadsNext, NEW t \in Thread,
                    \E p \in Text : \/ \E s \in Server : Begin(t, "insert", p, s)
                                    \/ \E op \in {"delete", "search"} : Begin(t, op, p, NoServer)
             PROVE  \E op \in Op, p \in Text, s \in Route :
                      (op = "insert" => s \in Server) /\ Begin(t, op, p, s)
  BY DEF ThreadsNext, Works
<1>1. PICK p \in Text : \/ \E s \in Server : Begin(t, "insert", p, s)
                        \/ \E op \in {"delete", "search"} : Begin(t, op, p, NoServer)
  OBVIOUS
<1>2. CASE \E s \in Server : Begin(t, "insert", p, s)
  BY <1>2 DEF Op, Route
<1>3. CASE \E op \in {"delete", "search"} : Begin(t, op, p, NoServer)
  <2>1. PICK op \in {"delete", "search"} : Begin(t, op, p, NoServer)
    BY <1>3
  <2>2. op \in Op /\ op # "insert" /\ NoServer \in Route
    BY DEF Op, Route
  <2> QED
    BY <2>1, <2>2
<1> QED
  BY <1>1, <1>2, <1>3

(* The types and the places of the calls, at first.                        *)
LEMMA TypeInit == ThreadsInit => TypeInv
<1> SUFFICES ASSUME ThreadsInit PROVE TypeInv
  OBVIOUS
<1>1. node = <<>> /\ Len(node) = 0 /\ link = <<>> /\ DOMAIN link = {}
  BY DEF ThreadsInit
<1>2. \A t \in Thread : call[t] = None
  BY DEF ThreadsInit
<1>3. CallsFit
  BY <1>2 DEF CallsFit, Active
<1>4. LinksTo(link, Len(node))
  <2>1. link = [l \in {} |-> 0]
    BY <1>1
  <2> QED
    BY <1>1, <2>1 DEF LinksTo
<1>5. ThreadsTypeOK
  <2>1. node \in Seq(NodeRecord) /\ \A l \in DOMAIN link : FALSE
    BY <1>1
  <2>2. call \in [Thread -> Call \union {None}] /\ moments \in [Thread -> SUBSET Route]
    BY DEF ThreadsInit
  <2>3. made \in 0..MaxCalls
    BY ThreadsAssumption DEF ThreadsInit
  <2>4. astray \in BOOLEAN /\ mixed \in BOOLEAN /\ torn \in BOOLEAN
    BY Zenon DEF ThreadsInit
  <2>5. due \in [Text -> Route]
    BY DEF ThreadsInit, Route
  <2> QED
    BY <1>2, <2>1, <2>2, <2>3, <2>4, <2>5 DEF ThreadsTypeOK, NodeRecord
<1> QED
  BY <1>3, <1>4, <1>5 DEF TypeInv

(* What is watched are routes.                                             *)
LEMMA WatchedType ==
  ASSUME node' \in Seq(NodeRecord), LinksTo(link', Len(node')),
         call' \in [Thread -> Call \union {None}], moments \in [Thread -> SUBSET Route], Watch
  PROVE  moments' \in [Thread -> SUBSET Route]
<1>1. \A p \in Text : search_trie(Marks', p) \in Route
  BY MarksAre, MarksType
<1>2. \A t \in Thread : call'[t] # None => call'[t].path \in Text
  BY DEF Call
<1> QED
  BY <1>1, <1>2 DEF Watch

(* They are kept by every step.                                            *)
LEMMA TypeStep == TypeInv /\ [ThreadsNext]_tvars => TypeInv'
<1> SUFFICES ASSUME TypeInv, [ThreadsNext]_tvars PROVE TypeInv'
  OBVIOUS
<1>0. /\ node \in Seq(NodeRecord) /\ LinksTo(link, Len(node)) /\ Len(node) \in Nat
      /\ moments \in [Thread -> SUBSET Route]
      /\ \A t \in Thread : Active(t) => call[t].at \in 0..Len(node)
  BY DEF TypeInv, ThreadsTypeOK, NodeRecord, Active
<1>1. ASSUME node' \in Seq(NodeRecord), LinksTo(link', Len(node')),
             call' \in [Thread -> Call \union {None}], Watch,
             \A t \in Thread : call'[t] # None => Fit(call'[t]) /\ call'[t].at \in 0..Len(node'),
             made' \in 0..MaxCalls, astray' \in BOOLEAN, mixed' \in BOOLEAN, torn' \in BOOLEAN,
             due' \in [Text -> Route]
      PROVE  TypeInv'
  <2>1. moments' \in [Thread -> SUBSET Route]
    BY <1>0, <1>1, WatchedType
  <2>2. \A l \in DOMAIN link' : l[1] \in 0..Len(node') /\ link'[l] \in 1..Len(node')
    BY <1>1 DEF LinksTo
  <2>3. \A t \in Thread : call'[t] # None => call'[t].i \in 1..Len(Steps(call'[t].path)) + 1
    BY <1>1 DEF Fit
  <2>4. CallsFit'
    BY <1>1 DEF CallsFit, Active
  <2> QED
    BY <1>1, <2>1, <2>2, <2>3, <2>4 DEF TypeInv, ThreadsTypeOK, NodeRecord
<1>2. ASSUME NEW t \in Thread, NEW op \in Op, NEW p \in Text, NEW s \in Route,
             op = "insert" => s \in Server, Begin(t, op, p, s)
      PROVE  TypeInv'
  <2>1. /\ call' \in [Thread -> Call \union {None}]
        /\ \A u \in Thread : call'[u] # None => Fit(call'[u]) /\ call'[u].at \in 0..Len(node)
    BY <1>0, <1>2, BeginIs
  <2>2. node' = node /\ link' = link /\ Watch /\ astray' = astray /\ made' \in 0..MaxCalls
    BY <1>2, ThreadsAssumption DEF Begin, nodeVars, TypeInv, ThreadsTypeOK
  <2>3. mixed' \in BOOLEAN /\ torn' \in BOOLEAN
    BY <1>2 DEF Begin, TypeInv, ThreadsTypeOK
  <2>4. due' \in [Text -> Route]
    BY <1>2 DEF Begin, TypeInv, ThreadsTypeOK, Route
  <2>5. astray' \in BOOLEAN
    BY <2>2 DEF TypeInv, ThreadsTypeOK
  <2> QED
    BY <1>0, <1>1, <2>1, <2>2, <2>3, <2>4, <2>5
<1>3. ASSUME NEW t \in Thread, Works(t)
      PROVE  TypeInv'
  <2>1. /\ call' \in [Thread -> Call \union {None}]
        /\ \A u \in Thread : u # t => call'[u] = call[u]
        /\ call'[t] # None => Fit(call'[t]) /\ SameCall(call[t], call'[t]) /\ Moved(t)
        /\ Fit(call[t]) /\ Active(t)
    BY <1>3, Moves
  <2>2. Watch /\ made' = made /\ mixed' = mixed /\ torn' = torn
    BY <1>3 DEF Works, Walk, MakeNode, WriteOwner, WriteEnd, Look, ReadResult, Erase
  <2>3. astray' \in BOOLEAN /\ due' \in [Text -> Route]
    <3>1. CASE astray' = astray /\ due' = due
      BY <3>1 DEF TypeInv, ThreadsTypeOK
    <3>2. CASE \E r : Return(t, r)
      BY <3>2, <2>1 DEF Return, TypeInv, ThreadsTypeOK, Fit, Call
    <3>3. ASSUME NEW c, GoOn(t, c) PROVE astray' = astray /\ due' = due
      BY <3>3 DEF GoOn
    <3> QED
      BY <1>3, <3>1, <3>2, <3>3
      DEF Works, Walk, MakeNode, WriteOwner, WriteEnd, Look, ReadResult, Erase
  <2>4. /\ node' \in Seq(NodeRecord) /\ LinksTo(link', Len(node')) /\ Len(node') \in Nat
        /\ Len(node) <= Len(node')
    <3>1. CASE Walk(t) \/ Look(t) \/ ReadResult(t)
      BY <1>0, <3>1 DEF Walk, Look, ReadResult, nodeVars
    <3>2. CASE MakeNode(t)
      <4>1. /\ Edge(Len(node), call[t].at, Step(t), Len(node'))
            /\ link' = Relink(link, call[t].at, Step(t), Len(node'))
            /\ node' \in Seq(NodeRecord) /\ Len(node') = Len(node) + 1
        BY <3>2, MakesNode
      <4>2. LinksTo(link', Len(node'))
        BY <1>0, <4>1, RelinkIs
      <4> QED
        BY <1>0, <4>1, <4>2
    <3>3. CASE WriteOwner(t) \/ WriteEnd(t) \/ Erase(t)
      <4>1. link' = link /\ node' \in Seq(NodeRecord) /\ Len(node') = Len(node)
        BY <3>3, WritesNode
      <4> QED
        BY <1>0, <4>1
    <3> QED
      BY <1>3, <3>1, <3>2, <3>3 DEF Works
  <2>5. call'[t] # None => call'[t].at \in 0..Len(node)
    <3>1. Linked(t) => link[<<call[t].at, Step(t)>>] \in 1..Len(node)
      BY <1>0 DEF Linked, LinksTo
    <3> QED
      BY <1>0, <2>1, <3>1 DEF Moved
  <2>6. \A u \in Thread : call'[u] # None => Fit(call'[u]) /\ call'[u].at \in 0..Len(node')
    <3>1. \A u \in Thread : u # t /\ call'[u] # None => Active(u) /\ Fit(call[u])
      BY <2>1 DEF TypeInv, CallsFit, Active
    <3> QED
      BY <1>0, <2>1, <2>4, <2>5, <3>1
  <2>7. made' \in 0..MaxCalls /\ mixed' \in BOOLEAN /\ torn' \in BOOLEAN
    BY <2>2 DEF TypeInv, ThreadsTypeOK
  <2> QED
    BY <1>1, <2>1, <2>2, <2>3, <2>4, <2>6, <2>7
<1>4. CASE UNCHANGED tvars
  BY <1>4 DEF tvars, nodeVars, ghosts, vars, TypeInv, ThreadsTypeOK, CallsFit, Active
<1> QED
  BY <1>2, <1>3, <1>4, StepIs

(* The trie of nodes keeps its types under any number of threads.          *)
THEOREM ThreadsTypeCorrect == ThreadsSpec => []ThreadsTypeOK
<1>1. TypeInv => ThreadsTypeOK
  BY DEF TypeInv
<1> QED
  BY <1>1, TypeInit, TypeStep, PTL DEF ThreadsSpec

-----------------------------------------------------------------------------
(* The shape of the trie.  Whatever way leads to the node of a call has    *)
(* taken the steps the call has taken, and the nodes at which a word ends  *)
(* are those of texts.                                                     *)
Meets(lk, c) ==
  \A r \in Text : \A k \in 1..Len(r) + 1 :
    Way(lk, Steps(r))[k] = c.at
      => k = PosIn(c) /\ \A j \in 1..k : Steps(r)[j] = Steps(c.path)[j]

Agree == \A t \in Thread : Active(t) /\ call[t].at # 0 => Meets(link, call[t])

EndsAtTexts ==
  \A r \in Text : \A k \in 1..Len(r) + 1 :
    Way(link, Steps(r))[k] # 0 /\ node[Way(link, Steps(r))[k]].end
      => \E q \in Text : Len(q) + 1 = k /\ IsPrefix(q, r)

Shape == Agree /\ EndsAtTexts

(* A call that is at a node was at it before, or has followed a link.      *)
LEMMA Carried ==
  ASSUME TypeInv, [ThreadsNext]_tvars, NEW t \in Thread, call'[t] # None, call'[t].at # 0
  PROVE  /\ Active(t) /\ call'[t].path = call[t].path
         /\ \/ call'[t].at = call[t].at /\ PosIn(call'[t]) = PosIn(call[t])
            \/ /\ Walk(t) /\ Linked(t) /\ PosIn(call'[t]) = call[t].i
               /\ call'[t].at = link[<<call[t].at, Step(t)>>]
<1>1. ASSUME NEW u \in Thread, NEW op \in Op, NEW p \in Text, NEW s \in Route,
             op = "insert" => s \in Server, Begin(u, op, p, s)
      PROVE  /\ Active(t) /\ call'[t].path = call[t].path
             /\ call'[t].at = call[t].at /\ PosIn(call'[t]) = PosIn(call[t])
  <2>1. t # u
    BY <1>1, BeginIs
  <2> QED
    BY <1>1, <2>1, BeginIs DEF PosIn
<1>2. ASSUME NEW u \in Thread, Works(u), u # t
      PROVE  Active(t) /\ call'[t] = call[t]
  BY <1>2, Moves DEF Active
<1>3. CASE Works(t)
  <2>1. call[t].stage \in {"walk", "again"} => Walk(t)
    BY <1>3 DEF Works, Walk, MakeNode, WriteOwner, WriteEnd, Look, ReadResult, Erase
  <2> QED
    BY <1>3, <2>1, Moves DEF Moved, SameCall
<1>4. CASE UNCHANGED tvars
  BY <1>4 DEF tvars, Active
<1> QED
  BY <1>1, <1>2, <1>3, <1>4, StepIs

(* The nodes and the links after a step.                                   *)
LEMMA StepNodes ==
  ASSUME TypeInv, [ThreadsNext]_tvars
  PROVE  \/ node' = node /\ link' = link
         \/ \E t \in Thread : MakeNode(t)
         \/ \E t \in Thread : WriteOwner(t) \/ WriteEnd(t) \/ Erase(t)
<1>1. ASSUME NEW t, NEW op, NEW p, NEW s, Begin(t, op, p, s) PROVE node' = node /\ link' = link
  BY <1>1 DEF Begin, nodeVars
<1>2. ASSUME NEW t, Walk(t) \/ Look(t) \/ ReadResult(t) PROVE node' = node /\ link' = link
  BY <1>2 DEF Walk, Look, ReadResult, nodeVars
<1>3. CASE UNCHANGED tvars
  BY <1>3 DEF tvars, nodeVars
<1> QED
  BY <1>1, <1>2, <1>3, StepIs DEF Works

(* A node is made for the call that is there, and is on the way of those   *)
(* that share its steps.                                                   *)
LEMMA AgreeStep ==
  ASSUME TypeInv, Agree, [ThreadsNext]_tvars
  PROVE  Agree'
<1> SUFFICES ASSUME NEW t \in Thread, call'[t] # None, call'[t].at # 0,
                    NEW r \in Text, NEW k \in 1..Len(r) + 1,
                    Way(link', Steps(r))[k] = call'[t].at
             PROVE  k = PosIn(call'[t]) /\ \A j \in 1..k : Steps(r)[j] = Steps(call'[t].path)[j]
  BY DEF Agree, Meets, Active
<1>1. /\ LinksTo(link, Len(node)) /\ Len(node) \in Nat /\ Len(r) \in Nat
      /\ \A l \in DOMAIN link : link[l] \in 1..Len(node)
  BY StepsAre DEF TypeInv, ThreadsTypeOK, LinksTo
<1>2. /\ Active(t) /\ call'[t].path = call[t].path /\ Fit(call[t]) /\ call[t].at \in 0..Len(node)
      /\ \/ call'[t].at = call[t].at /\ PosIn(call'[t]) = PosIn(call[t])
         \/ /\ Walk(t) /\ Linked(t) /\ PosIn(call'[t]) = call[t].i
            /\ call'[t].at = link[<<call[t].at, Step(t)>>]
  BY Carried DEF TypeInv, CallsFit, ThreadsTypeOK, Active
<1>3. CASE /\ Way(link', Steps(r))[k] = Way(link, Steps(r))[k]
           /\ call'[t].at = call[t].at /\ PosIn(call'[t]) = PosIn(call[t])
  <2>1. Meets(link, call[t])
    BY <1>2, <1>3 DEF Agree
  <2>2. Way(link, Steps(r))[k] = call[t].at
    BY <1>3
  <2> QED
    BY <1>2, <1>3, <2>1, <2>2 DEF Meets
<1>4. CASE /\ Walk(t) /\ Linked(t) /\ PosIn(call'[t]) = call[t].i
           /\ call'[t].at = link[<<call[t].at, Step(t)>>]
  <2> DEFINE a == Way(link, Steps(r))[k - 1]
  <2>1. link' = link /\ call[t].stage \in {"walk", "again"}
    BY <1>4 DEF Walk, nodeVars
  <2>2. Way(link, Steps(r))[k] = Child(link, a, Steps(r)[k])
    BY <1>1, WaySteps
  <2>3. Child(link, a, Steps(r)[k]) = link[<<call[t].at, Step(t)>>] /\ <<call[t].at, Step(t)>> \in DOMAIN link
    BY <1>4, <2>1, <2>2 DEF Linked
  <2>4. a = call[t].at /\ Steps(r)[k] = Step(t)
    <3> HIDE DEF a
    <3>1. link[<<call[t].at, Step(t)>>] # 0
      BY <1>1, <2>3
    <3>2. <<a, Steps(r)[k]>> \in DOMAIN link /\ link[<<a, Steps(r)[k]>>] = link[<<call[t].at, Step(t)>>]
      BY <2>3, <3>1 DEF Child
    <3>3. <<a, Steps(r)[k]>> = <<call[t].at, Step(t)>>
      BY <1>1, <2>3, <3>2 DEF LinksTo
    <3> QED
      BY <3>3
  <2>5. call[t].i = PosIn(call[t]) + 1 /\ call[t].i \in Nat
    BY <1>2, <2>1 DEF Fit, PosIn, Call
  <2>6. CASE call[t].at = 0
    <3>1. PosIn(call[t]) = 0 /\ call[t].i = 1 /\ call[t].path \in Text
      BY <1>2, <2>5, <2>6 DEF Fit, Call
    <3>2. Step(t) = Top
      BY <3>1, StepsAre DEF Step
    <3>3. k = 1
      BY <1>1, <2>4, <3>2, StepsAre
    <3> QED
      BY <1>2, <1>4, <2>4, <3>1, <3>3 DEF Step
  <2>7. CASE call[t].at # 0
    <3>1. k - 1 \in 1..Len(r) + 1
      <4>1. k # 1
        BY <2>4, <2>7, WaySteps
      <4> QED
        BY <1>1, <4>1
    <3>2. Meets(link, call[t])
      BY <1>2, <2>7 DEF Agree
    <3>3. k - 1 = PosIn(call[t]) /\ \A j \in 1..k - 1 : Steps(r)[j] = Steps(call[t].path)[j]
      BY <2>4, <3>1, <3>2 DEF Meets
    <3>4. k = call[t].i /\ \A j \in 1..k : j = k \/ j \in 1..k - 1
      BY <1>1, <2>5, <3>3
    <3> QED
      BY <1>2, <1>4, <2>4, <3>3, <3>4 DEF Step
  <2> QED
    BY <2>6, <2>7
<1>5. CASE link' = link
  BY <1>2, <1>3, <1>4, <1>5
<1>6. ASSUME NEW u \in Thread, MakeNode(u)
      PROVE  k = PosIn(call'[t]) /\ \A j \in 1..k : Steps(r)[j] = Steps(call'[t].path)[j]
  <2>1. u = t => ~Walk(t)
    BY <1>6 DEF Walk, MakeNode
  <2>2. call'[t].at = call[t].at /\ PosIn(call'[t]) = PosIn(call[t]) /\ call[t].at \in 1..Len(node)
    BY <1>2, <1>6, <2>1, Moves DEF Works
  <2>3. /\ Edge(Len(node), call[u].at, Step(u), Len(node')) /\ Len(node') = Len(node) + 1
        /\ link' = Relink(link, call[u].at, Step(u), Len(node'))
    BY <1>6, MakesNode
  <2>4. Way(link', Steps(r))[k] \in {Way(link, Steps(r))[k], Len(node'), 0}
    BY <1>1, <2>3, WayRelinked
  <2>5. Way(link', Steps(r))[k] = Way(link, Steps(r))[k]
    BY <1>1, <2>2, <2>3, <2>4
  <2> QED
    BY <1>3, <2>2, <2>5
<1>7. ASSUME NEW u \in Thread, WriteOwner(u) \/ WriteEnd(u) \/ Erase(u) PROVE link' = link
  BY <1>7, WritesNode
<1> QED
  BY <1>5, <1>6, <1>7, StepNodes

(* A text is known by its characters, and as a prefix by its length.       *)
LEMMA OnePrefix ==
  ASSUME NEW p \in Text, NEW q \in Text, NEW r \in Text,
         IsPrefix(p, r), IsPrefix(q, r), Len(p) = Len(q)
  PROVE  p = q
<1>1. p \in Seq(Char) /\ q \in Seq(Char) /\ r \in Seq(Char)
  BY TextAssumption
<1>2. p = SubSeq(p, 1, Len(p)) /\ q = SubSeq(q, 1, Len(q))
  BY <1>1
<1> QED
  BY <1>1, <1>2 DEF IsPrefix

(* A path that takes all the steps of a text has it as a prefix.           *)
LEMMA PrefixOnWay ==
  ASSUME NEW p \in Text, NEW q \in Text, NEW r \in Text, IsPrefix(p, q),
         Len(p) <= Len(r), \A j \in 1..Len(p) + 1 : Steps(r)[j] = Steps(q)[j]
  PROVE  IsPrefix(p, r)
<1>1. \A i \in 1..Len(p) + 1 : Steps(p)[i] = Steps(q)[i]
  BY PrefixIs
<1> QED
  BY <1>1, PrefixIs

(* Prefixes are ordered, and those of one text are in line.                *)
LEMMA PrefixOrder ==
  /\ \A p \in Text : IsPrefix(p, p)
  /\ \A p, q \in Text : IsPrefix(p, q) => Len(p) <= Len(q)
  /\ \A p, q, r \in Text : IsPrefix(p, q) /\ IsPrefix(q, r) => IsPrefix(p, r)
  /\ \A p, q, r \in Text : IsPrefix(p, r) /\ IsPrefix(q, r) /\ Len(p) <= Len(q) => IsPrefix(p, q)
<1>1. \A p \in Text : Len(p) \in Nat
  BY StepsAre
<1>2. \A p, q \in Text : IsPrefix(p, q) <=> Len(p) <= Len(q) /\ \A i \in 1..Len(p) : p[i] = q[i]
  BY PrefixIs
<1>3. ASSUME NEW p \in Text, NEW q \in Text, NEW r \in Text, IsPrefix(p, q), IsPrefix(q, r)
      PROVE  IsPrefix(p, r)
  <2>1. Len(p) <= Len(q) /\ Len(q) <= Len(r) /\ \A i \in 1..Len(p) : i \in 1..Len(q)
    BY <1>1, <1>2, <1>3
  <2>2. \A i \in 1..Len(p) : p[i] = q[i] /\ q[i] = r[i]
    BY <1>2, <1>3, <2>1
  <2> QED
    BY <1>1, <1>2, <2>1, <2>2
<1>4. ASSUME NEW p \in Text, NEW q \in Text, NEW r \in Text, IsPrefix(p, r), IsPrefix(q, r), Len(p) <= Len(q)
      PROVE  IsPrefix(p, q)
  <2>1. \A i \in 1..Len(p) : i \in 1..Len(q)
    BY <1>1, <1>4
  <2>2. \A i \in 1..Len(p) : p[i] = r[i] /\ q[i] = r[i]
    BY <1>2, <1>4, <2>1
  <2> QED
    BY <1>2, <1>4, <2>2
<1> QED
  BY <1>1, <1>2, <1>3, <1>4

(* The text whose mark a call is about to write.                           *)
Written(c) == SubSeq(c.path, 1, PosIn(c) - 1)

(* It is a text, the path or a directory on the way to it.                 *)
LEMMA WrittenIs ==
  ASSUME NEW c, Fit(c), c.stage \in {"owner", "end", "erase"}
  PROVE  /\ Written(c) \in Text /\ Len(Written(c)) + 1 = PosIn(c)
         /\ IsPrefix(Written(c), c.path) /\ Written(c) \in MarkedBy(c.path)
         /\ c.stage = "erase" => Written(c) = c.path /\ c.op = "delete"
         /\ c.stage # "erase" => c.op = "insert" /\ PosIn(c) = c.i
         /\ c.stage # "erase" /\ Steps(c.path)[c.i] = Slash => IsDirText(Written(c))
         /\ c.stage # "erase" /\ Steps(c.path)[c.i] # Slash =>
              Written(c) = c.path /\ ~IsDirText(c.path) /\ c.i = Len(c.path) + 1
<1> DEFINE p == c.path
           n == PosIn(c) - 1
<1>1. /\ p \in Text /\ p \in Seq(Char) /\ Len(p) \in Nat /\ Len(p) >= 1
      /\ Len(Steps(p)) = Len(p) + 1 /\ \A k \in 2..Len(p) + 1 : Steps(p)[k] = p[k - 1]
  BY StepsAre DEF Fit, Call
<1>2. n \in 1..Len(p) /\ PosIn(c) = n + 1
  BY <1>1 DEF Fit, PosIn
<1>3. /\ c.stage = "erase" => n = Len(p) /\ c.op = "delete"
      /\ c.stage # "erase" => c.op = "insert" /\ c.i = n + 1
      /\ c.stage # "erase" => Steps(p)[c.i] = Slash \/ n = Len(p)
  BY <1>1 DEF Fit, PosIn, Call, Op
<1>4. p[n] = Steps(p)[n + 1]
  <2>1. n + 1 \in 2..Len(p) + 1 /\ (n + 1) - 1 = n
    BY <1>1, <1>2
  <2> QED
    BY <1>1, <2>1
<1> HIDE DEF n
<1> DEFINE w == SubSeq(p, 1, n)
<1>5. Len(w) = n /\ (n = Len(p) => w = p) /\ w[n] = p[n] /\ w \in Seq(Char)
  BY <1>1, <1>2
<1>6. n = Len(p) \/ p[n] = Slash
  BY <1>3, <1>4
<1>7. w \in Text
  BY <1>1, <1>2, <1>5, <1>6, TextAssumption
<1>8. IsPrefix(w, p)
  <2>1. (\A i \in 1..Len(w) : w[i] = p[i]) /\ Len(w) <= Len(p)
    BY <1>1, <1>2, <1>5
  <2> HIDE DEF w, p
  <2> QED
    BY <1>1, <1>7, <2>1, PrefixIs
<1>9. p[n] = Slash => IsDirText(w)
  BY <1>5 DEF IsDirText
<1>10. n = Len(p) /\ p[n] # Slash => ~IsDirText(p)
  BY DEF IsDirText
<1>11. Written(c) = w
  BY DEF Written, n
<1> HIDE DEF w
<1> QED
  BY <1>1, <1>2, <1>3, <1>4, <1>5, <1>6, <1>7, <1>8, <1>9, <1>10, <1>11 DEF MarkedBy, DirsOf, n

(* Only the nodes of texts are ended: an insertion ends those that it      *)
(* marks.                                                                  *)
LEMMA EndsStep ==
  ASSUME TypeInv, Shape, [ThreadsNext]_tvars
  PROVE  EndsAtTexts'
<1> SUFFICES ASSUME NEW r \in Text, NEW k \in 1..Len(r) + 1, Way(link', Steps(r))[k] # 0,
                    node'[Way(link', Steps(r))[k]].end
             PROVE  \E q \in Text : Len(q) + 1 = k /\ IsPrefix(q, r)
  BY DEF EndsAtTexts
<1> DEFINE n == Way(link, Steps(r))[k]
<1>1. /\ LinksTo(link, Len(node)) /\ Len(node) \in Nat /\ Len(r) \in Nat /\ n \in 0..Len(node)
  BY StepsAre, WayRange DEF TypeInv, ThreadsTypeOK
<1>2. n # 0 /\ node[n].end => \E q \in Text : Len(q) + 1 = k /\ IsPrefix(q, r)
  BY DEF Shape, EndsAtTexts
<1>3. CASE node' = node /\ link' = link
  BY <1>2, <1>3
<1>4. ASSUME NEW t \in Thread, MakeNode(t)
      PROVE  \E q \in Text : Len(q) + 1 = k /\ IsPrefix(q, r)
  <2>1. /\ Edge(Len(node), call[t].at, Step(t), Len(node')) /\ Len(node') = Len(node) + 1
        /\ link' = Relink(link, call[t].at, Step(t), Len(node'))
        /\ node'[Len(node')] = [server |-> NoServer, end |-> FALSE]
        /\ \A i \in 1..Len(node) : node'[i] = node[i]
    BY <1>4, MakesNode
  <2>2. Way(link', Steps(r))[k] \in {n, Len(node'), 0}
    BY <1>1, <2>1, WayRelinked
  <2>3. Way(link', Steps(r))[k] = n /\ n \in 1..Len(node)
    BY <1>1, <2>1, <2>2
  <2> QED
    BY <1>2, <2>1, <2>3
<1>5. ASSUME NEW t \in Thread, WriteOwner(t) \/ WriteEnd(t) \/ Erase(t)
      PROVE  \E q \in Text : Len(q) + 1 = k /\ IsPrefix(q, r)
  <2>1. /\ link' = link /\ call[t].at \in 1..Len(node)
        /\ \A i \in 1..Len(node) : i # call[t].at => node'[i] = node[i]
        /\ ~WriteEnd(t) => node'[call[t].at].end = node[call[t].at].end
        /\ call[t].stage \in {"owner", "end", "erase"}
    BY <1>5, WritesNode
  <2>2. n \in 1..Len(node) /\ Way(link', Steps(r))[k] = n
    BY <1>1, <2>1
  <2>3. CASE n # call[t].at \/ ~WriteEnd(t)
    <3>1. node[n].end
      BY <2>1, <2>2, <2>3
    <3> QED
      BY <1>2, <2>2, <3>1
  <2>4. CASE n = call[t].at
    <3>1. Fit(call[t]) /\ Active(t) /\ call[t].path \in Text
      BY <1>5, Moves DEF Works, Fit, Call
    <3>2. k = PosIn(call[t]) /\ \A j \in 1..k : Steps(r)[j] = Steps(call[t].path)[j]
      BY <2>1, <2>4, <3>1 DEF Shape, Agree, Meets
    <3>3. /\ Written(call[t]) \in Text /\ Len(Written(call[t])) + 1 = k
          /\ IsPrefix(Written(call[t]), call[t].path)
      BY <2>1, <3>1, <3>2, WrittenIs
    <3>4. Len(Written(call[t])) <= Len(r)
      BY <1>1, <3>3, StepsAre
    <3>5. IsPrefix(Written(call[t]), r)
      BY <3>1, <3>2, <3>3, <3>4, PrefixOnWay
    <3> QED
      BY <3>3, <3>5
  <2> QED
    BY <2>3, <2>4
<1> QED
  BY <1>3, <1>4, <1>5, StepNodes

-----------------------------------------------------------------------------
(* Who writes.  A call that is alone is the only insertion or deletion;    *)
(* mixed and torn tell when there were more.                               *)
Alone ==
  /\ \A t, u \in Thread : Writing(t) /\ Writing(u) /\ call[t].alone => t = u
  /\ ~mixed => \A t \in Thread : Writing(t) => call[t].alone
  /\ ~torn => \A t, u \in Thread :
                Active(t) /\ Active(u) => ~(call[t].op = "insert" /\ call[u].op = "delete")

(* What a beginning does to the marks of concurrency.                      *)
LEMMA BeginAlone ==
  ASSUME TypeInv, NEW t \in Thread, NEW op \in Op, NEW p \in Text, NEW s \in Route,
         Begin(t, op, p, s)
  PROVE  /\ mixed => mixed'
         /\ torn => torn'
         /\ (\E u \in Thread : Writing(u)) /\ op # "search" =>
              /\ mixed' /\ ~call'[t].alone
              /\ \A u \in Thread : u # t /\ Writing(u) => ~call'[u].alone
         /\ ~torn' => \A u \in Thread : Writing(u) => /\ ~(op = "insert" /\ call[u].op = "delete")
                                                      /\ ~(op = "delete" /\ call[u].op = "insert")
         /\ (\A u \in Thread : ~Writing(u)) => call'[t].alone
<1> DEFINE others == {u \in Thread : Writing(u)}
           clash == op # "search" /\ others # {}
           new == [op |-> op, path |-> p, server |-> s, stage |-> "walk",
                   at |-> 0, i |-> 1, alone |-> ~clash]
           shared(u) == [call[u] EXCEPT !.alone = FALSE]
<1>1. /\ call' = [u \in Thread |-> IF u = t THEN new
                                   ELSE IF clash /\ u \in others THEN shared(u) ELSE call[u]]
      /\ mixed' = (mixed \/ clash)
      /\ torn' = (torn \/ \E u \in others : {op, call[u].op} = {"insert", "delete"})
  BY DEF Begin
<1>2. new.alone = ~clash
  OBVIOUS
<1>3. ASSUME NEW u \in Thread, Writing(u) PROVE shared(u).alone = FALSE
  BY <1>3 DEF TypeInv, ThreadsTypeOK, Call, Writing, Active
<1> HIDE DEF new, shared
<1>4. clash => ~call'[t].alone /\ \A u \in Thread : u # t /\ Writing(u) => ~call'[u].alone
  BY <1>1, <1>2, <1>3
<1>5. ~clash => call'[t].alone
  BY <1>1, <1>2
<1>6. ~torn' => \A u \in Thread : Writing(u) => {op, call[u].op} # {"insert", "delete"}
  BY <1>1
<1> HIDE DEF clash
<1>7. (mixed => mixed') /\ (torn => torn') /\ (clash => mixed')
  BY <1>1
<1> QED
  BY <1>4, <1>5, <1>6, <1>7 DEF clash

(* The marks of concurrency only rise, and rise with a beginning.          *)
LEMMA WorksGhosts ==
  ASSUME NEW t, Works(t)
  PROVE  mixed' = mixed /\ torn' = torn /\ Watch
  BY DEF Works, Walk, MakeNode, WriteOwner, WriteEnd, Look, ReadResult, Erase

(* They tell the truth after every step.                                   *)
LEMMA AloneStep ==
  ASSUME TypeInv, Alone, [ThreadsNext]_tvars
  PROVE  Alone'
<1>1. ASSUME NEW t \in Thread, NEW op \in Op, NEW p \in Text, NEW s \in Route,
             op = "insert" => s \in Server, Begin(t, op, p, s)
      PROVE  Alone'
  <2>1. /\ ~Active(t) /\ call'[t] # None /\ call'[t].op = op
        /\ \A u \in Thread : u # t /\ Active(u) =>
             call'[u] # None /\ call'[u].op = call[u].op /\ (call'[u].alone => call[u].alone)
        /\ \A u \in Thread : u # t /\ ~Active(u) => call'[u] = None
    BY <1>1, BeginIs
  <2>2. /\ \A u \in Thread : u # t => (Writing(u)' <=> Writing(u))
        /\ Writing(t)' <=> op # "search"
        /\ \A u \in Thread : u # t => (Active(u)' <=> Active(u))
    BY <2>1 DEF Writing, Active
  <2>3. /\ mixed => mixed'
        /\ (\E u \in Thread : Writing(u)) /\ op # "search" =>
              /\ mixed' /\ ~call'[t].alone
              /\ \A u \in Thread : u # t /\ Writing(u) => ~call'[u].alone
        /\ (\A u \in Thread : ~Writing(u)) => call'[t].alone
    BY <1>1, BeginAlone
  <2>4. /\ torn => torn'
        /\ ~torn' => \A u \in Thread : Writing(u) => /\ ~(op = "insert" /\ call[u].op = "delete")
                                                     /\ ~(op = "delete" /\ call[u].op = "insert")
    BY <1>1, BeginAlone
  <2>5. (\A u, v \in Thread : Writing(u) /\ Writing(v) /\ call[u].alone => u = v)'
    <3> SUFFICES ASSUME NEW u \in Thread, NEW v \in Thread, Writing(u)', Writing(v)',
                        call'[u].alone
                 PROVE  u = v
      OBVIOUS
    <3>1. CASE u = t \/ v = t
      <4>1. op # "search"
        BY <2>2, <3>1
      <4>2. CASE u # v
        <5>1. \E x \in Thread : Writing(x)
          BY <2>2, <3>1, <4>2
        <5>2. ~call'[u].alone
          BY <2>2, <2>3, <4>1, <5>1
        <5> QED
          BY <5>2
      <4> QED
        BY <4>2
    <3>2. CASE u # t /\ v # t
      <4>1. Writing(u) /\ Writing(v) /\ call[u].alone
        BY <2>1, <2>2, <3>2 DEF Writing
      <4> QED
        BY <4>1 DEF Alone
    <3> QED
      BY <3>1, <3>2
  <2>6. (~mixed => \A u \in Thread : Writing(u) => call[u].alone)'
    <3> SUFFICES ASSUME ~mixed', NEW u \in Thread, Writing(u)' PROVE call'[u].alone
      OBVIOUS
    <3>1. CASE u = t
      BY <2>2, <2>3, <3>1
    <3>2. CASE u # t
      <4>1. op = "search" /\ ~mixed /\ Writing(u)
        BY <2>2, <2>3, <3>2
      <4>2. call'[u] = call[u]
        BY <1>1, <3>2, <4>1 DEF Begin
      <4> QED
        BY <4>1, <4>2 DEF Alone
    <3> QED
      BY <3>1, <3>2
  <2>7. (~torn => \A u, v \in Thread :
                Active(u) /\ Active(v) => ~(call[u].op = "insert" /\ call[v].op = "delete"))'
    BY <2>1, <2>2, <2>4 DEF Alone, Writing
  <2> QED
    BY <2>5, <2>6, <2>7 DEF Alone
<1>2. ASSUME NEW t \in Thread, Works(t)
      PROVE  Alone'
  <2>1. /\ Active(t) /\ \A u \in Thread : u # t => call'[u] = call[u]
        /\ call'[t] # None => SameCall(call[t], call'[t])
    BY <1>2, Moves
  <2>2. mixed' = mixed /\ torn' = torn
    BY <1>2, WorksGhosts
  <2>3. \A u \in Thread : Active(u)' => Active(u) /\ call'[u].op = call[u].op /\ call'[u].alone = call[u].alone
    BY <2>1 DEF Active, SameCall
  <2> QED
    BY <2>2, <2>3 DEF Alone, Writing, Active
<1>3. CASE UNCHANGED tvars
  BY <1>3 DEF tvars, ghosts, Alone, Writing, Active
<1> QED
  BY <1>1, <1>2, <1>3, StepIs

(* A link that is NULL, when a node is made for it, stands in nobody's way.*)
LEMMA WayStands ==
  ASSUME NEW N, NEW lk, LinksTo(lk, N), NEW a, NEW c, NEW m, Edge(N, a, c, m),
         <<a, c>> \notin DOMAIN lk,
         NEW p \in Text, NEW k \in 0..Len(p) + 1, k = 0 \/ Way(lk, Steps(p))[k] # 0
  PROVE  Way(Relink(lk, a, c, m), Steps(p))[k] = Way(lk, Steps(p))[k]
<1>1. N \in Nat /\ Len(p) \in Nat
  BY StepsAre DEF Edge
<1>2. ASSUME NEW j \in 1..k, Way(lk, Steps(p))[j - 1] = a, Steps(p)[j] = c PROVE FALSE
  <2>1. j \in 1..Len(p) + 1 /\ k \in j..Len(p) + 1
    BY <1>1
  <2>2. Way(lk, Steps(p))[j] = Child(lk, a, c)
    BY <1>2, <2>1, WaySteps
  <2>3. Way(lk, Steps(p))[j] = 0
    BY <2>2 DEF Child
  <2>4. Way(lk, Steps(p))[k] = 0
    BY <1>1, <2>1, <2>3, WayEnded
  <2> QED
    BY <1>2, <2>4
<1>3. \A j \in 0..k : Way(Relink(lk, a, c, m), Steps(p))[j] = Way(lk, Steps(p))[j]
  BY <1>1, <1>2, WayKept
<1> QED
  BY <1>1, <1>3

(* A node that is lost is lost for good, and lost in the overwriting of    *)
(* its link.                                                               *)
LEMMA LostForGood ==
  ASSUME TypeInv, [ThreadsNext]_tvars, NoNodeLost'
  PROVE  NoNodeLost /\ \A t \in Thread : MakeNode(t) => ~Linked(t)
<1>1. ASSUME NEW t \in Thread, MakeNode(t) PROVE NoNodeLost /\ ~Linked(t)
  <2> DEFINE e == <<call[t].at, Step(t)>>
             N == Len(node)
  <2>1. /\ LinksTo(link, N) /\ N \in Nat
    BY DEF TypeInv, ThreadsTypeOK
  <2>2. /\ Len(node') = N + 1
        /\ link' = Relink(link, call[t].at, Step(t), N + 1)
    BY <1>1, MakesNode
  <2>3. link' = [l \in DOMAIN link \union {e} |-> IF l = e THEN N + 1 ELSE link[l]]
    BY <2>2 DEF Relink
  <2> HIDE DEF e
  <2>4. ASSUME NEW n \in 1..N PROVE \E l \in DOMAIN link : l # e /\ link[l] = n
    <3>1. n \in 1..Len(node') /\ n # N + 1
      BY <2>1, <2>2
    <3>2. PICK l \in DOMAIN link' : link'[l] = n
      BY <3>1 DEF NoNodeLost
    <3> QED
      BY <2>3, <3>1, <3>2
  <2>5. ~(e \in DOMAIN link)
    <3> SUFFICES ASSUME e \in DOMAIN link PROVE FALSE
      OBVIOUS
    <3>1. link[e] \in 1..N
      BY <2>1 DEF LinksTo
    <3>2. PICK l \in DOMAIN link : l # e /\ link[l] = link[e]
      BY <2>4, <3>1
    <3> QED
      BY <2>1, <3>2 DEF LinksTo
  <2> QED
    BY <2>4, <2>5 DEF NoNodeLost, Linked, e
<1>2. CASE Len(node') = Len(node) /\ link' = link
  <2>1. NoNodeLost
    BY <1>2 DEF NoNodeLost
  <2> QED
    BY <1>1, <2>1
<1>3. ASSUME NEW t \in Thread, WriteOwner(t) \/ WriteEnd(t) \/ Erase(t)
      PROVE  Len(node') = Len(node) /\ link' = link
  BY <1>3, WritesNode
<1> QED
  BY <1>1, <1>2, <1>3, StepNodes

-----------------------------------------------------------------------------
(* Where the calls are.  A writing call that is alone, and every call      *)
(* while no node has been lost, is at the node its path leads to.          *)
Placed(t) == Way(link, Steps(call[t].path))[PosIn(call[t])] = call[t].at

Places ==
  /\ \A t \in Thread : Writing(t) /\ call[t].alone =>
                         Placed(t) /\ (call[t].stage = "link" => ~Linked(t))
  /\ NoNodeLost => \A t \in Thread : Active(t) => Placed(t)

(* A call that was placed stays so if no node is lost.                     *)
LEMMA PlacedStep ==
  ASSUME TypeInv, TypeInv', [ThreadsNext]_tvars,
         NEW t \in Thread, call'[t] # None, Active(t) => Placed(t),
         \A u \in Thread : MakeNode(u) => ~Linked(u)
  PROVE  Placed(t)'
<1> DEFINE p == call'[t].path
<1>1. Fit(call'[t]) /\ p \in Text /\ Len(Steps(p)) = Len(p) + 1 /\ Len(p) \in Nat
  BY StepsAre DEF TypeInv, CallsFit, Active, Fit, Call
<1>2. CASE call'[t].at = 0
  <2>1. PosIn(call'[t]) = 0
    BY <1>1, <1>2 DEF Fit
  <2> QED
    BY <1>1, <1>2, <2>1, WaySteps DEF Placed
<1>3. CASE call'[t].at # 0
  <2>1. /\ Active(t) /\ p = call[t].path
        /\ \/ call'[t].at = call[t].at /\ PosIn(call'[t]) = PosIn(call[t])
           \/ /\ Walk(t) /\ Linked(t) /\ PosIn(call'[t]) = call[t].i
              /\ call'[t].at = link[<<call[t].at, Step(t)>>]
    BY <1>3, Carried
  <2>2. /\ Fit(call[t]) /\ Way(link, Steps(p))[PosIn(call[t])] = call[t].at
        /\ PosIn(call[t]) \in 0..Len(p) + 1
    <3>1. Fit(call[t]) /\ Placed(t)
      BY <2>1 DEF TypeInv, CallsFit
    <3>2. PosIn(call[t]) \in 0..Len(p) + 1
      <4>1. Len(Steps(call[t].path)) = Len(p) + 1
        BY <1>1, <2>1
      <4>2. /\ call[t].i \in 1..Len(p) + 2
            /\ call[t].stage \in {"owner", "end", "look"} => call[t].i # Len(p) + 2
        BY <1>1, <3>1, <4>1 DEF Fit
      <4> HIDE DEF p
      <4> QED
        BY <1>1, <4>2 DEF PosIn
    <3> QED
      BY <2>1, <3>1, <3>2 DEF Placed
  <2>3. CASE /\ Walk(t) /\ Linked(t) /\ PosIn(call'[t]) = call[t].i
             /\ call'[t].at = link[<<call[t].at, Step(t)>>]
    <3>1. link' = link /\ call[t].stage \in {"walk", "again"}
      BY <2>3 DEF Walk, nodeVars
    <3>2. call[t].i - 1 = PosIn(call[t]) /\ call[t].i \in 1..Len(p) + 1
      BY <1>1, <2>1, <2>2, <3>1, SMTT(30) DEF Fit, PosIn
    <3>3. Way(link, Steps(p))[call[t].i] = Child(link, call[t].at, Steps(p)[call[t].i])
      <4>1. Way(link, Steps(p))[call[t].i]
              = Child(link, Way(link, Steps(p))[call[t].i - 1], Steps(p)[call[t].i])
        BY <1>1, <3>2, WaySteps
      <4> QED
        BY <2>2, <3>2, <4>1
    <3>4. Child(link, call[t].at, Steps(p)[call[t].i]) = link[<<call[t].at, Step(t)>>]
      BY <2>1, <2>3 DEF Child, Linked, Step
    <3> QED
      BY <2>3, <3>1, <3>3, <3>4 DEF Placed
  <2>4. CASE call'[t].at = call[t].at /\ PosIn(call'[t]) = PosIn(call[t]) /\ link' = link
    BY <2>2, <2>4 DEF Placed
  <2>5. ASSUME NEW u \in Thread, MakeNode(u),
               call'[t].at = call[t].at, PosIn(call'[t]) = PosIn(call[t])
        PROVE  Placed(t)'
    <3>1. /\ LinksTo(link, Len(node)) /\ Edge(Len(node), call[u].at, Step(u), Len(node'))
          /\ link' = Relink(link, call[u].at, Step(u), Len(node'))
          /\ <<call[u].at, Step(u)>> \notin DOMAIN link
      BY <2>5, MakesNode DEF TypeInv, Linked
    <3>2. Way(link, Steps(p))[PosIn(call[t])] # 0
      BY <1>3, <2>2, <2>5
    <3>3. Way(link', Steps(p))[PosIn(call[t])] = Way(link, Steps(p))[PosIn(call[t])]
      BY <1>1, <2>2, <3>1, <3>2, WayStands
    <3> QED
      BY <2>2, <2>5, <3>3 DEF Placed
  <2>6. ASSUME NEW u \in Thread, WriteOwner(u) \/ WriteEnd(u) \/ Erase(u) PROVE link' = link
    BY <2>6, WritesNode
  <2> QED
    BY <2>1, <2>3, <2>4, <2>5, <2>6, StepNodes
<1> QED
  BY <1>2, <1>3

(* A call comes to make a node only where it has just seen none.           *)
LEMMA LinkStage ==
  ASSUME TypeInv, NEW t \in Thread, Works(t), call'[t] # None, call'[t].stage = "link"
  PROVE  ~Linked(t) /\ call'[t].at = call[t].at /\ Step(t)' = Step(t)
<1>1. Active(t) /\ Fit(call[t]) /\ call[t] \in Call /\ call \in [Thread -> Call \union {None}]
  BY Moves DEF Fit, TypeInv, ThreadsTypeOK
<1>2. ASSUME NEW c, GoOn(t, c) PROVE call'[t] = c
  BY <1>1, <1>2 DEF GoOn
<1>3. ~\E r : Return(t, r)
  BY <1>1 DEF Return
<1>4. CASE Walk(t)
  <2>1. CASE Linked(t)
    <3>1. link[<<call[t].at, Step(t)>>] \in Nat /\ link[<<call[t].at, Step(t)>>] # 0
      BY <2>1 DEF TypeInv, LinksTo, Linked, ThreadsTypeOK
    <3>2. /\ GoOn(t, Arrived(call[t], link[<<call[t].at, Step(t)>>]))
          /\ call[t].stage \in {"walk", "again"}
      BY <1>4, <2>1 DEF Walk
    <3> QED
      BY <1>1, <1>2, <3>1, <3>2, ArrivedFits
  <2>2. CASE ~Linked(t)
    <3>1. call'[t] = [call[t] EXCEPT !.stage = "link"]
      BY <1>2, <1>3, <1>4, <2>2 DEF Walk
    <3>2. /\ call'[t].at = call[t].at /\ call'[t].i = call[t].i
          /\ call'[t].path = call[t].path
      BY <1>1, <3>1 DEF Call
    <3> QED
      BY <2>2, <3>2 DEF Step
  <2> QED
    BY <2>1, <2>2
<1>5. CASE MakeNode(t)
  BY <1>5, MakesNode
<1>6. CASE WriteOwner(t)
  <2>1. call'[t] = [call[t] EXCEPT !.stage = "end"]
    BY <1>2, <1>3, <1>6 DEF WriteOwner
  <2> QED
    BY <1>1, <2>1 DEF Call
<1>7. CASE WriteEnd(t)
  <2>1. \/ call'[t] = [call[t] EXCEPT !.stage = "owner"]
        \/ GoOn(t, Onward(call[t])) /\ call[t].i # Len(Steps(call[t].path))
    <3>1. CASE Step(t) # Slash
      BY <1>2, <1>7, <3>1 DEF WriteEnd
    <3>2. CASE Step(t) = Slash
      BY <1>3, <1>7, <3>2 DEF WriteEnd
    <3> QED
      BY <3>1, <3>2
  <2>2. call[t].stage = "end" /\ call[t].i \in 1..Len(Steps(call[t].path)) /\ Len(Steps(call[t].path)) \in Nat
    BY <1>1, <1>7, StepsAre DEF WriteEnd, Fit, Call
  <2> QED
    BY <1>1, <1>2, <2>1, <2>2, LeaveFits DEF Call
<1>8. CASE Look(t)
  <2>1. GoOn(t, Onward(call[t])) /\ call[t].stage = "look"
    BY <1>3, <1>8 DEF Look
  <2>2. call[t].op # "insert"
    BY <1>1, <2>1 DEF Fit
  <2> QED
    BY <1>1, <1>2, <2>1, <2>2, LeaveFits
<1>9. CASE ReadResult(t)
  <2>1. call'[t] = [call[t] EXCEPT !.stage = "again", !.at = 0, !.i = 1]
    BY <1>2, <1>3, <1>9 DEF ReadResult
  <2> QED
    BY <1>1, <2>1 DEF Call
<1>10. CASE Erase(t)
  BY <1>3, <1>10 DEF Erase
<1> QED
  BY <1>4, <1>5, <1>6, <1>7, <1>8, <1>9, <1>10 DEF Works

(* So do all the calls, while no node is lost, and those that are alone in *)
(* any case.                                                               *)
LEMMA PlacesStep ==
  ASSUME TypeInv, TypeInv', Alone, Places, [ThreadsNext]_tvars
  PROVE  Places'
<1>1. ASSUME NoNodeLost', NEW t \in Thread, Active(t)'
      PROVE  Placed(t)'
  <2>1. NoNodeLost /\ \A u \in Thread : MakeNode(u) => ~Linked(u)
    BY <1>1, LostForGood
  <2> QED
    BY <1>1, <2>1, PlacedStep DEF Places, Active
<1>2. ASSUME NEW t \in Thread, Writing(t)', call'[t].alone
      PROVE  Placed(t)' /\ (call'[t].stage = "link" => ~Linked(t)')
  <2>1. CASE ~Active(t)
    <3>1. call'[t].at = 0 /\ call'[t].stage = "walk"
      <4>1. ASSUME NEW u \in Thread, NEW op \in Op, NEW p \in Text, NEW s \in Route,
                   op = "insert" => s \in Server, Begin(u, op, p, s)
            PROVE  call'[t].at = 0 /\ call'[t].stage = "walk"
        <5>1. u = t
          BY <1>2, <2>1, <4>1, BeginIs DEF Writing, Active
        <5> QED
          BY <4>1, <5>1, BeginIs
      <4>2. ASSUME NEW u \in Thread, Works(u) PROVE FALSE
        BY <1>2, <2>1, <4>2, Moves DEF Writing, Active
      <4>3. ~UNCHANGED tvars
        BY <1>2, <2>1 DEF Writing, Active, tvars
      <4> QED
        BY <4>1, <4>2, <4>3, StepIs
    <3>2. Fit(call'[t])
      BY <1>2 DEF TypeInv, CallsFit, Writing, Active
    <3>3. PosIn(call'[t]) = 0 /\ call'[t].path \in Text
      BY <3>1, <3>2 DEF Fit, Call
    <3> QED
      BY <3>1, <3>3, WaySteps DEF Placed
  <2>2. CASE Active(t)
    <3>1. Writing(t) /\ call[t].alone
      <4>1. ASSUME NEW u \in Thread, NEW op \in Op, NEW p \in Text, NEW s \in Route,
                   op = "insert" => s \in Server, Begin(u, op, p, s)
            PROVE  Writing(t) /\ call[t].alone
        BY <1>2, <2>2, <4>1, BeginIs DEF Writing, Active
      <4>2. ASSUME NEW u \in Thread, Works(u) PROVE Writing(t) /\ call[t].alone
        BY <1>2, <2>2, <4>2, Moves DEF Writing, Active, SameCall
      <4>3. UNCHANGED tvars => Writing(t) /\ call[t].alone
        BY <1>2, <2>2 DEF Writing, Active, tvars
      <4> QED
        BY <4>1, <4>2, <4>3, StepIs
    <3>2. Placed(t) /\ (call[t].stage = "link" => ~Linked(t))
      BY <3>1 DEF Places
    <3>3. \A u \in Thread : MakeNode(u) => u = t /\ ~Linked(u) /\ call'[t].stage # "link"
      <4> SUFFICES ASSUME NEW u \in Thread, MakeNode(u)
                   PROVE  u = t /\ ~Linked(u) /\ call'[t].stage # "link"
        OBVIOUS
      <4>1. call[u].op = "insert" /\ call[u].stage = "link" /\ call'[u].stage = "walk"
        BY MakesNode
      <4>2. Writing(u)
        BY <4>1, Moves DEF Works, Writing
      <4> QED
        BY <3>1, <3>2, <4>1, <4>2 DEF Alone
    <3>4. Placed(t)'
      BY <1>2, <3>2, <3>3, PlacedStep DEF Writing, Active
    <3>5. ASSUME call'[t].stage = "link" PROVE ~Linked(t)'
      <4>1. link' = link
        <5>1. ASSUME NEW u \in Thread, WriteOwner(u) \/ WriteEnd(u) \/ Erase(u) PROVE link' = link
          BY <5>1, WritesNode
        <5> QED
          BY <3>3, <3>5, <5>1, StepNodes
      <4>2. ~Linked(t) /\ call'[t].at = call[t].at /\ Step(t)' = Step(t)
        <5>1. CASE call'[t].at = call[t].at /\ call'[t].i = call[t].i /\ call'[t].path = call[t].path
                   /\ call[t].stage = "link"
          BY <3>2, <5>1 DEF Step
        <5>2. ASSUME NEW u \in Thread, NEW op \in Op, NEW p \in Text, NEW s \in Route,
                     op = "insert" => s \in Server, Begin(u, op, p, s)
              PROVE  /\ call'[t].at = call[t].at /\ call'[t].i = call[t].i
                     /\ call'[t].path = call[t].path /\ call[t].stage = "link"
          BY <2>2, <3>5, <5>2, BeginIs
        <5>3. ASSUME NEW u \in Thread, Works(u), u # t PROVE call'[t] = call[t]
          BY <5>3, Moves
        <5>4. CASE Works(t)
          BY <1>2, <3>5, <5>4, LinkStage DEF Writing, Active
        <5>5. UNCHANGED tvars => call'[t] = call[t]
          BY DEF tvars
        <5> QED
          BY <3>5, <5>1, <5>2, <5>3, <5>4, <5>5, StepIs
      <4> QED
        BY <4>1, <4>2 DEF Linked
    <3> QED
      BY <3>4, <3>5
  <2> QED
    BY <2>1, <2>2
<1> QED
  BY <1>1, <1>2 DEF Places

(* The nodes, their shape and the places of the calls, all together.       *)
Base == TypeInv /\ Shape /\ Alone /\ Places

(* At first.                                                               *)
LEMMA BaseInit == ThreadsInit => Base
<1> SUFFICES ASSUME ThreadsInit PROVE Base
  OBVIOUS
<1>1. \A t \in Thread : ~Active(t)
  BY DEF ThreadsInit, Active
<1>2. \A r \in Text : \A k \in 1..Len(r) + 1 : Way(link, Steps(r))[k] = 0
  <2> SUFFICES ASSUME NEW r \in Text, NEW k \in 1..Len(r) + 1 PROVE Way(link, Steps(r))[k] = 0
    OBVIOUS
  <2>1. Way(link, Steps(r))[k] = Child(link, Way(link, Steps(r))[k - 1], Steps(r)[k])
    BY WaySteps
  <2>2. link = <<>> /\ DOMAIN link = {}
    BY DEF ThreadsInit
  <2> QED
    BY <2>1, <2>2 DEF Child
<1>3. Shape
  BY <1>1, <1>2 DEF Shape, Agree, EndsAtTexts
<1> QED
  BY <1>1, <1>3, TypeInit DEF Base, Alone, Places, Writing

(* After every step.                                                       *)
LEMMA BaseStep == Base /\ [ThreadsNext]_tvars => Base'
<1> SUFFICES ASSUME Base, [ThreadsNext]_tvars PROVE Base'
  OBVIOUS
<1>1. TypeInv /\ Shape /\ Alone /\ Places
  BY DEF Base
<1>2. TypeInv'
  BY <1>1, TypeStep
<1>3. Agree' /\ EndsAtTexts'
  BY <1>1, AgreeStep, EndsStep DEF Shape
<1>4. Alone'
  BY <1>1, AloneStep
<1>5. Places'
  BY <1>1, <1>2, PlacesStep
<1> QED
  BY <1>2, <1>3, <1>4, <1>5 DEF Base, Shape

-----------------------------------------------------------------------------
(* What a step does to the marks: nothing, if it writes no node; little,   *)
(* if it makes one; and a write changes the mark of one text only.         *)
LEMMA StillMarks ==
  ASSUME node' = node, link' = link
  PROVE  Marks' = Marks
  BY MarksAre

(* The mark of a text is read at the end of its way.                       *)
LEMMA MarksAt ==
  ASSUME TypeInv
  PROVE  /\ Marks \in [Text -> Mark]
         /\ \A p \in Text : /\ Way(link, Steps(p))[Len(p) + 1] \in 0..Len(node)
                            /\ Way(link, Steps(p))[Len(p) + 1] = 0 => Marks[p] = Unmarked
                            /\ Way(link, Steps(p))[Len(p) + 1] # 0 =>
                                 Marks[p] = IF node[Way(link, Steps(p))[Len(p) + 1]].end
                                            THEN node[Way(link, Steps(p))[Len(p) + 1]].server
                                            ELSE Unmarked
<1>1. node \in Seq(NodeRecord) /\ LinksTo(link, Len(node))
  BY DEF TypeInv, ThreadsTypeOK, NodeRecord
<1> QED
  BY <1>1, MarksAre, MarksType DEF MarksOf

(* A node that is made where there was none changes no mark, and in any    *)
(* case none of the texts whose ways do not take its link.                 *)
LEMMA MakeMarks ==
  ASSUME TypeInv, NEW t \in Thread, MakeNode(t)
  PROVE  /\ ~Linked(t) => Marks' = Marks
         /\ \A p \in Text :
              (\A k \in 1..Len(p) + 1 :
                 ~(Way(link, Steps(p))[k - 1] = call[t].at /\ Steps(p)[k] = Step(t)))
                => /\ Marks'[p] = Marks[p]
                   /\ \A k \in 0..Len(p) + 1 : Way(link', Steps(p))[k] = Way(link, Steps(p))[k]
<1> DEFINE a == call[t].at
           c == Step(t)
           N == Len(node)
           m == Len(node')
<1>1. /\ LinksTo(link, N) /\ Edge(N, a, c, m) /\ link' = Relink(link, a, c, m)
      /\ node \in Seq(NodeRecord) /\ node' \in Seq(NodeRecord) /\ m = N + 1 /\ N \in Nat
      /\ node'[m] = [server |-> NoServer, end |-> FALSE]
      /\ \A n \in 1..N : node'[n] = node[n]
  <2>1. node \in Seq(NodeRecord) /\ LinksTo(link, N) /\ N \in Nat
    BY DEF TypeInv, ThreadsTypeOK, NodeRecord
  <2> HIDE DEF a, c
  <2> QED
    BY <2>1, MakesNode DEF a, c
<1>2. Marks = MarksOf(node, link) /\ Marks' = MarksOf(node', link')
  BY MarksAre
<1>3. ASSUME NEW p \in Text,
             Way(link', Steps(p))[Len(p) + 1] = Way(link, Steps(p))[Len(p) + 1]
      PROVE  Marks'[p] = Marks[p]
  <2>1. Way(link, Steps(p))[Len(p) + 1] \in 0..N
    BY <1>1, MarksType
  <2>2. Way(link, Steps(p))[Len(p) + 1] = 0 \/ Way(link, Steps(p))[Len(p) + 1] \in 1..N
    BY <2>1
  <2> QED
    BY <1>1, <1>2, <1>3, <2>2 DEF MarksOf
<1> HIDE DEF a, c, N, m
<1>4. ASSUME NEW p \in Text,
             \A k \in 1..Len(p) + 1 : ~(Way(link, Steps(p))[k - 1] = a /\ Steps(p)[k] = c)
      PROVE  \A k \in 0..Len(p) + 1 : Way(link', Steps(p))[k] = Way(link, Steps(p))[k]
  <2> DEFINE K == Len(p) + 1
  <2>1. K \in Nat /\ K <= Len(p) + 1
    BY StepsAre
  <2>2. \A k \in 1..K : ~(Way(link, Steps(p))[k - 1] = a /\ Steps(p)[k] = c)
    BY <1>4
  <2> HIDE DEF K
  <2>3. \A k \in 0..K : Way(Relink(link, a, c, m), Steps(p))[k] = Way(link, Steps(p))[k]
    BY <1>1, <2>1, <2>2, WayKept
  <2> QED
    BY <1>1, <2>3 DEF K
<1>5. ASSUME <<a, c>> \notin DOMAIN link, NEW p \in Text
      PROVE  Marks'[p] = Marks[p]
  <2>1. Len(p) + 1 \in 0..Len(p) + 1
    BY StepsAre
  <2>2. CASE Way(link, Steps(p))[Len(p) + 1] # 0
    <3> DEFINE K == Len(p) + 1
    <3>1. K \in 0..Len(p) + 1 /\ Way(link, Steps(p))[K] # 0
      BY <2>1, <2>2
    <3> HIDE DEF K
    <3>2. Way(Relink(link, a, c, m), Steps(p))[K] = Way(link, Steps(p))[K]
      BY <1>1, <1>5, <3>1, WayStands
    <3> QED
      BY <1>1, <1>3, <3>2 DEF K
  <2>3. CASE Way(link, Steps(p))[Len(p) + 1] = 0
    <3>1. Way(link', Steps(p))[Len(p) + 1] \in {0, m}
      BY <1>1, <2>1, <2>3, WayRelinked
    <3>2. Marks[p] = Unmarked
      BY <1>2, <2>3 DEF MarksOf
    <3>3. Marks'[p] = Unmarked
      BY <1>1, <1>2, <3>1 DEF MarksOf
    <3> QED
      BY <3>2, <3>3
  <2> QED
    BY <2>2, <2>3
<1>6. <<a, c>> \notin DOMAIN link => Marks' = Marks
  <2>1. Marks = [p \in Text |-> Marks[p]] /\ Marks' = [p \in Text |-> Marks'[p]]
    BY <1>2 DEF MarksOf
  <2> QED
    BY <1>5, <2>1
<1>7. ASSUME NEW p \in Text,
             \A k \in 1..Len(p) + 1 : ~(Way(link, Steps(p))[k - 1] = a /\ Steps(p)[k] = c)
      PROVE  Marks'[p] = Marks[p]
  <2>1. Len(p) + 1 \in 0..Len(p) + 1
    BY StepsAre
  <2> QED
    BY <1>3, <1>4, <1>7, <2>1
<1> QED
  BY <1>4, <1>6, <1>7 DEF a, c, Linked

(* A write changes the mark of the text it is for, if the call is placed,  *)
(* and no other.                                                           *)
LEMMA WriteMarks ==
  ASSUME TypeInv, Shape, NEW t \in Thread, WriteOwner(t) \/ WriteEnd(t) \/ Erase(t)
  PROVE  /\ \A p \in Text : p # Written(call[t]) => Marks'[p] = Marks[p]
         /\ ~Placed(t) => Marks' = Marks
         /\ Placed(t) =>
              /\ Marks[Written(call[t])]
                   = IF node[call[t].at].end THEN node[call[t].at].server ELSE Unmarked
              /\ Marks'[Written(call[t])]
                   = IF node'[call[t].at].end THEN node'[call[t].at].server ELSE Unmarked
<1> DEFINE q == Written(call[t])
           c == call[t]
<1>1. /\ LinksTo(link, Len(node)) /\ node \in Seq(NodeRecord) /\ Len(node) \in Nat
  BY DEF TypeInv, ThreadsTypeOK, NodeRecord
<1>2. Marks = MarksOf(node, link) /\ Marks' = MarksOf(node', link')
  BY MarksAre
<1>3. /\ link' = link /\ c.at \in 1..Len(node) /\ c.stage \in {"owner", "end", "erase"}
      /\ \A n \in 1..Len(node) : n # c.at => node'[n] = node[n]
  BY WritesNode
<1>4. Active(t) /\ Fit(c) /\ c.path \in Text
  BY Moves DEF Works, Fit, Call
<1>5. q \in Text /\ Len(q) + 1 = PosIn(c) /\ IsPrefix(q, c.path)
  BY <1>3, <1>4, WrittenIs
<1>6. ASSUME NEW p \in Text, Way(link, Steps(p))[Len(p) + 1] # c.at
      PROVE  Marks'[p] = Marks[p]
  <2>1. Way(link, Steps(p))[Len(p) + 1] \in 0..Len(node)
    BY <1>1, MarksType
  <2>2. Way(link, Steps(p))[Len(p) + 1] = 0 \/ Way(link, Steps(p))[Len(p) + 1] \in 1..Len(node)
    BY <2>1
  <2> QED
    BY <1>2, <1>3, <1>6, <2>2 DEF MarksOf
<1>7. ASSUME NEW p \in Text, Way(link, Steps(p))[Len(p) + 1] = c.at
      PROVE  p = q
  <2>0. Len(p) \in Nat /\ Len(q) \in Nat /\ Len(p) + 1 \in 1..Len(p) + 1 /\ c.at # 0
    BY <1>3, <1>5, StepsAre
  <2>1. Meets(link, c)
    BY <1>4, <2>0 DEF Shape, Agree
  <2>2. Len(p) + 1 = PosIn(c) /\ \A j \in 1..Len(p) + 1 : Steps(p)[j] = Steps(c.path)[j]
    BY <1>7, <2>0, <2>1 DEF Meets
  <2>3. Len(p) = Len(q) /\ Len(q) <= Len(c.path)
    BY <1>4, <1>5, <2>0, <2>2, PrefixOrder
  <2>4. IsPrefix(p, c.path)
    BY <1>4, <2>2, <2>3, PrefixIs
  <2> QED
    BY <1>4, <1>5, <2>3, <2>4, OnePrefix
<1>8. Way(link, Steps(q))[Len(q) + 1] = Way(link, Steps(c.path))[PosIn(c)]
  <2>1. /\ Len(q) + 1 \in Nat /\ Len(q) + 1 <= Len(c.path) + 1 /\ Len(q) + 1 \in 0..Len(q) + 1
        /\ \A j \in 1..Len(q) + 1 : Steps(q)[j] = Steps(c.path)[j]
    BY <1>4, <1>5, StepsAre, PrefixIs
  <2>2. \A k \in 0..Len(q) + 1 : Way(link, Steps(q))[k] = Way(link, Steps(c.path))[k]
    BY <1>4, <1>5, <2>1, WayShared
  <2> QED
    BY <1>5, <2>1, <2>2
<1> HIDE DEF q
<1>9. \A p \in Text : p # q => Marks'[p] = Marks[p]
  BY <1>6, <1>7
<1>10. ASSUME ~Placed(t) PROVE Marks' = Marks
  <2>1. Way(link, Steps(q))[Len(q) + 1] # c.at
    BY <1>8, <1>10 DEF Placed
  <2>2. \A p \in Text : Marks'[p] = Marks[p]
    BY <1>5, <1>6, <1>9, <2>1
  <2>3. Marks = [p \in Text |-> Marks[p]] /\ Marks' = [p \in Text |-> Marks'[p]]
    BY <1>2 DEF MarksOf
  <2> QED
    BY <2>2, <2>3
<1>11. ASSUME Placed(t)
       PROVE  /\ Marks[q] = IF node[c.at].end THEN node[c.at].server ELSE Unmarked
              /\ Marks'[q] = IF node'[c.at].end THEN node'[c.at].server ELSE Unmarked
  <2>1. Way(link, Steps(q))[Len(q) + 1] = c.at /\ c.at # 0
    BY <1>3, <1>8, <1>11 DEF Placed
  <2> QED
    BY <1>2, <1>3, <1>5, <2>1 DEF MarksOf
<1> QED
  BY <1>9, <1>10, <1>11 DEF q

-----------------------------------------------------------------------------
(* The calls step by step.  A text is passed when its node is behind.      *)
Passed(c, q) == Len(q) + 1 < c.i

(* The texts at which a call to which the step i is next may have stopped. *)
LEMMA NoMarkHere ==
  ASSUME NEW p \in Text, NEW i \in 1..Len(p) + 1,
         i = 1 \/ (i < Len(p) + 1 /\ Steps(p)[i] # Slash), NEW q \in MarkedBy(p)
  PROVE  Len(q) + 1 # i
<1> SUFFICES ASSUME Len(q) + 1 = i PROVE FALSE
  OBVIOUS
<1>1. q \in Text /\ Len(p) \in Nat /\ Len(q) \in Nat /\ Len(q) >= 1
  BY StepsAre DEF MarkedBy, DirsOf
<1>2. i # 1 /\ i \in 2..Len(p) + 1 /\ i - 1 = Len(q) /\ Len(q) # Len(p)
  BY <1>1
<1>3. IsDirText(q) /\ IsPrefix(q, p)
  BY <1>2 DEF MarkedBy, DirsOf
<1>4. q[Len(q)] = Slash /\ q[Len(q)] = p[Len(q)]
  BY <1>1, <1>3, PrefixIs DEF IsDirText
<1>5. Steps(p)[i] = p[i - 1]
  BY <1>2, StepsAre
<1> QED
  BY <1>2, <1>4, <1>5

Stays == vars' = vars /\ astray' = astray /\ due' = due
SameNodes == node' = node /\ link' = link

(* The steps of an insertion.                                              *)
LEMMA InsertMoves ==
  ASSUME TypeInv, NEW t \in Thread, Works(t), call[t].op = "insert"
  PROVE  \/ /\ Walk(t) /\ call'[t] # None /\ SameNodes /\ Stays
            /\ \/ call'[t].i = call[t].i
               \/ call'[t].i = call[t].i + 1 /\ \A q \in MarkedBy(call[t].path) : Len(q) + 1 # call[t].i
            /\ call'[t].stage = "end" => Step(t)' # Slash
            /\ call'[t].stage = "owner" => Step(t)' = Slash
         \/ MakeNode(t)
         \/ /\ WriteOwner(t) /\ Step(t) = Slash /\ call'[t] # None /\ Stays
            /\ call'[t].i = call[t].i /\ call'[t].stage = "end" /\ call'[t].at = call[t].at
         \/ WriteOwner(t) /\ Step(t) # Slash /\ Return(t, NoServer)
         \/ /\ WriteEnd(t) /\ Step(t) # Slash /\ call'[t] # None /\ Stays
            /\ call'[t].i = call[t].i /\ call'[t].stage = "owner" /\ call'[t].at = call[t].at
         \/ /\ WriteEnd(t) /\ Step(t) = Slash /\ call'[t] # None /\ Stays
            /\ call'[t].i = call[t].i + 1 /\ call'[t].stage = "walk"
         \/ /\ WriteEnd(t) /\ Step(t) = Slash /\ Return(t, NoServer)
            /\ call[t].i = Len(call[t].path) + 1
<1>1. /\ Active(t) /\ Fit(call[t]) /\ call[t] \in Call /\ call \in [Thread -> Call \union {None}]
      /\ call[t].path \in Text /\ Len(Steps(call[t].path)) = Len(call[t].path) + 1
      /\ Len(call[t].path) \in Nat /\ Len(call[t].path) >= 1
  BY Moves, StepsAre DEF Fit, Call, TypeInv, ThreadsTypeOK
<1>2. ASSUME NEW c, GoOn(t, c) PROVE call'[t] = c /\ Stays
  BY <1>1, <1>2 DEF GoOn, Stays
<1>3. ASSUME NEW c \in Call PROVE c # None
  BY NoneIsNoCall
<1>4. CASE Walk(t)
  <2>1. SameNodes /\ call[t].stage \in {"walk", "again"}
    BY <1>4 DEF Walk, SameNodes, nodeVars
  <2>2. CASE Linked(t)
    <3> DEFINE n == link[<<call[t].at, Step(t)>>]
               d == Arrived(call[t], n)
    <3>1. n \in Nat /\ n # 0
      BY <2>2 DEF TypeInv, LinksTo, Linked, ThreadsTypeOK
    <3>2. call'[t] = d /\ Stays
      BY <1>2, <1>4, <2>2 DEF Walk
    <3> HIDE DEF n
    <3>3. /\ d \in Call /\ SameCall(call[t], d) /\ d.i \in {call[t].i, call[t].i + 1}
          /\ d.i = call[t].i + 1 /\ call[t].i # 1 =>
               call[t].i < Len(Steps(call[t].path)) /\ Steps(call[t].path)[call[t].i] # Slash
          /\ d.stage = "end" => Step(t) # Slash
          /\ d.stage = "owner" => Step(t) = Slash
          /\ d.stage \in {"owner", "end"} => d.i = call[t].i
      <4>1. /\ Fit(d) /\ SameCall(call[t], d) /\ PosIn(d) = call[t].i
            /\ d.i \in {call[t].i, call[t].i + 1}
            /\ d.i = call[t].i + 1 /\ call[t].i # 1 =>
                 call[t].i < Len(Steps(call[t].path)) /\ Steps(call[t].path)[call[t].i] # Slash
            /\ d.stage = "end" => Step(t) # Slash
            /\ d.stage = "owner" => Step(t) = Slash
        BY <1>1, <2>1, <3>1, ArrivedFits DEF Step
      <4> HIDE DEF d
      <4> QED
        BY <4>1 DEF Fit, PosIn
    <3> HIDE DEF d
    <3>4. ASSUME d.i = call[t].i + 1, NEW q \in MarkedBy(call[t].path) PROVE Len(q) + 1 # call[t].i
      <4>1. call[t].i \in 1..Len(call[t].path) + 1
        BY <1>1, <2>1 DEF Fit
      <4> QED
        BY <1>1, <3>3, <3>4, <4>1, NoMarkHere
    <3>5. d.stage \in {"owner", "end"} => Step(t)' = Step(t)
      BY <3>2, <3>3 DEF Step, SameCall
    <3> QED
      BY <1>3, <1>4, <2>1, <3>2, <3>3, <3>4, <3>5
  <2>3. CASE ~Linked(t)
    <3>1. call'[t] = [call[t] EXCEPT !.stage = "link"] /\ Stays
      BY <1>2, <1>4, <2>3 DEF Walk
    <3>2. call'[t] \in Call /\ call'[t].i = call[t].i /\ call'[t].stage = "link"
      BY <1>1, <3>1 DEF Call, Stage
    <3> QED
      BY <1>3, <1>4, <2>1, <3>1, <3>2
  <2> QED
    BY <2>2, <2>3
<1>5. CASE WriteOwner(t) /\ Step(t) = Slash
  <2>1. call'[t] = [call[t] EXCEPT !.stage = "end"] /\ Stays
    BY <1>2, <1>5 DEF WriteOwner
  <2>2. /\ call'[t] \in Call /\ call'[t].i = call[t].i /\ call'[t].stage = "end"
        /\ call'[t].at = call[t].at
    BY <1>1, <2>1 DEF Call, Stage
  <2> QED
    BY <1>3, <1>5, <2>1, <2>2
<1>6. CASE WriteOwner(t) /\ Step(t) # Slash
  BY <1>6 DEF WriteOwner
<1>7. CASE WriteEnd(t) /\ Step(t) # Slash
  <2>1. call'[t] = [call[t] EXCEPT !.stage = "owner"] /\ Stays
    BY <1>2, <1>7 DEF WriteEnd
  <2>2. /\ call'[t] \in Call /\ call'[t].i = call[t].i /\ call'[t].stage = "owner"
        /\ call'[t].at = call[t].at
    BY <1>1, <2>1 DEF Call, Stage
  <2> QED
    BY <1>3, <1>7, <2>1, <2>2
<1>8. CASE WriteEnd(t) /\ Step(t) = Slash
  <2>1. CASE call[t].i = Len(Steps(call[t].path))
    BY <1>1, <1>8, <2>1 DEF WriteEnd
  <2>2. CASE call[t].i # Len(Steps(call[t].path))
    <3>1. call'[t] = Onward(call[t]) /\ Stays /\ call[t].stage = "end"
      BY <1>2, <1>8, <2>2 DEF WriteEnd
    <3>2. call[t].i < Len(Steps(call[t].path))
      BY <1>1, <2>2, <3>1 DEF Fit
    <3>3. /\ Fit(Onward(call[t])) /\ SameCall(call[t], Onward(call[t]))
          /\ Onward(call[t]).i = call[t].i + 1 /\ Onward(call[t]).stage \in {"walk", "return"}
      BY <1>1, <3>1, <3>2, LeaveFits
    <3>4. call'[t] \in Call /\ call'[t].i = call[t].i + 1 /\ call'[t].stage = "walk"
      BY <3>1, <3>3 DEF Fit, SameCall
    <3> QED
      BY <1>3, <1>8, <3>1, <3>4
  <2> QED
    BY <2>1, <2>2
<1>9. ~Look(t) /\ ~ReadResult(t) /\ ~Erase(t)
  BY <1>1 DEF Look, ReadResult, Erase, Fit
<1> QED
  BY <1>4, <1>5, <1>6, <1>7, <1>8, <1>9 DEF Works

(* The steps of a search or a deletion.                                    *)
LEMMA ReadMoves ==
  ASSUME TypeInv, NEW t \in Thread, Works(t), call[t].op # "insert"
  PROVE  \/ /\ Walk(t) /\ Linked(t) /\ call'[t] # None /\ SameNodes /\ Stays
            /\ \/ call'[t].i = call[t].i
               \/ call'[t].i = call[t].i + 1 /\ (call[t].i = 1 \/ call[t].stage = "again")
            /\ call'[t].stage \in {"again", "erase"} <=> call[t].stage = "again"
         \/ Walk(t) /\ ~Linked(t) /\ SameNodes /\ Return(t, NoServer)
         \/ Look(t) /\ Deleted(call[t].at) /\ SameNodes /\ Return(t, NoServer)
         \/ /\ Look(t) /\ ~Deleted(call[t].at) /\ call'[t] # None /\ SameNodes /\ Stays
            /\ call'[t].i = call[t].i + 1 /\ call'[t].stage \in {"walk", "return"}
         \/ /\ ReadResult(t) /\ call[t].op = "delete" /\ Result(t) # NoServer /\ call'[t] # None
            /\ SameNodes /\ Stays /\ call'[t].i = 1 /\ call'[t].stage = "again"
         \/ /\ ReadResult(t) /\ ~(call[t].op = "delete" /\ Result(t) # NoServer)
            /\ SameNodes /\ Return(t, Result(t))
         \/ Erase(t) /\ Return(t, NoServer)
<1>1. /\ Active(t) /\ Fit(call[t]) /\ call[t] \in Call /\ call \in [Thread -> Call \union {None}]
  BY Moves DEF Fit, TypeInv, ThreadsTypeOK
<1>2. ASSUME NEW c, GoOn(t, c) PROVE call'[t] = c /\ Stays
  BY <1>1, <1>2 DEF GoOn, Stays
<1>3. ASSUME NEW c \in Call PROVE c # None
  BY NoneIsNoCall
<1>4. CASE Walk(t)
  <2>1. SameNodes /\ call[t].stage \in {"walk", "again"}
    BY <1>4 DEF Walk, SameNodes, nodeVars
  <2>2. CASE Linked(t)
    <3> DEFINE n == link[<<call[t].at, Step(t)>>]
               d == Arrived(call[t], n)
    <3>1. n \in Nat /\ n # 0
      BY <2>2 DEF TypeInv, LinksTo, Linked, ThreadsTypeOK
    <3>2. call'[t] = d /\ Stays
      BY <1>2, <1>4, <2>2 DEF Walk
    <3> HIDE DEF n
    <3>3. /\ Fit(d) /\ d.i \in {call[t].i, call[t].i + 1}
          /\ d.i = call[t].i + 1 /\ call[t].stage # "again" => call[t].i = 1
          /\ d.stage \in {"again", "erase"} <=> call[t].stage = "again"
      BY <1>1, <2>1, <3>1, ArrivedFits
    <3> HIDE DEF d
    <3>4. d # None
      BY <1>3, <3>3 DEF Fit
    <3> QED
      BY <1>4, <2>1, <2>2, <3>2, <3>3, <3>4
  <2>3. CASE ~Linked(t)
    BY <1>4, <2>1, <2>3 DEF Walk
  <2> QED
    BY <2>2, <2>3
<1>5. CASE Look(t)
  <2>1. SameNodes /\ call[t].stage = "look"
    BY <1>5 DEF Look, SameNodes, nodeVars
  <2>2. CASE Deleted(call[t].at)
    BY <1>5, <2>1, <2>2 DEF Look
  <2>3. CASE ~Deleted(call[t].at)
    <3>1. call'[t] = Onward(call[t]) /\ Stays
      BY <1>2, <1>5, <2>3 DEF Look
    <3>2. /\ Fit(Onward(call[t])) /\ Onward(call[t]).i = call[t].i + 1
          /\ Onward(call[t]).stage \in {"walk", "return"}
      BY <1>1, <2>1, LeaveFits
    <3>3. Onward(call[t]) # None
      BY <1>3, <3>2 DEF Fit
    <3> QED
      BY <1>5, <2>1, <2>3, <3>1, <3>2, <3>3
  <2> QED
    BY <2>2, <2>3
<1>6. CASE ReadResult(t)
  <2>1. SameNodes
    BY <1>6 DEF ReadResult, SameNodes, nodeVars
  <2>2. CASE call[t].op = "delete" /\ Result(t) # NoServer
    <3>1. call'[t] = [call[t] EXCEPT !.stage = "again", !.at = 0, !.i = 1] /\ Stays
      BY <1>2, <1>6, <2>2 DEF ReadResult
    <3> DEFINE d == [call[t] EXCEPT !.stage = "again", !.at = 0, !.i = 1]
    <3>2. d \in Call /\ d.i = 1 /\ d.stage = "again"
      BY <1>1 DEF Call, Stage
    <3>3. call'[t] = d /\ Stays
      BY <3>1
    <3> HIDE DEF d
    <3>4. call'[t] # None /\ call'[t].i = 1 /\ call'[t].stage = "again"
      BY <1>3, <3>2, <3>3
    <3> QED
      BY <1>6, <2>1, <2>2, <3>3, <3>4
  <2>3. CASE ~(call[t].op = "delete" /\ Result(t) # NoServer)
    BY <1>6, <2>1, <2>3 DEF ReadResult
  <2> QED
    BY <2>2, <2>3
<1>7. CASE Erase(t)
  BY <1>7 DEF Erase
<1>8. ~MakeNode(t) /\ ~WriteOwner(t) /\ ~WriteEnd(t)
  BY <1>1 DEF MakeNode, WriteOwner, WriteEnd, Fit, Call, Op
<1> QED
  BY <1>4, <1>5, <1>6, <1>7, <1>8 DEF Works

-----------------------------------------------------------------------------
(* A step as one thread sees it: its own, or one that leaves its call as   *)
(* it is, but for alone.                                                   *)
Inserting(t) == Active(t) /\ call[t].op = "insert"
Deleting(t) == Active(t) /\ call[t].op = "delete"
Searching(t) == Active(t) /\ call[t].op = "search"

Still(t) ==
  /\ call'[t] # None
  /\ call'[t].op = call[t].op /\ call'[t].path = call[t].path /\ call'[t].server = call[t].server
  /\ call'[t].stage = call[t].stage /\ call'[t].at = call[t].at /\ call'[t].i = call[t].i

Begun(t) ==
  /\ call'[t] # None /\ call'[t].stage = "walk" /\ call'[t].at = 0 /\ call'[t].i = 1

(* Whatever the step, a thread takes it, begins, is in no call, or stays.  *)
LEMMA StepOf ==
  ASSUME TypeInv, [ThreadsNext]_tvars, NEW t \in Thread
  PROVE  \/ Works(t)
         \/ ~Active(t) /\ Begun(t) /\ SameNodes /\ vars' = vars /\ astray' = astray
         \/ ~Active(t) /\ call'[t] = None
         \/ Active(t) /\ Still(t)
<1>1. ASSUME NEW u \in Thread, NEW op \in Op, NEW p \in Text, NEW s \in Route,
             op = "insert" => s \in Server, Begin(u, op, p, s)
      PROVE  \/ ~Active(t) /\ Begun(t) /\ SameNodes /\ vars' = vars /\ astray' = astray
             \/ ~Active(t) /\ call'[t] = None
             \/ Active(t) /\ Still(t)
  <2>1. CASE u = t
    <3>1. SameNodes /\ vars' = vars /\ astray' = astray
      BY <1>1 DEF Begin, SameNodes, nodeVars
    <3> QED
      BY <1>1, <2>1, <3>1, BeginIs DEF Begun
  <2>2. CASE u # t
    BY <1>1, <2>2, BeginIs DEF Still
  <2> QED
    BY <2>1, <2>2
<1>2. ASSUME NEW u \in Thread, Works(u), u # t
      PROVE  (~Active(t) /\ call'[t] = None) \/ (Active(t) /\ Still(t))
  <2>1. call'[t] = call[t]
    BY <1>2, Moves
  <2> QED
    BY <2>1 DEF Active, Still
<1>3. ASSUME UNCHANGED tvars
      PROVE  (~Active(t) /\ call'[t] = None) \/ (Active(t) /\ Still(t))
  BY <1>3 DEF Active, Still, tvars
<1> QED
  BY <1>1, <1>2, <1>3, StepIs

(* Nothing is written behind the back of a call that is alone.             *)
LEMMA AloneActs ==
  ASSUME TypeInv, Alone, [ThreadsNext]_tvars, NEW t \in Thread, Writing(t), call'[t] # None, call'[t].alone
  PROVE  call[t].alone /\ (Works(t) \/ (SameNodes /\ Still(t)))
<1>1. ASSUME NEW u \in Thread, NEW op \in Op, NEW p \in Text, NEW s \in Route,
             op = "insert" => s \in Server, Begin(u, op, p, s)
      PROVE  call[t].alone /\ SameNodes /\ Still(t)
  <2>1. u # t
    BY <1>1 DEF Begin, Writing
  <2>2. SameNodes
    BY <1>1 DEF Begin, SameNodes, nodeVars
  <2> QED
    BY <1>1, <2>1, <2>2, BeginIs DEF Still, Writing
<1>2. ASSUME NEW u \in Thread, Works(u), u # t
      PROVE  call[t].alone /\ SameNodes /\ Still(t)
  <2>1. call'[t] = call[t] /\ Fit(call[u]) /\ Active(u)
    BY <1>2, Moves
  <2>2. ~Writing(u)
    BY <1>2, <2>1 DEF Alone
  <2>3. ~MakeNode(u) /\ ~WriteOwner(u) /\ ~WriteEnd(u) /\ ~Erase(u)
    BY <2>1, <2>2 DEF MakeNode, WriteOwner, WriteEnd, Erase, Fit, Call, Op, Writing
  <2>4. SameNodes
    BY <1>2, <2>3 DEF Works, Walk, Look, ReadResult, SameNodes, nodeVars
  <2> QED
    BY <2>1, <2>4 DEF Still
<1>3. ASSUME Works(t) PROVE call[t].alone
  BY <1>3, Moves DEF SameCall
<1>4. ASSUME UNCHANGED tvars PROVE call[t].alone /\ SameNodes /\ Still(t)
  BY <1>4 DEF Still, tvars, nodeVars, SameNodes
<1> QED
  BY <1>1, <1>2, <1>3, <1>4, StepIs

(* The text a call writes is not one that it has passed.                   *)
LEMMA WritesAhead ==
  ASSUME NEW c, Fit(c), c.stage \in {"owner", "end"}
  PROVE  /\ \A q \in Text : Passed(c, q) => q # Written(c)
         /\ \A q \in MarkedBy(c.path) : Len(q) + 1 = c.i => q = Written(c)
<1>1. Written(c) \in Text /\ Len(Written(c)) + 1 = c.i /\ IsPrefix(Written(c), c.path)
  BY WrittenIs
<1>2. Len(Written(c)) \in Nat /\ c.path \in Text /\ c.i \in Nat
  BY <1>1, StepsAre DEF Fit, Call
<1>3. \A q \in MarkedBy(c.path) : q \in Text /\ IsPrefix(q, c.path) /\ Len(q) \in Nat
  BY <1>2, StepsAre, PrefixOrder DEF MarkedBy, DirsOf
<1>4. \A q \in MarkedBy(c.path) : Len(q) + 1 = c.i => Len(q) = Len(Written(c))
  BY <1>1, <1>2, <1>3
<1>5. \A q \in MarkedBy(c.path) : Len(q) + 1 = c.i => q = Written(c)
  BY <1>1, <1>2, <1>3, <1>4, OnePrefix
<1>6. \A q \in Text : Passed(c, q) => q # Written(c)
  BY <1>1, <1>2 DEF Passed
<1> QED
  BY <1>5, <1>6

(* What an insertion that is alone has done so far.                        *)
Done(t) ==
  /\ \A q \in MarkedBy(call[t].path) : Passed(call[t], q) => Marks[q] = call[t].server
  /\ call[t].stage = "end" /\ Step(t) = Slash => node[call[t].at].server = call[t].server
  /\ call[t].stage = "owner" /\ Step(t) # Slash => node[call[t].at].end

AloneMarked == \A t \in Thread : Inserting(t) /\ call[t].alone => Done(t)

(* It is kept by every step: nobody else writes.                           *)
LEMMA AloneMarkedStep ==
  ASSUME Base, Base', AloneMarked, [ThreadsNext]_tvars
  PROVE  AloneMarked'
<1> SUFFICES ASSUME NEW t \in Thread, Inserting(t)', call'[t].alone PROVE Done(t)'
  BY DEF AloneMarked
<1>1. TypeInv /\ Shape /\ Alone /\ Places /\ call'[t] # None /\ Fit(call'[t]) /\ call'[t].path \in Text
  BY DEF Base, Inserting, Active, TypeInv, CallsFit, Fit, Call
<1>2. CASE ~Active(t)
  <2>1. Begun(t)
    BY <1>1, <1>2, StepOf, Moves DEF Still
  <2>2. \A q \in MarkedBy(call'[t].path) : ~Passed(call'[t], q)
    <3>1. \A q \in MarkedBy(call'[t].path) : Len(q) \in Nat
      BY <1>1, StepsAre DEF MarkedBy, DirsOf
    <3> QED
      BY <2>1, <3>1 DEF Begun, Passed
  <2> QED
    BY <2>1, <2>2 DEF Done, Begun
<1>3. CASE Active(t)
  <2>1. /\ call'[t].op = call[t].op /\ call'[t].path = call[t].path /\ call'[t].server = call[t].server
    BY <1>1, <1>3, StepOf, Moves DEF Still, SameCall
  <2>2. Inserting(t) /\ Writing(t)
    BY <1>3, <2>1 DEF Inserting, Writing
  <2>3. call[t].alone /\ (Works(t) \/ (SameNodes /\ Still(t)))
    BY <1>1, <2>2, AloneActs
  <2>4. Done(t) /\ Placed(t) /\ (call[t].stage = "link" => ~Linked(t))
    BY <1>1, <2>2, <2>3 DEF AloneMarked, Places
  <2>5. /\ Fit(call[t]) /\ call[t].path \in Text /\ call[t].i \in Nat
        /\ \A q \in MarkedBy(call[t].path) : q \in Text /\ Len(q) \in Nat
    BY <1>1, <1>3, StepsAre DEF TypeInv, CallsFit, Fit, Call, MarkedBy, DirsOf
  <2>6. CASE SameNodes /\ Still(t)
    <3>1. Marks' = Marks
      BY <2>6, StillMarks DEF SameNodes
    <3>2. Step(t)' = Step(t)
      BY <2>6 DEF Still, Step
    <3> QED
      BY <2>4, <2>6, <3>1, <3>2 DEF Done, Passed, Still, SameNodes
  <2>7. CASE Works(t) /\ Walk(t) /\ SameNodes
    <3>1. Marks' = Marks
      BY <2>7, StillMarks DEF SameNodes
    <3>2. /\ \/ call'[t].i = call[t].i
             \/ call'[t].i = call[t].i + 1 /\ \A q \in MarkedBy(call[t].path) : Len(q) + 1 # call[t].i
          /\ call'[t].stage = "end" => Step(t)' # Slash
          /\ call'[t].stage = "owner" => Step(t)' = Slash
      <4>1. ~MakeNode(t) /\ ~WriteOwner(t) /\ ~WriteEnd(t)
        BY <2>7 DEF Walk, MakeNode, WriteOwner, WriteEnd
      <4> QED
        BY <1>1, <2>2, <2>7, <4>1, InsertMoves DEF Inserting
    <3>3. \A q \in MarkedBy(call[t].path) : Passed(call'[t], q) => Passed(call[t], q)
      BY <2>5, <3>2 DEF Passed
    <3> QED
      BY <2>1, <2>4, <3>1, <3>2, <3>3 DEF Done
  <2>8. CASE MakeNode(t)
    <3>1. Marks' = Marks
      BY <1>1, <2>4, <2>8, MakeMarks, MakesNode
    <3>2. call'[t].i = call[t].i /\ call'[t].stage = "walk"
      BY <1>1, <2>8, MakesNode
    <3> QED
      BY <2>1, <2>4, <3>1, <3>2 DEF Done, Passed
  <2>9. ASSUME Works(t), WriteOwner(t) \/ WriteEnd(t)
        PROVE  /\ call[t].stage \in {"owner", "end"}
               /\ \A q \in MarkedBy(call[t].path) : Passed(call[t], q) => Marks'[q] = call[t].server
               /\ Marks'[Written(call[t])]
                    = IF node'[call[t].at].end THEN node'[call[t].at].server ELSE Unmarked
    <3>1. call[t].stage \in {"owner", "end"}
      BY <2>9 DEF WriteOwner, WriteEnd
    <3>2. \A q \in MarkedBy(call[t].path) : Passed(call[t], q) => q # Written(call[t])
      BY <2>5, <3>1, WritesAhead
    <3>3. \A q \in Text : q # Written(call[t]) => Marks'[q] = Marks[q]
      BY <1>1, <2>9, WriteMarks
    <3>4. Marks'[Written(call[t])]
            = IF node'[call[t].at].end THEN node'[call[t].at].server ELSE Unmarked
      BY <1>1, <2>4, <2>9, WriteMarks
    <3> QED
      BY <2>4, <2>5, <3>1, <3>2, <3>3, <3>4 DEF Done
  <2>10. CASE Works(t) /\ WriteOwner(t)
    <3>1. ~Walk(t) /\ ~MakeNode(t) /\ ~WriteEnd(t) /\ ~Return(t, NoServer)
      <4>1. ASSUME Return(t, NoServer) PROVE FALSE
        BY <1>1, <4>1, NoneIsNoCall DEF Return, TypeInv, ThreadsTypeOK
      <4> QED
        BY <2>10, <4>1 DEF Walk, MakeNode, WriteOwner, WriteEnd
    <3>2. /\ Step(t) = Slash /\ call'[t].i = call[t].i /\ call'[t].stage = "end"
          /\ call'[t].at = call[t].at
      BY <1>1, <2>2, <2>10, <3>1, InsertMoves DEF Inserting
    <3>3. node'[call[t].at].server = call[t].server
      BY <1>1, <2>10, WritesNode
    <3> QED
      BY <2>1, <2>9, <2>10, <3>2, <3>3 DEF Done, Passed
  <2>11. CASE Works(t) /\ WriteEnd(t)
    <3>1. ~Walk(t) /\ ~MakeNode(t) /\ ~WriteOwner(t) /\ ~Return(t, NoServer)
      <4>1. ASSUME Return(t, NoServer) PROVE FALSE
        BY <1>1, <4>1, NoneIsNoCall DEF Return, TypeInv, ThreadsTypeOK
      <4> QED
        BY <2>11, <4>1 DEF Walk, MakeNode, WriteOwner, WriteEnd
    <3>2. /\ node'[call[t].at].end = TRUE
          /\ node'[call[t].at].server = node[call[t].at].server
      BY <1>1, <2>11, WritesNode
    <3>3. \/ call'[t].i = call[t].i /\ call'[t].stage = "owner" /\ call'[t].at = call[t].at
          \/ Step(t) = Slash /\ call'[t].i = call[t].i + 1 /\ call'[t].stage = "walk"
      BY <1>1, <2>2, <2>11, <3>1, InsertMoves DEF Inserting
    <3>4. CASE call'[t].i = call[t].i /\ call'[t].stage = "owner" /\ call'[t].at = call[t].at
      BY <2>1, <2>9, <2>11, <3>2, <3>4 DEF Done, Passed
    <3>5. CASE Step(t) = Slash /\ call'[t].i = call[t].i + 1 /\ call'[t].stage = "walk"
      <4>1. call[t].stage = "end"
        BY <2>11 DEF WriteEnd
      <4>2. Marks'[Written(call[t])] = call[t].server
        BY <2>4, <2>9, <2>11, <3>2, <3>5, <4>1 DEF Done
      <4>3. \A q \in MarkedBy(call[t].path) :
              Passed(call'[t], q) => Passed(call[t], q) \/ q = Written(call[t])
        <5>1. \A q \in MarkedBy(call[t].path) : Len(q) + 1 = call[t].i => q = Written(call[t])
          BY <2>5, <4>1, WritesAhead
        <5> QED
          BY <2>5, <3>5, <5>1 DEF Passed
      <4> QED
        BY <2>1, <2>9, <2>11, <3>5, <4>2, <4>3 DEF Done
    <3> QED
      BY <3>3, <3>4, <3>5
  <2>12. Works(t) => (Walk(t) /\ SameNodes) \/ MakeNode(t) \/ WriteOwner(t) \/ WriteEnd(t)
    BY <1>1, <2>2, InsertMoves DEF Inserting
  <2> QED
    BY <2>3, <2>6, <2>7, <2>8, <2>10, <2>11, <2>12
<1> QED
  BY <1>2, <1>3

(* What a search or a deletion learns at the node it is at, of the marks.  *)
LEMMA MarkHere ==
  ASSUME TypeInv, NEW t \in Thread, Active(t), Placed(t), PosIn(call[t]) # 0,
         NEW q \in Text, IsPrefix(q, call[t].path), Len(q) + 1 = PosIn(call[t])
  PROVE  /\ call[t].at \in 1..Len(node)
         /\ Marks[q] = IF node[call[t].at].end THEN node[call[t].at].server ELSE Unmarked
<1>1. Fit(call[t]) /\ call[t].path \in Text /\ call[t].at # 0
  BY DEF TypeInv, CallsFit, Fit, Call
<1>2. /\ Len(q) + 1 \in Nat /\ Len(q) + 1 <= Len(call[t].path) + 1 /\ Len(q) + 1 \in 0..Len(q) + 1
      /\ \A j \in 1..Len(q) + 1 : Steps(q)[j] = Steps(call[t].path)[j]
  BY <1>1, StepsAre, PrefixIs
<1>3. \A k \in 0..Len(q) + 1 : Way(link, Steps(q))[k] = Way(link, Steps(call[t].path))[k]
  <2> DEFINE K == Len(q) + 1
  <2>1. /\ K \in Nat /\ K <= Len(q) + 1 /\ K <= Len(call[t].path) + 1
        /\ \A j \in 1..K : Steps(q)[j] = Steps(call[t].path)[j]
    BY <1>2
  <2> HIDE DEF K
  <2>2. \A k \in 0..K : Way(link, Steps(q))[k] = Way(link, Steps(call[t].path))[k]
    BY <1>1, <2>1, WayShared
  <2> QED
    BY <2>2 DEF K
<1>4. Way(link, Steps(q))[Len(q) + 1] = call[t].at
  BY <1>2, <1>3 DEF Placed
<1>5. call[t].at \in 0..Len(node) /\ Len(node) \in Nat
  BY DEF TypeInv, ThreadsTypeOK, Active
<1> QED
  BY <1>1, <1>4, <1>5, MarksAt

(* A NULL link, a deleted node and the result tell what the marks are.     *)
LEMMA Learns ==
  ASSUME Base, NEW t \in Thread, Active(t), call[t].op # "insert", Placed(t)
  PROVE  /\ call[t].stage \in {"walk", "again"} /\ ~Linked(t) => Marks[call[t].path] = Unmarked
         /\ call[t].stage = "look" /\ Deleted(call[t].at) =>
              \E q \in Text : IsPrefix(q, call[t].path) /\ Len(q) + 1 = call[t].i /\ Marks[q] = NoServer
         /\ call[t].stage = "look" /\ ~Deleted(call[t].at) =>
              \A q \in Text : IsPrefix(q, call[t].path) /\ Len(q) + 1 = call[t].i => Marks[q] # NoServer
         /\ call[t].stage = "return" =>
              /\ Result(t) = IF Marks[call[t].path] = Unmarked THEN NoServer ELSE Marks[call[t].path]
              /\ \A q \in Text : IsPrefix(q, call[t].path) => Passed(call[t], q)
<1> DEFINE p == call[t].path
           i == call[t].i
<1>1. TypeInv /\ Shape /\ Fit(call[t]) /\ p \in Text
  BY DEF Base, TypeInv, CallsFit, Fit, Call
<1>2. Len(p) \in Nat /\ Len(p) >= 1 /\ Len(Steps(p)) = Len(p) + 1 /\ i \in 1..Len(p) + 2
  BY <1>1, StepsAre DEF Fit
<1>3. LinksTo(link, Len(node)) /\ Len(node) \in Nat /\ node \in Seq(NodeRecord)
  BY <1>1 DEF TypeInv, ThreadsTypeOK, NodeRecord
<1>4. ASSUME call[t].stage \in {"walk", "again"}, ~Linked(t) PROVE Marks[p] = Unmarked
  <2>1. i # Len(p) + 2 /\ PosIn(call[t]) = i - 1
    BY <1>1, <1>2, <1>4 DEF Fit, PosIn
  <2>2. i \in 1..Len(p) + 1
    BY <1>2, <2>1
  <2>3. Way(link, Steps(p))[i] = Child(link, Way(link, Steps(p))[i - 1], Steps(p)[i])
    BY <1>1, <2>2, WaySteps
  <2>4. Way(link, Steps(p))[i] = 0
    BY <1>4, <2>1, <2>3 DEF Placed, Linked, Step, Child
  <2>5. Len(p) + 1 \in i..Len(p) + 1
    BY <1>2, <2>2
  <2>6. Way(link, Steps(p))[Len(p) + 1] = 0
    <3>1. \A k \in i..Len(p) + 1 : Way(link, Steps(p))[k] = 0
      <4> DEFINE j == i
      <4>1. j \in 1..Len(p) + 1 /\ Way(link, Steps(p))[j] = 0
        BY <2>2, <2>4
      <4> HIDE DEF j, p
      <4>2. p \in Text
        BY <1>1
      <4>3. \A k \in j..Len(p) + 1 : Way(link, Steps(p))[k] = 0
        BY <1>3, <4>1, <4>2, WayEnded
      <4> QED
        BY <4>3 DEF j
    <3> QED
      BY <2>5, <3>1
  <2> QED
    BY <1>1, <2>6, MarksAt
<1>5. ASSUME call[t].stage = "look"
      PROVE  /\ Deleted(call[t].at) =>
                  \E q \in Text : IsPrefix(q, p) /\ Len(q) + 1 = i /\ Marks[q] = NoServer
             /\ ~Deleted(call[t].at) =>
                  \A q \in Text : IsPrefix(q, p) /\ Len(q) + 1 = i => Marks[q] # NoServer
  <2>1. PosIn(call[t]) = i /\ i # 0 /\ i # Len(p) + 2
    BY <1>1, <1>2, <1>5 DEF PosIn, Fit
  <2>2. ASSUME NEW q \in Text, IsPrefix(q, p), Len(q) + 1 = i
        PROVE  Marks[q] = IF node[call[t].at].end THEN node[call[t].at].server ELSE Unmarked
    BY <1>1, <2>1, <2>2, MarkHere
  <2>3. ASSUME Deleted(call[t].at) PROVE \E q \in Text : IsPrefix(q, p) /\ Len(q) + 1 = i
    <3>1. i \in 1..Len(p) + 1 /\ Way(link, Steps(p))[i] = call[t].at /\ call[t].at # 0
      BY <1>1, <1>2, <2>1 DEF Placed, Fit
    <3>2. node[call[t].at].end
      BY <2>3 DEF Deleted
    <3> QED
      BY <1>1, <3>1, <3>2 DEF Shape, EndsAtTexts
  <2>4. Unmarked # NoServer
    BY MarkAssumption
  <2> QED
    BY <2>2, <2>3, <2>4 DEF Deleted
<1>6. ASSUME call[t].stage = "return"
      PROVE  /\ Result(t) = IF Marks[p] = Unmarked THEN NoServer ELSE Marks[p]
             /\ \A q \in Text : IsPrefix(q, p) => Passed(call[t], q)
  <2>1. i = Len(p) + 2 /\ PosIn(call[t]) = Len(p) + 1 /\ PosIn(call[t]) # 0
    BY <1>1, <1>2, <1>6 DEF PosIn, Fit
  <2>2. /\ call[t].at \in 1..Len(node)
        /\ Marks[p] = IF node[call[t].at].end THEN node[call[t].at].server ELSE Unmarked
    BY <1>1, <2>1, MarkHere, PrefixOrder
  <2>3. node[call[t].at].server \in Route
    <3>1. node[call[t].at] \in NodeRecord
      BY <1>3, <2>2
    <3> QED
      BY <3>1 DEF NodeRecord
  <2>4. Result(t) = IF Marks[p] = Unmarked THEN NoServer ELSE Marks[p]
    BY <2>2, <2>3, MarkAssumption DEF Result, Route
  <2>5. \A q \in Text : IsPrefix(q, p) => Len(q) <= Len(p) /\ Len(q) \in Nat
    BY <1>1, StepsAre, PrefixOrder
  <2> QED
    BY <1>2, <2>1, <2>4, <2>5 DEF Passed
<1> QED
  BY <1>4, <1>5, <1>6

(* What search_trie returns of marks.                                      *)
LEMMA SearchOf ==
  ASSUME NEW tr \in [Text -> Mark], NEW p \in Text
  PROVE  /\ search_trie(tr, p) \in Route
         /\ tr[p] \in {NoServer, Unmarked} => search_trie(tr, p) = NoServer
         /\ (\E q \in Text : IsPrefix(q, p) /\ tr[q] = NoServer) => search_trie(tr, p) = NoServer
         /\ (\A q \in Text : IsPrefix(q, p) => tr[q] # NoServer) /\ tr[p] # Unmarked =>
              search_trie(tr, p) = tr[p]
         /\ search_trie(tr, p) # NoServer =>
              tr[p] \in Server /\ \A q \in Text : IsPrefix(q, p) => tr[q] # NoServer
<1>1. tr[p] \in Mark
  OBVIOUS
<1>2. BlockedBy(tr, p) = {} <=> \A q \in Text : IsPrefix(q, p) => tr[q] # NoServer
  BY DEF BlockedBy
<1> QED
  BY <1>1, <1>2, MarkAssumption DEF search_trie, Mark, Route

(* An insertion that is alone has done, when it returns, what it is to do. *)
LEMMA Inserted ==
  ASSUME Base, AloneMarked, NEW t \in Thread, Inserting(t), call[t].alone, Works(t), call'[t] = None
  PROVE  /\ \A q \in MarkedBy(call[t].path) : Marks'[q] = call[t].server
         /\ \A q \in Text \ MarkedBy(call[t].path) : Marks'[q] = Marks[q]
         /\ Return(t, NoServer)
<1> DEFINE c == call[t]
           p == call[t].path
<1>1. /\ TypeInv /\ Shape /\ Placed(t) /\ Done(t) /\ Writing(t) /\ Fit(c) /\ p \in Text
  BY DEF Base, Places, AloneMarked, Inserting, Writing, TypeInv, CallsFit, Fit, Call
<1>2. \/ WriteOwner(t) /\ Step(t) # Slash /\ Return(t, NoServer)
      \/ WriteEnd(t) /\ Step(t) = Slash /\ Return(t, NoServer) /\ c.i = Len(p) + 1
  BY <1>1, InsertMoves, MakesNode DEF Inserting
<1>3. c.stage \in {"owner", "end"} /\ (WriteOwner(t) => c.stage = "owner") /\ (WriteEnd(t) => c.stage = "end")
  BY <1>2 DEF WriteOwner, WriteEnd
<1>4. c.i = Len(p) + 1
  BY <1>1, <1>2, <1>3, StepsAre DEF Fit, Step
<1>5. Written(c) \in MarkedBy(p)
  BY <1>1, <1>3, WrittenIs
<1>6. \A q \in Text : q # Written(c) => Marks'[q] = Marks[q]
  BY <1>1, <1>2, WriteMarks
<1>7. Marks'[Written(c)] = c.server
  <2>1. Marks'[Written(c)] = IF node'[c.at].end THEN node'[c.at].server ELSE Unmarked
    BY <1>1, <1>2, WriteMarks
  <2>2. CASE WriteOwner(t) /\ Step(t) # Slash
    <3>1. node'[c.at].server = c.server /\ node'[c.at].end = node[c.at].end
      BY <1>1, <2>2, WritesNode
    <3>2. node[c.at].end
      BY <1>1, <1>3, <2>2 DEF Done
    <3> QED
      BY <2>1, <3>1, <3>2, Zenon
  <2>3. CASE WriteEnd(t) /\ Step(t) = Slash
    <3>1. node'[c.at].server = node[c.at].server /\ node'[c.at].end = TRUE
      BY <1>1, <2>3, WritesNode
    <3>2. node[c.at].server = c.server
      BY <1>1, <1>3, <2>3 DEF Done
    <3> QED
      BY <2>1, <3>1, <3>2
  <2> QED
    BY <1>2, <2>2, <2>3
<1>8. ASSUME NEW q \in MarkedBy(p), q # Written(c) PROVE Marks'[q] = c.server
  <2>1. q \in Text /\ Len(q) \in Nat /\ Len(q) <= Len(p) /\ Len(p) \in Nat
    BY <1>1, StepsAre, PrefixOrder DEF MarkedBy, DirsOf
  <2>2. Len(q) + 1 # c.i
    BY <1>1, <1>3, <1>8, WritesAhead
  <2>3. Passed(c, q)
    BY <1>4, <2>1, <2>2 DEF Passed
  <2> QED
    BY <1>1, <1>6, <1>8, <2>1, <2>3 DEF Done
<1> QED
  BY <1>2, <1>5, <1>6, <1>7, <1>8

-----------------------------------------------------------------------------
(* The marks follow the trie.  While no two writing calls overlap, they    *)
(* differ from it only where an insertion under way has been: it counts    *)
(* when it returns.                                                        *)
Ahead(t) == \A q \in Text : q \notin MarkedBy(call[t].path) \/ Len(q) + 1 > PosIn(call[t])
                              => Marks[q] = trie[q]

(* What a deletion has found so far: nothing deleted, then its path.       *)
Checked(t) ==
  /\ call[t].stage \in {"walk", "look", "return"} =>
       \A q \in Text : IsPrefix(q, call[t].path) /\ Passed(call[t], q) => Marks[q] # NoServer
  /\ call[t].stage \in {"again", "erase"} => search_trie(Marks, call[t].path) # NoServer

Follows == ~mixed =>
  /\ (\A t \in Thread : ~Inserting(t)) => Marks = trie
  /\ \A t \in Thread : Inserting(t) => Ahead(t)
  /\ \A t \in Thread : Deleting(t) => Checked(t)

(* A search writes nothing.                                                *)
LEMMA SearchWorks ==
  ASSUME TypeInv, NEW t \in Thread, Works(t), call[t].op = "search"
  PROVE  SameNodes /\ trie' = trie /\ due' = due
<1>1. ~Erase(t)
  BY Moves DEF Erase, Fit
<1>2. SameNodes /\ (Stays \/ \E r : Return(t, r))
  BY <1>1, ReadMoves
<1>3. ASSUME NEW r, Return(t, r) PROVE trie' = trie /\ due' = due
  <2>1. due \in [Text -> Route]
    BY DEF TypeInv, ThreadsTypeOK
  <2>2. due' = [q \in Text |-> due[q]]
    BY <1>3 DEF Return
  <2>3. Search(call[t].path)
    BY <1>3 DEF Return
  <2> QED
    BY <2>1, <2>2, <2>3 DEF Search
<1> QED
  BY <1>2, <1>3 DEF Stays, vars

(* An insertion that goes on changes only marks it has reached.            *)
LEMMA AheadStep ==
  ASSUME Base, NEW t \in Thread, Ahead(t), Inserting(t), call[t].alone, Works(t), call'[t] # None
  PROVE  Ahead(t)' /\ trie' = trie
<1>1. /\ TypeInv /\ Shape /\ Placed(t) /\ (call[t].stage = "link" => ~Linked(t))
      /\ Writing(t) /\ Fit(call[t]) /\ call[t].path \in Text /\ call[t].i \in Nat
  BY DEF Base, Places, Inserting, Writing, TypeInv, CallsFit, Fit, Call
<1>2. Fit(call'[t]) /\ SameCall(call[t], call'[t]) /\ ~Return(t, NoServer)
  <2>1. ASSUME Return(t, NoServer) PROVE FALSE
    BY <1>1, <2>1 DEF Return, TypeInv, ThreadsTypeOK
  <2> QED
    BY <1>1, <2>1, Moves
<1>3. call'[t].path = call[t].path /\ call'[t].i \in Nat /\ \A q \in Text : Len(q) \in Nat
  BY <1>2, StepsAre DEF SameCall, Fit
<1>4. trie' = trie
  BY <1>1, <1>2, InsertMoves, MakesNode DEF Inserting, Stays, vars
<1>5. CASE Walk(t) /\ SameNodes
  <2>1. call[t].stage = "walk" /\ call'[t].i \in {call[t].i, call[t].i + 1}
    <3>1. ~MakeNode(t) /\ ~WriteOwner(t) /\ ~WriteEnd(t)
      BY <1>5 DEF Walk, MakeNode, WriteOwner, WriteEnd
    <3>2. call'[t].i \in {call[t].i, call[t].i + 1}
      BY <1>1, <3>1, InsertMoves DEF Inserting
    <3> QED
      BY <1>1, <1>5, <3>2 DEF Walk, Fit, Inserting
  <2>2. PosIn(call[t]) = call[t].i - 1 /\ PosIn(call'[t]) \in {call'[t].i, call'[t].i - 1}
    BY <2>1 DEF PosIn
  <2>3. \A q \in Text : Len(q) + 1 > PosIn(call'[t]) => Len(q) + 1 > PosIn(call[t])
    BY <1>1, <1>3, <2>1, <2>2
  <2>4. Marks' = Marks
    BY <1>5, StillMarks DEF SameNodes
  <2> QED
    BY <1>3, <1>4, <2>3, <2>4 DEF Ahead
<1>6. CASE MakeNode(t)
  <2>1. Marks' = Marks
    BY <1>1, <1>6, MakeMarks, MakesNode
  <2>2. PosIn(call'[t]) = PosIn(call[t])
    BY <1>1, <1>6, MakesNode DEF PosIn
  <2> QED
    BY <1>3, <1>4, <2>1, <2>2 DEF Ahead
<1>7. CASE WriteOwner(t) \/ WriteEnd(t)
  <2>1. call[t].stage \in {"owner", "end"}
    BY <1>7 DEF WriteOwner, WriteEnd
  <2>2. PosIn(call[t]) = call[t].i /\ PosIn(call'[t]) = call[t].i
    <3>1. ~MakeNode(t) /\ ~Walk(t)
      BY <1>7 DEF Walk, MakeNode, WriteOwner, WriteEnd
    <3>2. \/ call'[t].i = call[t].i /\ call'[t].stage \in {"owner", "end"}
          \/ call'[t].i = call[t].i + 1 /\ call'[t].stage = "walk"
      BY <1>1, <1>2, <3>1, InsertMoves DEF Inserting
    <3> QED
      BY <1>1, <2>1, <3>2 DEF PosIn
  <2>3. Written(call[t]) \in MarkedBy(call[t].path) /\ Len(Written(call[t])) + 1 = PosIn(call[t])
    BY <1>1, <2>1, WrittenIs
  <2>4. \A q \in Text : q # Written(call[t]) => Marks'[q] = Marks[q]
    BY <1>1, <1>7, WriteMarks
  <2>5. \A q \in Text : Len(q) + 1 > PosIn(call[t]) => q # Written(call[t])
    BY <1>1, <1>3, <2>2, <2>3
  <2> QED
    BY <1>3, <1>4, <2>2, <2>3, <2>4, <2>5 DEF Ahead
<1> QED
  BY <1>1, <1>4, <1>5, <1>6, <1>7, InsertMoves DEF Inserting

(* A deletion erases what it has found, or leaves the trie as it is.       *)
LEMMA CheckedStep ==
  ASSUME Base, Marks = trie, NEW t \in Thread, Deleting(t), call[t].alone, Checked(t), Works(t)
  PROVE  Marks' = trie' /\ (call'[t] # None => Checked(t)')
<1> DEFINE p == call[t].path
<1>1. /\ TypeInv /\ Shape /\ Placed(t) /\ Writing(t) /\ Fit(call[t]) /\ p \in Text
      /\ call[t].i \in Nat /\ Active(t) /\ call[t].op # "insert"
  BY DEF Base, Places, Deleting, Writing, TypeInv, CallsFit, Fit, Call
<1>2. Marks \in [Text -> Mark] /\ \A q \in Text : Len(q) \in Nat /\ Len(q) >= 1
  BY <1>1, MarksAt, StepsAre
<1>3. call'[t] # None => call'[t].path = p
  BY <1>1, Moves DEF SameCall
<1>4. ASSUME SameNodes PROVE Marks' = Marks
  BY <1>4, StillMarks DEF SameNodes
<1>5. ASSUME SameNodes, NEW r, Return(t, r), search_trie(Marks, p) = NoServer
      PROVE  Marks' = trie' /\ call'[t] = None
  <2>1. Delete(p) /\ call'[t] = None
    BY <1>1, <1>5 DEF Return, Deleting, TypeInv, ThreadsTypeOK
  <2> QED
    BY <1>4, <1>5, <2>1 DEF Delete, delete_from_trie
<1>6. ASSUME Walk(t), Linked(t), call'[t] # None, SameNodes, Stays,
             \/ call'[t].i = call[t].i
             \/ call'[t].i = call[t].i + 1 /\ (call[t].i = 1 \/ call[t].stage = "again"),
             call'[t].stage \in {"again", "erase"} <=> call[t].stage = "again"
      PROVE  Marks' = trie' /\ Checked(t)'
  <2>1. Marks' = Marks /\ trie' = trie
    BY <1>4, <1>6 DEF Stays, vars
  <2>2. ASSUME call'[t].stage \in {"walk", "look", "return"},
               NEW q \in Text, IsPrefix(q, p), Passed(call'[t], q)
        PROVE  Marks[q] # NoServer
    <3>1. call[t].stage = "walk"
      BY <1>6, <2>2 DEF Walk
    <3>2. Passed(call[t], q)
      BY <1>1, <1>2, <1>6, <2>2, <3>1 DEF Passed
    <3> QED
      BY <2>2, <3>1, <3>2 DEF Checked
  <2>3. call'[t].stage \in {"again", "erase"} => search_trie(Marks, p) # NoServer
    BY <1>6 DEF Checked
  <2> QED
    BY <1>3, <1>6, <2>1, <2>2, <2>3 DEF Checked
<1>7. ASSUME Walk(t), ~Linked(t), SameNodes, Return(t, NoServer)
      PROVE  Marks' = trie' /\ call'[t] = None
  <2>1. Marks[p] = Unmarked
    BY <1>1, <1>7, Learns DEF Walk
  <2> QED
    BY <1>1, <1>2, <1>5, <1>7, <2>1, SearchOf
<1>8. ASSUME Look(t), Deleted(call[t].at), SameNodes, Return(t, NoServer)
      PROVE  Marks' = trie' /\ call'[t] = None
  <2>1. \E q \in Text : IsPrefix(q, p) /\ Marks[q] = NoServer
    BY <1>1, <1>8, Learns DEF Look
  <2> QED
    BY <1>1, <1>2, <1>5, <1>8, <2>1, SearchOf
<1>9. ASSUME Look(t), ~Deleted(call[t].at), call'[t] # None, SameNodes, Stays,
             call'[t].i = call[t].i + 1, call'[t].stage \in {"walk", "return"}
      PROVE  Marks' = trie' /\ Checked(t)'
  <2>1. Marks' = Marks /\ trie' = trie
    BY <1>4, <1>9 DEF Stays, vars
  <2>2. ASSUME NEW q \in Text, IsPrefix(q, p), Passed(call'[t], q)
        PROVE  Marks[q] # NoServer
    <3>1. CASE Passed(call[t], q)
      BY <1>9, <2>2, <3>1 DEF Checked, Look
    <3>2. CASE Len(q) + 1 = call[t].i
      BY <1>1, <1>9, <2>2, <3>2, Learns DEF Look
    <3>3. Passed(call[t], q) \/ Len(q) + 1 = call[t].i
      BY <1>1, <1>2, <1>9, <2>2 DEF Passed
    <3> QED
      BY <3>1, <3>2, <3>3
  <2> QED
    BY <1>3, <1>9, <2>1, <2>2 DEF Checked
<1>10. ASSUME ReadResult(t), Result(t) # NoServer, call'[t] # None, SameNodes, Stays,
              call'[t].stage = "again"
       PROVE  Marks' = trie' /\ Checked(t)'
  <2>1. Marks' = Marks /\ trie' = trie
    BY <1>4, <1>10 DEF Stays, vars
  <2>2. /\ Result(t) = IF Marks[p] = Unmarked THEN NoServer ELSE Marks[p]
        /\ \A q \in Text : IsPrefix(q, p) => Passed(call[t], q)
    BY <1>1, <1>10, Learns DEF ReadResult
  <2>3. \A q \in Text : IsPrefix(q, p) => Marks[q] # NoServer
    BY <1>10, <2>2 DEF Checked, ReadResult
  <2>4. search_trie(Marks, p) # NoServer
    BY <1>1, <1>2, <1>10, <2>2, <2>3, SearchOf
  <2> QED
    BY <1>3, <1>10, <2>1, <2>4 DEF Checked
<1>11. ASSUME ReadResult(t), ~(call[t].op = "delete" /\ Result(t) # NoServer), SameNodes, Return(t, Result(t))
       PROVE  Marks' = trie' /\ call'[t] = None
  <2>1. Result(t) = NoServer
    BY <1>11 DEF Deleting
  <2>2. Marks[p] \in {Unmarked, NoServer}
    BY <1>1, <1>11, <2>1, Learns DEF ReadResult
  <2> QED
    BY <1>1, <1>2, <1>5, <1>11, <2>2, SearchOf
<1>12. ASSUME Erase(t), Return(t, NoServer)
       PROVE  Marks' = trie' /\ call'[t] = None
  <2>1. Delete(p) /\ call'[t] = None /\ call[t].stage = "erase"
    BY <1>1, <1>12 DEF Return, Deleting, TypeInv, ThreadsTypeOK, Erase
  <2>2. search_trie(Marks, p) # NoServer
    BY <2>1 DEF Checked
  <2>3. trie' = [trie EXCEPT ![p] = NoServer]
    BY <2>1, <2>2 DEF Delete, delete_from_trie
  <2>4. Written(call[t]) = p
    BY <1>1, <2>1, WrittenIs
  <2>5. \A q \in Text : q # p => Marks'[q] = Marks[q]
    BY <1>1, <1>12, <2>4, WriteMarks
  <2>6. Marks'[p] = NoServer
    <3>1. /\ Marks[p] = IF node[call[t].at].end THEN node[call[t].at].server ELSE Unmarked
          /\ Marks'[p] = IF node'[call[t].at].end THEN node'[call[t].at].server ELSE Unmarked
      BY <1>1, <1>12, <2>4, WriteMarks
    <3>2. node'[call[t].at].server = NoServer /\ node'[call[t].at].end = node[call[t].at].end
      BY <1>1, <1>12, WritesNode
    <3>3. Marks[p] # Unmarked
      BY <1>1, <1>2, <2>2, SearchOf, MarkAssumption
    <3> QED
      BY <3>1, <3>2, <3>3, Zenon
  <2>7. Marks' = [q \in Text |-> Marks'[q]]
    BY MarksAre DEF MarksOf
  <2> QED
    BY <1>1, <1>2, <2>1, <2>3, <2>5, <2>6, <2>7
<1> QED
  BY <1>1, <1>6, <1>7, <1>8, <1>9, <1>10, <1>11, <1>12, ReadMoves

(* The marks follow at every step.                                         *)
LEMMA FollowsStep ==
  ASSUME Base, AloneMarked, Follows, [ThreadsNext]_tvars
  PROVE  Follows'
<1> SUFFICES ASSUME ~mixed'
             PROVE  /\ (\A t \in Thread : ~Inserting(t)') => Marks' = trie'
                    /\ \A t \in Thread : Inserting(t)' => Ahead(t)'
                    /\ \A t \in Thread : Deleting(t)' => Checked(t)'
  BY DEF Follows
<1>1. TypeInv /\ Shape /\ Alone
  BY DEF Base
<1>2. ASSUME NEW t \in Thread, SameNodes, trie' = trie, Still(t)
      PROVE  /\ Inserting(t)' <=> call[t].op = "insert"
             /\ Deleting(t)' <=> call[t].op = "delete"
             /\ Ahead(t) => Ahead(t)'
             /\ Checked(t) => Checked(t)'
  <2>1. Marks' = Marks
    BY <1>2, StillMarks DEF SameNodes
  <2>2. PosIn(call'[t]) = PosIn(call[t])
    BY <1>2 DEF Still, PosIn
  <2>3. /\ Ahead(t) => Ahead(t)'
        /\ Checked(t) => Checked(t)'
    BY <1>2, <2>1, <2>2 DEF Still, Ahead, Checked, Passed
  <2> QED
    BY <1>2, <2>3 DEF Still, Inserting, Deleting, Active
<1>3. ASSUME NEW u \in Thread, NEW op \in Op, NEW p \in Text, NEW s \in Route,
             op = "insert" => s \in Server, Begin(u, op, p, s)
      PROVE  /\ (\A t \in Thread : ~Inserting(t)') => Marks' = trie'
             /\ \A t \in Thread : Inserting(t)' => Ahead(t)'
             /\ \A t \in Thread : Deleting(t)' => Checked(t)'
  <2>1. SameNodes /\ trie' = trie /\ Marks' = Marks
    <3>1. SameNodes /\ trie' = trie
      BY <1>3 DEF Begin, SameNodes, nodeVars, vars
    <3> QED
      BY <3>1, StillMarks DEF SameNodes
  <2>2. ~mixed
    BY <1>1, <1>3, BeginAlone
  <2>3. /\ ~Active(u) /\ Begun(u) /\ call'[u].op = op
        /\ \A t \in Thread : t # u /\ Active(t) => Still(t)
        /\ \A t \in Thread : t # u /\ ~Active(t) => call'[t] = None
    BY <1>1, <1>3, BeginIs DEF Begun, Still
  <2>4. op # "search" => \A t \in Thread : ~Writing(t)
    BY <1>1, <1>3, BeginAlone
  <2>5. \A t \in Thread : t # u =>
          /\ Inserting(t)' <=> Inserting(t)
          /\ Deleting(t)' <=> Deleting(t)
          /\ Ahead(t) /\ Inserting(t) => Ahead(t)'
          /\ Checked(t) /\ Deleting(t) => Checked(t)'
    BY <1>2, <2>1, <2>3 DEF Inserting, Deleting, Active
  <2>6. (\A t \in Thread : ~Inserting(t)') => Marks' = trie'
    <3> SUFFICES ASSUME \A t \in Thread : ~Inserting(t)' PROVE Marks = trie
      BY <2>1
    <3>1. \A t \in Thread : ~Inserting(t)
      BY <2>3, <2>5 DEF Inserting
    <3> QED
      BY <2>2, <3>1 DEF Follows
  <2>7. ASSUME op = "insert" PROVE Ahead(u)'
    <3>1. \A t \in Thread : ~Inserting(t)
      BY <2>4, <2>7 DEF Writing, Inserting
    <3>2. Marks = trie
      BY <2>2, <3>1 DEF Follows
    <3> QED
      BY <2>1, <3>2 DEF Ahead
  <2>8. ASSUME op = "delete" PROVE Checked(u)'
    <3>1. \A q \in Text : Len(q) \in Nat
      BY StepsAre
    <3>2. \A q \in Text : ~Passed(call'[u], q)
      BY <2>3, <3>1 DEF Passed, Begun
    <3> QED
      BY <2>3, <3>2 DEF Checked, Begun
  <2>9. (Inserting(u)' => op = "insert") /\ (Deleting(u)' => op = "delete")
    BY <2>3 DEF Inserting, Deleting
  <2> QED
    BY <2>2, <2>5, <2>6, <2>7, <2>8, <2>9 DEF Follows
<1>4. ASSUME NEW u \in Thread, Works(u)
      PROVE  /\ (\A t \in Thread : ~Inserting(t)') => Marks' = trie'
             /\ \A t \in Thread : Inserting(t)' => Ahead(t)'
             /\ \A t \in Thread : Deleting(t)' => Checked(t)'
  <2>1. ~mixed /\ Active(u) /\ Fit(call[u]) /\ \A t \in Thread : t # u => call'[t] = call[t]
    BY <1>1, <1>4, WorksGhosts, Moves
  <2>2. /\ (\A t \in Thread : ~Inserting(t)) => Marks = trie
        /\ \A t \in Thread : Inserting(t) => Ahead(t)
        /\ \A t \in Thread : Deleting(t) => Checked(t)
    BY <2>1 DEF Follows
  <2>3. \A t \in Thread : Writing(t) => call[t].alone
    BY <1>1, <2>1 DEF Alone
  <2>4. call'[u] # None => call'[u].op = call[u].op /\ call'[u].path = call[u].path
    BY <1>1, <1>4, Moves DEF SameCall
  <2>5. CASE call[u].op = "search"
    <3>1. SameNodes /\ trie' = trie /\ Marks' = Marks
      BY <1>1, <1>4, <2>5, SearchWorks, StillMarks DEF SameNodes
    <3>2. ~Inserting(u)' /\ ~Deleting(u)' /\ ~Inserting(u)
      BY <2>4, <2>5 DEF Inserting, Deleting, Active
    <3>3. \A t \in Thread : t # u =>
          /\ Inserting(t)' <=> Inserting(t)
          /\ Deleting(t)' <=> Deleting(t)
          /\ Ahead(t) /\ Inserting(t) => Ahead(t)'
          /\ Checked(t) /\ Deleting(t) => Checked(t)'
      <4> SUFFICES ASSUME NEW t \in Thread, t # u
                   PROVE  /\ Inserting(t)' <=> Inserting(t)
                          /\ Deleting(t)' <=> Deleting(t)
                          /\ Ahead(t) /\ Inserting(t) => Ahead(t)'
                          /\ Checked(t) /\ Deleting(t) => Checked(t)'
        OBVIOUS
      <4>1. call'[t] = call[t]
        BY <2>1
      <4>2. CASE Active(t)
        <5>1. Still(t)
          BY <4>1, <4>2 DEF Still, Active
        <5> QED
          BY <1>2, <3>1, <4>2, <5>1 DEF Inserting, Deleting
      <4>3. CASE ~Active(t)
        BY <4>1, <4>3 DEF Inserting, Deleting, Active
      <4> QED
        BY <4>2, <4>3
    <3> QED
      BY <2>2, <3>1, <3>2, <3>3
  <2>6. ASSUME Writing(u), NEW t \in Thread, t # u PROVE ~Inserting(t)' /\ ~Deleting(t)'
    <3>1. ~Writing(t)
      BY <1>1, <2>3, <2>6 DEF Alone
    <3>2. call'[t] = call[t]
      BY <2>1, <2>6
    <3> QED
      BY <3>1, <3>2 DEF Writing, Inserting, Deleting, Active
  <2>7. CASE call[u].op = "insert"
    <3>1. Inserting(u) /\ Writing(u) /\ call[u].alone /\ Ahead(u) /\ ~Deleting(u)'
      BY <2>1, <2>2, <2>3, <2>4, <2>7 DEF Inserting, Writing, Deleting, Active
    <3>2. CASE call'[u] # None
      <4>1. Inserting(u)' /\ Ahead(u)'
        BY <1>4, <2>4, <3>1, <3>2, AheadStep DEF Inserting, Active
      <4> QED
        BY <2>6, <3>1, <4>1
    <3>3. CASE call'[u] = None
      <4> DEFINE p == call[u].path
      <4>1. /\ \A q \in MarkedBy(p) : Marks'[q] = call[u].server
            /\ \A q \in Text \ MarkedBy(p) : Marks'[q] = Marks[q]
            /\ Return(u, NoServer)
        BY <1>4, <3>1, <3>3, Inserted
      <4>2. trie' = trieinsert(trie, p, call[u].server)
        BY <2>7, <4>1 DEF Return, Insert
      <4>3. \A q \in Text \ MarkedBy(p) : Marks[q] = trie[q]
        BY <3>1 DEF Ahead
      <4>4. Marks' = [q \in Text |-> Marks'[q]]
        BY MarksAre DEF MarksOf
      <4>5. Marks' = trie'
        BY <4>1, <4>2, <4>3, <4>4 DEF trieinsert
      <4> QED
        BY <2>6, <3>1, <3>3, <4>5 DEF Inserting, Active
    <3> QED
      BY <3>2, <3>3
  <2>8. CASE call[u].op = "delete"
    <3>1. Deleting(u) /\ Writing(u) /\ call[u].alone /\ Checked(u) /\ ~Inserting(u)'
      BY <2>1, <2>2, <2>3, <2>4, <2>8 DEF Inserting, Writing, Deleting, Active
    <3>2. \A t \in Thread : ~Inserting(t)
      BY <1>1, <2>8, <3>1 DEF Alone, Inserting, Writing
    <3>3. Marks = trie
      BY <2>2, <3>2
    <3>4. Marks' = trie' /\ (call'[u] # None => Checked(u)')
      BY <1>4, <3>1, <3>3, CheckedStep
    <3> QED
      BY <2>6, <3>1, <3>4 DEF Deleting, Active
  <2> QED
    BY <2>1, <2>5, <2>7, <2>8 DEF Fit, Call, Op
<1>5. ASSUME UNCHANGED tvars
      PROVE  /\ (\A t \in Thread : ~Inserting(t)') => Marks' = trie'
             /\ \A t \in Thread : Inserting(t)' => Ahead(t)'
             /\ \A t \in Thread : Deleting(t)' => Checked(t)'
  <2>1. SameNodes /\ trie' = trie /\ call' = call /\ mixed' = mixed
    BY <1>5 DEF tvars, SameNodes, nodeVars, vars, ghosts
  <2>2. Marks' = Marks
    BY <2>1, StillMarks DEF SameNodes
  <2> QED
    BY <2>1, <2>2 DEF Follows, Inserting, Deleting, Active, Ahead, Checked, Passed
<1> QED
  BY <1>3, <1>4, <1>5, StepIs

(* And at first.                                                           *)
LEMMA FollowsInit == ThreadsInit => Base /\ AloneMarked /\ Follows
<1> SUFFICES ASSUME ThreadsInit PROVE Base /\ AloneMarked /\ Follows
  OBVIOUS
<1>1. Base /\ TypeInv
  BY BaseInit DEF Base
<1>2. \A t \in Thread : ~Active(t)
  BY DEF ThreadsInit, Active
<1>3. ASSUME NEW p \in Text PROVE Marks[p] = Unmarked
  <2>1. Len(p) + 1 \in 1..Len(p) + 1
    BY StepsAre
  <2>2. Way(link, Steps(p))[Len(p) + 1]
          = Child(link, Way(link, Steps(p))[Len(p) + 1 - 1], Steps(p)[Len(p) + 1])
    BY <2>1, WaySteps
  <2>3. DOMAIN link = {}
    BY DEF ThreadsInit
  <2>4. Way(link, Steps(p))[Len(p) + 1] = 0
    BY <2>2, <2>3 DEF Child
  <2> QED
    BY <1>1, <2>4, MarksAt
<1>4. Marks = trie
  <2>1. Marks = [p \in Text |-> Marks[p]]
    BY MarksAre DEF MarksOf
  <2>2. trie = [p \in Text |-> Unmarked]
    BY DEF ThreadsInit, Init, EmptyTrie
  <2> QED
    BY <1>3, <2>1, <2>2
<1> QED
  BY <1>1, <1>2, <1>4 DEF AloneMarked, Follows, Inserting, Deleting

(* While no two insertions or deletions overlap, the nodes are what the    *)
(* operators of PathTrie make of the calls, whenever none is under way     *)
(* (nm_helper.c:388-476).                                                  *)
THEOREM NodesFollowCalls == ThreadsSpec => []NodesFollow
<1> DEFINE Inv == Base /\ AloneMarked /\ Follows
<1>1. ThreadsInit => Inv
  BY FollowsInit
<1>2. Inv /\ [ThreadsNext]_tvars => Inv'
  BY BaseStep, AloneMarkedStep, FollowsStep
<1>3. Inv => NodesFollow
  BY DEF Follows, NodesFollow, Inserting, Writing, Active
<1> QED
  BY <1>1, <1>2, <1>3, PTL DEF ThreadsSpec

-----------------------------------------------------------------------------
(* What is due.  The way to a path that must be found stands, marked       *)
(* throughout, and no call is about to take any of it away.                *)
Owed(p) ==
  /\ \A k \in 1..Len(p) + 1 : Way(link, Steps(p))[k] # 0
  /\ \A q \in Text : IsPrefix(q, p) => Marks[q] \in Server
  /\ \A t \in Thread : Inserting(t) => p \notin MarkedBy(call[t].path)
  /\ \A t \in Thread : Deleting(t) => ~IsPrefix(call[t].path, p)
  /\ \A t \in Thread : Active(t) /\ call[t].stage = "link" =>
       \A k \in 1..Len(p) + 1 : ~(Way(link, Steps(p))[k - 1] = call[t].at /\ Steps(p)[k] = Step(t))

Dues == \A p \in Text : due[p] # NoServer => Marks[p] = due[p] /\ Owed(p)

(* The directories of a prefix, and every proper prefix under PrefixFree,  *)
(* are directories of the path.                                            *)
LEMMA PrefixMarked ==
  ASSUME PrefixFree, NEW p \in Text, NEW q \in Text, IsPrefix(q, p), NEW r \in Text, p \in MarkedBy(r)
  PROVE  q \in MarkedBy(r)
<1>1. IsPrefix(p, r)
  BY PrefixOrder DEF MarkedBy, DirsOf
<1>2. IsPrefix(q, r)
  BY <1>1, PrefixOrder
<1> QED
  BY <1>2 DEF MarkedBy, DirsOf, PrefixFree

(* The steps of the calls leave such a way as it is, and marked.           *)
LEMMA OwedStands ==
  ASSUME PrefixFree, Base, NEW p \in Text, Owed(p), [ThreadsNext]_tvars
  PROVE  /\ \A k \in 0..Len(p) + 1 : Way(link', Steps(p))[k] = Way(link, Steps(p))[k]
         /\ Marks'[p] = Marks[p]
         /\ \A q \in Text : IsPrefix(q, p) => Marks'[q] \in Server
<1>1. TypeInv /\ Shape
  BY DEF Base
<1>2. CASE node' = node /\ link' = link
  <2>1. Marks' = Marks
    BY <1>2, StillMarks
  <2> QED
    BY <1>2, <2>1 DEF Owed
<1>3. ASSUME NEW u \in Thread, MakeNode(u)
      PROVE  /\ \A k \in 0..Len(p) + 1 : Way(link', Steps(p))[k] = Way(link, Steps(p))[k]
             /\ Marks'[p] = Marks[p]
             /\ \A q \in Text : IsPrefix(q, p) => Marks'[q] \in Server
  <2>1. Active(u) /\ call[u].stage = "link"
    BY <1>3 DEF MakeNode
  <2>2. \A k \in 1..Len(p) + 1 : ~(Way(link, Steps(p))[k - 1] = call[u].at /\ Steps(p)[k] = Step(u))
    BY <2>1 DEF Owed
  <2>3. /\ Marks'[p] = Marks[p]
        /\ \A k \in 0..Len(p) + 1 : Way(link', Steps(p))[k] = Way(link, Steps(p))[k]
    BY <1>1, <1>3, <2>2, MakeMarks
  <2>4. ASSUME NEW q \in Text, IsPrefix(q, p) PROVE Marks'[q] = Marks[q]
    <3> DEFINE K == Len(q) + 1
    <3>1. /\ K \in Nat /\ K <= Len(q) + 1 /\ K <= Len(p) + 1
          /\ \A j \in 1..K : Steps(q)[j] = Steps(p)[j]
      BY <2>4, StepsAre, PrefixIs
    <3>2. \A k \in 0..K : Way(link, Steps(q))[k] = Way(link, Steps(p))[k]
      <4> HIDE DEF K
      <4> QED
        BY <3>1, WayShared
    <3>3. \A k \in 1..Len(q) + 1 : k \in 1..K /\ k - 1 \in 0..K /\ k \in 1..Len(p) + 1
      <4>1. Len(p) \in Nat /\ Len(q) \in Nat
        BY StepsAre
      <4> QED
        BY <3>1, <4>1
    <3> HIDE DEF K
    <3>4. \A k \in 1..Len(q) + 1 :
            ~(Way(link, Steps(q))[k - 1] = call[u].at /\ Steps(q)[k] = Step(u))
      BY <2>2, <3>1, <3>2, <3>3
    <3> QED
      BY <1>1, <1>3, <3>4, MakeMarks
  <2> QED
    BY <2>3, <2>4 DEF Owed
<1>4. ASSUME NEW u \in Thread, WriteOwner(u) \/ WriteEnd(u) \/ Erase(u)
      PROVE  /\ \A k \in 0..Len(p) + 1 : Way(link', Steps(p))[k] = Way(link, Steps(p))[k]
             /\ Marks'[p] = Marks[p]
             /\ \A q \in Text : IsPrefix(q, p) => Marks'[q] \in Server
  <2> DEFINE c == call[u]
             w == Written(c)
  <2>1. Active(u) /\ Fit(c) /\ c.path \in Text
    BY <1>1, <1>4, Moves DEF Works, Fit, Call
  <2>2. link' = link /\ c.stage \in {"owner", "end", "erase"}
    BY <1>1, <1>4, WritesNode
  <2>3. /\ w \in Text /\ w \in MarkedBy(c.path)
        /\ c.stage = "erase" => w = c.path /\ c.op = "delete"
        /\ c.stage # "erase" => c.op = "insert" /\ c.server \in Server
    BY <2>1, <2>2, WrittenIs DEF Fit
  <2>4. w # p
    <3>1. CASE c.stage = "erase"
      BY <2>1, <2>3, <3>1, PrefixOrder DEF Owed, Deleting
    <3>2. CASE c.stage # "erase"
      BY <2>1, <2>3, <3>2 DEF Owed, Inserting
    <3> QED
      BY <3>1, <3>2
  <2>5. /\ \A q \in Text : q # w => Marks'[q] = Marks[q]
        /\ ~Placed(u) => Marks' = Marks
        /\ Placed(u) =>
             /\ Marks[w] = IF node[c.at].end THEN node[c.at].server ELSE Unmarked
             /\ Marks'[w] = IF node'[c.at].end THEN node'[c.at].server ELSE Unmarked
    BY <1>1, <1>4, WriteMarks
  <2> HIDE DEF w
  <2>6. ASSUME IsPrefix(w, p) PROVE Marks'[w] \in Server
    <3>1. Marks[w] \in Server
      BY <2>3, <2>6 DEF Owed
    <3>2. ~Erase(u)
      BY <2>1, <2>3, <2>6 DEF Erase, Owed, Deleting
    <3>3. CASE ~Placed(u)
      BY <2>5, <3>1, <3>3
    <3>4. CASE Placed(u) /\ WriteOwner(u)
      <4>1. node'[c.at].server = c.server /\ node'[c.at].end = node[c.at].end
        BY <1>1, <3>4, WritesNode
      <4>2. c.server \in Server
        BY <2>3, <3>4 DEF WriteOwner
      <4>3. node[c.at].end
        BY <2>5, <3>1, <3>4, MarkAssumption
      <4>4. Marks'[w] = c.server
        BY <2>5, <3>4, <4>1, <4>3, Zenon
      <4> QED
        BY <4>2, <4>4
    <3>5. CASE Placed(u) /\ WriteEnd(u)
      <4>1. node'[c.at].server = node[c.at].server /\ node'[c.at].end = TRUE
        BY <1>1, <3>5, WritesNode
      <4>2. node[c.at].end
        BY <2>5, <3>1, <3>5, MarkAssumption
      <4>3. Marks[w] = node[c.at].server /\ Marks'[w] = node[c.at].server
        BY <2>5, <3>5, <4>1, <4>2
      <4> QED
        BY <3>1, <4>3
    <3> QED
      BY <1>4, <3>2, <3>3, <3>4, <3>5
  <2> QED
    BY <2>2, <2>4, <2>5, <2>6 DEF Owed
<1> QED
  BY <1>1, <1>2, <1>3, <1>4, StepNodes

(* It stays so while the path is due.                                      *)
LEMMA OwedStep ==
  ASSUME PrefixFree, Base, NEW p \in Text, Owed(p), [ThreadsNext]_tvars, due'[p] # NoServer
  PROVE  Owed(p)'
<1>1. TypeInv
  BY DEF Base
<1>2. /\ \A k \in 0..Len(p) + 1 : Way(link', Steps(p))[k] = Way(link, Steps(p))[k]
      /\ \A q \in Text : IsPrefix(q, p) => Marks'[q] \in Server
  BY OwedStands
<1>3. Len(p) \in Nat /\ \A k \in 1..Len(p) + 1 : k \in 0..Len(p) + 1 /\ k - 1 \in 0..Len(p) + 1
  BY StepsAre
<1>4. ASSUME NEW t \in Thread, call'[t] # None, Active(t)
      PROVE  /\ call'[t].op = call[t].op /\ call'[t].path = call[t].path
             /\ call'[t].stage = "link" => call'[t].at = call[t].at /\ Step(t)' = Step(t)
             /\ call'[t].stage = "link" /\ call[t].stage # "link" => ~Linked(t)
  <2>1. CASE Works(t)
    BY <1>1, <1>4, <2>1, LinkStage, Moves DEF SameCall
  <2>2. CASE Still(t)
    BY <2>2 DEF Still, Step
  <2> QED
    BY <1>1, <1>4, <2>1, <2>2, StepOf
<1>5. ASSUME NEW t \in Thread, call'[t] # None, ~Active(t)
      PROVE  /\ call'[t].stage # "link"
             /\ call'[t].op = "insert" => p \notin MarkedBy(call'[t].path)
             /\ call'[t].op = "delete" => ~IsPrefix(call'[t].path, p)
  <2>1. PICK op \in Op, r \in Text, s \in Route : (op = "insert" => s \in Server) /\ Begin(t, op, r, s)
    <3>1. ~UNCHANGED tvars
      BY <1>5 DEF tvars, Active
    <3>2. ASSUME NEW u \in Thread, Works(u) PROVE FALSE
      BY <1>1, <1>5, <3>2, Moves DEF Active
    <3>3. ASSUME NEW u \in Thread, NEW op \in Op, NEW r \in Text, NEW s \in Route,
                 op = "insert" => s \in Server, Begin(u, op, r, s)
          PROVE  u = t
      BY <1>1, <1>5, <3>3, BeginIs DEF Active
    <3> QED
      BY <3>1, <3>2, <3>3, StepIs
  <2>2. call'[t].op = op /\ call'[t].path = r /\ call'[t].stage = "walk"
    BY <1>1, <2>1, BeginIs
  <2>3. ~(op = "insert" /\ p \in MarkedBy(r)) /\ ~(op = "delete" /\ IsPrefix(r, p))
    BY <2>1 DEF Begin
  <2> QED
    BY <2>2, <2>3
<1>6. ASSUME NEW t \in Thread, call'[t] # None, call'[t].stage = "link", NEW k \in 1..Len(p) + 1,
             Way(link, Steps(p))[k - 1] = call'[t].at, Steps(p)[k] = Step(t)'
      PROVE  FALSE
  <2>1. /\ Active(t) /\ call'[t].at = call[t].at /\ Step(t)' = Step(t)
        /\ call[t].stage # "link" => ~Linked(t)
    BY <1>4, <1>5, <1>6
  <2>2. call[t].stage # "link"
    BY <1>6, <2>1 DEF Owed
  <2>3. Way(link, Steps(p))[k] = Child(link, Way(link, Steps(p))[k - 1], Steps(p)[k])
    BY WaySteps
  <2>4. Way(link, Steps(p))[k] = 0
    BY <1>6, <2>1, <2>2, <2>3 DEF Child, Linked
  <2> QED
    BY <2>4 DEF Owed
<1>7. \A t \in Thread : Inserting(t)' => p \notin MarkedBy(call'[t].path)
  BY <1>4, <1>5 DEF Owed, Inserting, Active
<1>8. \A t \in Thread : Deleting(t)' => ~IsPrefix(call'[t].path, p)
  BY <1>4, <1>5 DEF Owed, Deleting, Active
<1>9. \A k \in 1..Len(p) + 1 : Way(link', Steps(p))[k] # 0
  BY <1>2, <1>3 DEF Owed
<1>10. \A t \in Thread : Active(t)' /\ call'[t].stage = "link" =>
         \A k \in 1..Len(p) + 1 : ~(Way(link', Steps(p))[k - 1] = call'[t].at /\ Steps(p)[k] = Step(t)')
  BY <1>2, <1>3, <1>6 DEF Active
<1> QED
  BY <1>2, <1>7, <1>8, <1>9, <1>10 DEF Owed

(* A path becomes due when an insertion of it returns that was alone.      *)
LEMMA OwedFirst ==
  ASSUME PrefixFree, Base, Base', AloneMarked, [ThreadsNext]_tvars,
         NEW t \in Thread, Inserting(t), call[t].alone, Works(t), call'[t] = None,
         NEW p \in Text, p \in MarkedBy(call[t].path)
  PROVE  Marks'[p] = call[t].server /\ Owed(p)'
<1>1. /\ TypeInv /\ TypeInv' /\ Alone /\ Fit(call[t]) /\ Writing(t) /\ call[t].server \in Server
  BY DEF Base, TypeInv, CallsFit, Inserting, Writing, Fit
<1>2. \A q \in MarkedBy(call[t].path) : Marks'[q] = call[t].server
  BY Inserted
<1>3. call[t].path \in Text
  BY <1>1 DEF Fit, Call
<1>4. \A q \in Text : IsPrefix(q, p) => Marks'[q] \in Server
  BY <1>1, <1>2, <1>3, PrefixMarked
<1>5. Marks'[p] = call[t].server
  BY <1>2
<1>6. ASSUME NEW k \in 1..Len(p) + 1, Way(link', Steps(p))[k] = 0 PROVE FALSE
  <2>1. LinksTo(link', Len(node')) /\ Len(node') \in Nat
    BY <1>1 DEF TypeInv, ThreadsTypeOK
  <2>2. \A j \in k..Len(p) + 1 : Way(link', Steps(p))[j] = 0
    BY <1>6, <2>1, WayEnded
  <2>3. Len(p) + 1 \in k..Len(p) + 1
    BY StepsAre
  <2>4. Way(link', Steps(p))[Len(p) + 1] = 0
    BY <2>2, <2>3
  <2>5. Marks'[p] = Unmarked
    BY <2>4, MarksAre DEF MarksOf
  <2> QED
    BY <1>1, <1>5, <2>5, MarkAssumption
<1>7. ASSUME NEW u \in Thread, Active(u)' PROVE call'[u].op = "search" /\ call'[u].stage # "link"
  <2>1. u # t /\ call'[u] = call[u] /\ Active(u) /\ Fit(call[u])
    BY <1>1, <1>7, Moves DEF Active, TypeInv, CallsFit
  <2>2. ~Writing(u)
    BY <1>1, <2>1 DEF Alone
  <2> QED
    BY <2>1, <2>2 DEF Writing, Fit
<1> QED
  BY <1>4, <1>5, <1>6, <1>7 DEF Owed, Inserting, Deleting

(* What is due is owed after every step.                                   *)
LEMMA DuesStep ==
  ASSUME PrefixFree, Base, Base', AloneMarked, Dues, [ThreadsNext]_tvars
  PROVE  Dues'
<1> SUFFICES ASSUME NEW p \in Text, due'[p] # NoServer PROVE Marks'[p] = due'[p] /\ Owed(p)'
  BY DEF Dues
<1>1. TypeInv
  BY DEF Base
<1>2. ASSUME due'[p] = due[p] PROVE Marks'[p] = due'[p] /\ Owed(p)'
  <2>1. Marks[p] = due[p] /\ Owed(p)
    BY <1>2 DEF Dues
  <2> QED
    BY <1>2, <2>1, OwedStands, OwedStep
<1>3. ASSUME NEW u \in Thread, NEW op \in Op, NEW r \in Text, NEW s \in Route, Begin(u, op, r, s)
      PROVE  due'[p] = due[p]
  BY <1>3 DEF Begin
<1>4. ASSUME NEW u \in Thread, NEW r, Return(u, r)
      PROVE  due'[p] = IF call[u].op = "insert" /\ call[u].alone /\ p \in MarkedBy(call[u].path)
                       THEN call[u].server ELSE due[p]
  BY <1>4 DEF Return
<1>5. ASSUME NEW u \in Thread, Works(u) PROVE Marks'[p] = due'[p] /\ Owed(p)'
  <2>1. Active(u) /\ Fit(call[u])
    BY <1>1, <1>5, Moves
  <2>2. due' = due \/ \E r : Return(u, r)
    BY <1>1, <1>5, InsertMoves, ReadMoves, MakesNode DEF Stays
  <2>3. CASE due' = due
    BY <1>2, <2>3
  <2>4. ASSUME NEW r, Return(u, r) PROVE Marks'[p] = due'[p] /\ Owed(p)'
    <3>1. CASE call[u].op = "insert" /\ call[u].alone /\ p \in MarkedBy(call[u].path)
      <4>1. Inserting(u) /\ call'[u] = None
        BY <1>1, <2>1, <2>4, <3>1 DEF Inserting, Return, TypeInv, ThreadsTypeOK
      <4>2. Marks'[p] = call[u].server /\ Owed(p)'
        BY <1>5, <3>1, <4>1, OwedFirst
      <4> QED
        BY <1>4, <2>4, <3>1, <4>2
    <3>2. CASE ~(call[u].op = "insert" /\ call[u].alone /\ p \in MarkedBy(call[u].path))
      BY <1>2, <1>4, <2>4, <3>2
    <3> QED
      BY <3>1, <3>2
  <2> QED
    BY <2>2, <2>3, <2>4
<1>6. UNCHANGED tvars => due'[p] = due[p]
  BY DEF tvars, ghosts
<1> QED
  BY <1>2, <1>3, <1>5, <1>6, StepIs

(* A path whose insertion overlapped no other writing call is found until  *)
(* it, or a directory it lies in, is deleted or inserted again, however    *)
(* many threads make, mark and erase nodes beside it (nm_helper.c:388-476).*)
(* Without PrefixFree the deletion of "/x" hides "/xy".                    *)
THEOREM UndisturbedAreFound == PrefixFree => (ThreadsSpec => []UndisturbedFound)
<1> SUFFICES ASSUME PrefixFree PROVE ThreadsSpec => []UndisturbedFound
  OBVIOUS
<1> DEFINE Inv == Base /\ AloneMarked /\ Dues
<1>1. ThreadsInit => Inv
  <2> SUFFICES ASSUME ThreadsInit PROVE Dues
    BY FollowsInit
  <2> QED
    BY DEF Dues, ThreadsInit
<1>2. Inv /\ [ThreadsNext]_tvars => Inv'
  BY BaseStep, AloneMarkedStep, DuesStep
<1>3. Inv => UndisturbedFound
  <2> SUFFICES ASSUME Inv, NEW p \in Text, due[p] # NoServer
               PROVE  search_trie(Marks, p) = due[p]
    BY DEF UndisturbedFound
  <2>1. Marks[p] = due[p] /\ \A q \in Text : IsPrefix(q, p) => Marks[q] \in Server
    BY DEF Dues, Owed
  <2>2. Marks \in [Text -> Mark]
    BY MarksAt DEF Base
  <2>3. Marks[p] \in Server
    BY <2>1, PrefixOrder
  <2>4. search_trie(Marks, p) = Marks[p]
    BY <2>1, <2>2, <2>3, SearchOf, MarkAssumption
  <2> QED
    BY <2>1, <2>4
<1> QED
  BY <1>1, <1>2, <1>3, PTL DEF ThreadsSpec

-----------------------------------------------------------------------------
(* The searches.  What one would find now is among what was watched.       *)
Watched == \A t \in Thread : Searching(t) => search_trie(Marks, call[t].path) \in moments[t]

(* Watch adds what would be found now, and forgets nothing of a search     *)
(* under way.                                                              *)
LEMMA Watching ==
  ASSUME NEW t \in Thread, Watch, call'[t] # None, call'[t].op = "search"
  PROVE  /\ search_trie(Marks', call'[t].path) \in moments'[t]
         /\ Active(t) => moments[t] \subseteq moments'[t]
<1>1. moments'[t] = (IF Active(t) THEN moments[t] ELSE {}) \union {search_trie(Marks', call'[t].path)}
  BY DEF Watch
<1> QED
  BY <1>1

(* Every step watches.                                                     *)
LEMMA WatchesStep ==
  ASSUME [ThreadsNext]_tvars
  PROVE  Watch \/ UNCHANGED tvars
  BY StepIs, WorksGhosts DEF Begin

(* What would be found now is watched after every step.                    *)
LEMMA WatchedStep ==
  ASSUME Watched, [ThreadsNext]_tvars
  PROVE  Watched'
<1>1. CASE Watch
  BY <1>1, Watching DEF Watched, Searching, Active
<1>2. CASE UNCHANGED tvars
  <2>1. call' = call /\ moments' = moments /\ node' = node /\ link' = link
    BY <1>2 DEF tvars, nodeVars, ghosts
  <2>2. Marks' = Marks
    BY <2>1, StillMarks
  <2> QED
    BY <2>1, <2>2 DEF Watched, Searching, Active
<1> QED
  BY <1>1, <1>2, WatchesStep

(* Unless a deletion overlaps it, an insertion about to mark a directory   *)
(* finds there the server of some insertion, its own or another's.         *)
Owner(t) == call[t].stage = "end" /\ Step(t) = Slash => node[call[t].at].server \in Server

Owned == ~torn => \A t \in Thread : Inserting(t) => Owner(t)

(* It is kept by every step: no deletion erases the server in between.     *)
LEMMA OwnedStep ==
  ASSUME Base, Base', Owned, [ThreadsNext]_tvars
  PROVE  Owned'
<1> SUFFICES ASSUME ~torn', NEW t \in Thread, Inserting(t)', call'[t].stage = "end", Step(t)' = Slash
             PROVE  node'[call'[t].at].server \in Server
  BY DEF Owned, Owner
<1>1. TypeInv /\ TypeInv' /\ Alone /\ Alone' /\ call'[t] # None
  BY DEF Base, Inserting, Active
<1>2. ~torn
  <2>1. torn => torn'
    <3>1. UNCHANGED tvars => torn' = torn
      BY DEF tvars, ghosts
    <3> QED
      BY <1>1, <3>1, StepIs, BeginAlone, WorksGhosts
  <2> QED
    BY <2>1
<1>3. Active(t) /\ call'[t].path = call[t].path /\ call'[t].op = call[t].op
  BY <1>1, StepOf, Moves DEF Begun, Still, SameCall
<1>4. Inserting(t) /\ Fit(call[t]) /\ call[t].server \in Server
  BY <1>1, <1>3 DEF Inserting, TypeInv, CallsFit, Fit
<1>5. CASE Works(t)
  <2>1. ~MakeNode(t)
    BY <1>1, <1>5, MakesNode
  <2>2. ~Walk(t)
    <3>1. ASSUME Walk(t) PROVE ~MakeNode(t) /\ ~WriteOwner(t) /\ ~WriteEnd(t)
      BY <3>1 DEF Walk, MakeNode, WriteOwner, WriteEnd
    <3> QED
      BY <1>1, <1>4, <1>5, <3>1, InsertMoves DEF Inserting
  <2>3. ASSUME Return(t, NoServer) PROVE FALSE
    BY <1>1, <2>3 DEF Return, TypeInv, ThreadsTypeOK
  <2>4. ~WriteEnd(t)
    <3>1. ASSUME WriteEnd(t) PROVE ~WriteOwner(t)
      BY <3>1 DEF WriteOwner, WriteEnd
    <3> QED
      BY <1>1, <1>4, <1>5, <2>1, <2>2, <2>3, <3>1, InsertMoves DEF Inserting
  <2>5. WriteOwner(t) /\ call'[t].at = call[t].at
    BY <1>1, <1>4, <1>5, <2>1, <2>2, <2>3, <2>4, InsertMoves DEF Inserting
  <2>6. node'[call[t].at].server = call[t].server
    BY <1>1, <2>5, WritesNode
  <2> QED
    BY <1>4, <2>5, <2>6
<1>6. CASE Still(t) /\ ~Works(t)
  <2>1. call[t].stage = "end" /\ Step(t) = Slash /\ call'[t].at = call[t].at
    BY <1>6 DEF Still, Step
  <2>2. node[call[t].at].server \in Server
    BY <1>2, <1>4, <2>1 DEF Owned, Owner
  <2>3. call[t].at \in 1..Len(node)
    <3>1. call[t].at \in 0..Len(node) /\ Len(node) \in Nat
      BY <1>1, <1>3 DEF TypeInv, ThreadsTypeOK, Active
    <3>2. PosIn(call[t]) = call[t].i /\ call[t].i # 0 /\ call[t].at # 0
      BY <1>4, <2>1 DEF Fit, PosIn
    <3> QED
      BY <3>1, <3>2
  <2>4. CASE node' = node
    BY <2>1, <2>2, <2>4
  <2>5. ASSUME NEW u \in Thread, MakeNode(u) PROVE node'[call[t].at].server \in Server
    <3>1. node'[call[t].at] = node[call[t].at]
      BY <1>1, <2>3, <2>5, MakesNode
    <3> QED
      BY <2>2, <3>1
  <2>6. ASSUME NEW u \in Thread, WriteOwner(u) \/ WriteEnd(u) \/ Erase(u)
        PROVE  node'[call[t].at].server \in Server
    <3>1. Active(u) /\ Fit(call[u])
      BY <1>1, <2>6, Moves DEF Works
    <3>2. call[u].op # "delete"
      BY <1>1, <1>2, <1>4, <3>1 DEF Alone, Inserting
    <3>3. ~Erase(u)
      BY <3>1, <3>2 DEF Erase, Fit, Call, Op
    <3>4. CASE call[u].at # call[t].at
      <4>1. node'[call[t].at] = node[call[t].at]
        BY <1>1, <2>3, <2>6, <3>4, WritesNode
      <4> QED
        BY <2>2, <4>1
    <3>5. CASE call[u].at = call[t].at /\ WriteOwner(u)
      <4>1. call[u].server \in Server
        BY <3>1, <3>2, <3>5 DEF WriteOwner, Fit, Call, Op
      <4>2. node'[call[u].at].server = call[u].server
        BY <1>1, <3>5, WritesNode
      <4> QED
        BY <3>5, <4>1, <4>2
    <3>6. CASE call[u].at = call[t].at /\ WriteEnd(u)
      <4>1. node'[call[u].at].server = node[call[u].at].server
        BY <1>1, <3>6, WritesNode
      <4> QED
        BY <2>2, <3>6, <4>1
    <3> QED
      BY <2>6, <3>3, <3>4, <3>5, <3>6
  <2> QED
    BY <1>1, <2>1, <2>4, <2>5, <2>6, StepNodes
<1> QED
  BY <1>1, <1>3, <1>5, <1>6, StepOf

(* What a step may do to the marks while no node is lost and no deletion   *)
(* overlaps an insertion: one mark is erased, or is written by an          *)
(* insertion, which marks a file or a directory it gives a server.         *)
LEMMA MarksStep ==
  ASSUME Base, Owned, NoNodeLost', ~torn, [ThreadsNext]_tvars
  PROVE  \/ Marks' = Marks
         \/ \E u \in Thread, w \in Text :
              /\ \A q \in Text : q # w => Marks'[q] = Marks[q]
              /\ \/ Marks'[w] = NoServer /\ (Deleting(u) \/ ~IsDirText(w))
                 \/ /\ Marks'[w] \in Server /\ Inserting(u)
                    /\ call[u].stage \in {"owner", "end"} /\ w = Written(call[u])
<1>1. TypeInv /\ Shape /\ Places /\ NoNodeLost /\ \A u \in Thread : MakeNode(u) => ~Linked(u)
  BY LostForGood DEF Base
<1>2. CASE node' = node /\ link' = link
  BY <1>2, StillMarks
<1>3. ASSUME NEW u \in Thread, MakeNode(u) PROVE Marks' = Marks
  BY <1>1, <1>3, MakeMarks
<1>4. ASSUME NEW u \in Thread, WriteOwner(u) \/ WriteEnd(u) \/ Erase(u), Marks' # Marks
      PROVE  /\ \A q \in Text : q # Written(call[u]) => Marks'[q] = Marks[q]
             /\ Written(call[u]) \in Text
             /\ \/ /\ Marks'[Written(call[u])] = NoServer
                   /\ Deleting(u) \/ ~IsDirText(Written(call[u]))
                \/ /\ Marks'[Written(call[u])] \in Server /\ Inserting(u)
                   /\ call[u].stage \in {"owner", "end"}
  <2> DEFINE c == call[u]
             w == Written(call[u])
  <2>1. Active(u) /\ Fit(c) /\ Placed(u)
    BY <1>1, <1>4, Moves DEF Works, Places
  <2>2. /\ c.stage \in {"owner", "end", "erase"} /\ c.at \in 1..Len(node)
    BY <1>1, <1>4, WritesNode
  <2>3. /\ w \in Text /\ (c.stage = "erase" => c.op = "delete")
        /\ c.stage # "erase" => c.op = "insert" /\ c.server \in Server
        /\ c.stage # "erase" /\ Step(u) # Slash => ~IsDirText(w)
    BY <2>1, <2>2, WrittenIs DEF Fit, Step
  <2>4. /\ \A q \in Text : q # w => Marks'[q] = Marks[q]
        /\ Marks[w] = IF node[c.at].end THEN node[c.at].server ELSE Unmarked
        /\ Marks'[w] = IF node'[c.at].end THEN node'[c.at].server ELSE Unmarked
    BY <1>1, <1>4, <2>1, WriteMarks
  <2> HIDE DEF w
  <2>5. Marks'[w] # Marks[w]
    <3>1. Marks = [q \in Text |-> Marks[q]] /\ Marks' = [q \in Text |-> Marks'[q]]
      BY MarksAre DEF MarksOf
    <3> QED
      BY <1>4, <2>4, <3>1
  <2>6. CASE Erase(u)
    <3>1. node'[c.at].server = NoServer /\ node'[c.at].end = node[c.at].end
      BY <1>1, <2>6, WritesNode
    <3>2. node[c.at].end
      BY <2>4, <2>5, <3>1, Zenon
    <3>3. Marks'[w] = NoServer
      BY <2>4, <3>1, <3>2, Zenon
    <3>4. Deleting(u)
      BY <2>1, <2>3, <2>6 DEF Erase, Deleting
    <3> QED
      BY <2>3, <2>4, <3>3, <3>4 DEF w
  <2>7. CASE WriteOwner(u)
    <3>1. node'[c.at].server = c.server /\ node'[c.at].end = node[c.at].end
      BY <1>1, <2>7, WritesNode
    <3>2. node[c.at].end
      BY <2>4, <2>5, <3>1, Zenon
    <3>3. Marks'[w] = c.server
      BY <2>4, <3>1, <3>2, Zenon
    <3>4. Inserting(u) /\ c.server \in Server /\ c.stage \in {"owner", "end"}
      BY <2>1, <2>3, <2>7 DEF WriteOwner, Inserting
    <3> QED
      BY <2>3, <2>4, <3>3, <3>4 DEF w
  <2>8. CASE WriteEnd(u)
    <3>1. node'[c.at].server = node[c.at].server /\ node'[c.at].end = TRUE
      BY <1>1, <2>8, WritesNode
    <3>2. Marks'[w] = node[c.at].server
      BY <2>4, <3>1
    <3>3. Inserting(u) /\ c.stage = "end"
      BY <2>1, <2>3, <2>8 DEF WriteEnd, Inserting
    <3>4. Step(u) = Slash => Marks'[w] \in Server
      BY <3>2, <3>3 DEF Owned, Owner
    <3>5. Step(u) # Slash => ~IsDirText(w)
      BY <2>3, <3>3
    <3>6. node[c.at].server \in Route
      <4>1. node \in Seq(NodeRecord)
        BY <1>1 DEF TypeInv, ThreadsTypeOK, NodeRecord
      <4>2. node[c.at] \in NodeRecord
        BY <2>2, <4>1
      <4> QED
        BY <4>2 DEF NodeRecord
    <3> QED
      BY <2>3, <2>4, <3>2, <3>3, <3>4, <3>5, <3>6 DEF w, Route
  <2> QED
    BY <1>4, <2>6, <2>7, <2>8
<1> QED
  BY <1>1, <1>2, <1>3, <1>4, StepNodes

(* An insertion has left no directory behind it deleted.                   *)
Opened(t) == \A q \in DirsOf(call[t].path) : Passed(call[t], q) => Marks[q] # NoServer

(* A search that has passed a node, which was deleted since, cannot find   *)
(* its path unless it could have found it at some moment, or will not get  *)
(* there.                                                                  *)
Seen(t) ==
  LET p == call[t].path
      blocked == BlockedBy(Marks, p)
  IN Marks[p] \in Server /\ (\E q \in blocked : Passed(call[t], q))
       => Marks[p] \in moments[t] \/ \E q \in blocked : ~Passed(call[t], q)

Agreeing == NoNodeLost /\ ~torn =>
  /\ ~astray
  /\ \A t \in Thread : Inserting(t) => Opened(t)
  /\ \A t \in Thread : Searching(t) => Seen(t)

(* It is kept by every step: another insertion marks a directory with a    *)
(* server, too.                                                            *)
LEMMA OpenedStep ==
  ASSUME Base, Owned, NoNodeLost', ~torn, [ThreadsNext]_tvars,
         NEW t \in Thread, Inserting(t) => Opened(t), Inserting(t)'
  PROVE  Opened(t)'
<1>1. TypeInv /\ Shape /\ Alone /\ Places /\ NoNodeLost /\ \A u \in Thread : MakeNode(u) => ~Linked(u)
  BY LostForGood DEF Base
<1>2. call'[t] # None /\ call'[t].op = "insert"
  BY DEF Inserting, Active
<1>3. CASE ~Active(t)
  <2>1. call'[t].i = 1
    BY <1>1, <1>2, <1>3, StepOf, Moves DEF Begun
  <2>2. \A q \in DirsOf(call'[t].path) : Len(q) \in Nat
    BY StepsAre DEF DirsOf
  <2> QED
    BY <2>1, <2>2 DEF Opened, Passed
<1>4. CASE Active(t)
  <2>1. call'[t].path = call[t].path /\ call'[t].op = call[t].op
    BY <1>1, <1>2, <1>4, StepOf, Moves DEF Still, SameCall
  <2>2. Inserting(t) /\ Opened(t) /\ Fit(call[t]) /\ call[t].path \in Text /\ call[t].i \in Nat
    BY <1>1, <1>2, <1>4, <2>1 DEF Inserting, TypeInv, CallsFit, Fit, Call
  <2>3. \A q \in DirsOf(call[t].path) :
          q \in Text /\ IsDirText(q) /\ Len(q) \in Nat /\ q \in MarkedBy(call[t].path)
    BY StepsAre DEF DirsOf, MarkedBy
  <2>4. ASSUME NEW q \in DirsOf(call[t].path), Marks[q] # NoServer PROVE Marks'[q] # NoServer
    <3>1. \A u \in Thread : ~Deleting(u)
      BY <1>1, <2>2 DEF Alone, Inserting, Deleting
    <3>2. CASE Marks' = Marks
      BY <2>4, <3>2
    <3>3. ASSUME NEW u \in Thread, NEW w \in Text,
                 \A r \in Text : r # w => Marks'[r] = Marks[r],
                 \/ Marks'[w] = NoServer /\ (Deleting(u) \/ ~IsDirText(w))
                 \/ Marks'[w] \in Server
          PROVE  Marks'[q] # NoServer
      BY <2>3, <2>4, <3>1, <3>3, MarkAssumption
    <3> QED
      BY <3>2, <3>3, MarksStep
  <2>5. CASE call'[t].i = call[t].i
    BY <2>1, <2>2, <2>4, <2>5 DEF Opened, Passed
  <2>6. CASE call'[t].i # call[t].i
    <3>1. Works(t)
      BY <1>1, <1>4, <2>6, StepOf DEF Still
    <3>2. ~Return(t, NoServer)
      BY <1>1, <1>2 DEF Return, TypeInv, ThreadsTypeOK
    <3>3. /\ call'[t].i = call[t].i + 1
          /\ \/ \A q \in MarkedBy(call[t].path) : Len(q) + 1 # call[t].i
             \/ WriteEnd(t) /\ Step(t) = Slash
      BY <1>1, <2>2, <2>6, <3>1, <3>2, InsertMoves, MakesNode DEF Inserting
    <3>4. ASSUME NEW q \in DirsOf(call[t].path), Len(q) + 1 = call[t].i PROVE Marks'[q] # NoServer
      <4>1. WriteEnd(t) /\ Step(t) = Slash /\ call[t].stage = "end"
        BY <2>3, <3>3, <3>4 DEF WriteEnd
      <4>2. q = Written(call[t])
        BY <2>2, <2>3, <3>4, <4>1, WritesAhead
      <4>3. node[call[t].at].server \in Server
        BY <2>2, <4>1 DEF Owned, Owner
      <4>4. Placed(t)
        BY <1>1, <1>4 DEF Places
      <4>5. Marks'[q] = IF node'[call[t].at].end THEN node'[call[t].at].server ELSE Unmarked
        BY <1>1, <4>1, <4>2, <4>4, WriteMarks
      <4>6. node'[call[t].at].server = node[call[t].at].server /\ node'[call[t].at].end = TRUE
        BY <1>1, <4>1, WritesNode
      <4>7. Marks'[q] \in Server
        BY <4>3, <4>5, <4>6
      <4> QED
        BY <4>7, MarkAssumption
    <3>5. \A q \in DirsOf(call[t].path) :
            Passed(call'[t], q) => Passed(call[t], q) \/ Len(q) + 1 = call[t].i
      BY <2>2, <2>3, <3>3 DEF Passed
    <3> QED
      BY <2>1, <2>2, <2>4, <3>4, <3>5 DEF Opened
  <2> QED
    BY <2>5, <2>6
<1> QED
  BY <1>3, <1>4

(* The marks change behind a search.                                       *)
LEMMA SeenStands ==
  ASSUME PrefixFree, Base, Owned, Watched, NoNodeLost', ~torn, [ThreadsNext]_tvars,
         \A u \in Thread : Inserting(u) => Opened(u),
         NEW t \in Thread, Searching(t), Seen(t), Still(t), moments[t] \subseteq moments'[t]
  PROVE  Seen(t)'
<1> DEFINE p == call[t].path
           B == BlockedBy(Marks, p)
           D == BlockedBy(Marks', p)
<1>1. TypeInv /\ Fit(call[t]) /\ p \in Text /\ call[t].i \in Nat /\ Marks \in [Text -> Mark]
  BY MarksAt DEF Base, TypeInv, CallsFit, Fit, Call, Searching
<1>2. call'[t].path = p /\ \A q : Passed(call'[t], q) <=> Passed(call[t], q)
  BY DEF Still, Passed
<1>3. Marks[p] \in Server /\ (\E q \in B : Passed(call[t], q))
        => Marks[p] \in moments[t] \/ \E q \in B : ~Passed(call[t], q)
  BY DEF Seen
<1>4. SUFFICES ASSUME Marks'[p] \in Server, NEW q0 \in D, Passed(call[t], q0)
               PROVE  Marks'[p] \in moments'[t] \/ \E q \in D : ~Passed(call[t], q)
  BY <1>2 DEF Seen
<1>5. search_trie(Marks, p) \in moments[t]
  BY DEF Watched
<1>6. /\ \A q : q \in B <=> q \in Text /\ IsPrefix(q, p) /\ Marks[q] = NoServer
      /\ \A q : q \in D <=> q \in Text /\ IsPrefix(q, p) /\ Marks'[q] = NoServer
  BY DEF BlockedBy
<1> HIDE DEF B, D
<1>7. CASE Marks' = Marks
  <2>1. D = B
    BY <1>7 DEF B, D
  <2> QED
    BY <1>3, <1>4, <1>7, <2>1
<1>8. ASSUME NEW w \in Text, \A q \in Text : q # w => Marks'[q] = Marks[q], Marks'[w] = NoServer
      PROVE  Marks'[p] \in moments'[t] \/ \E q \in D : ~Passed(call[t], q)
  <2>1. Marks'[p] = Marks[p] /\ Marks[p] \in Server
    BY <1>1, <1>4, <1>8, MarkAssumption
  <2>2. \A q \in B : q \in D
    BY <1>6, <1>8
  <2>3. CASE B = {}
    <3>1. \A q \in Text : IsPrefix(q, p) => Marks[q] # NoServer
      BY <1>6, <2>3
    <3>2. search_trie(Marks, p) = Marks[p]
      BY <1>1, <2>1, <3>1, SearchOf, MarkAssumption
    <3> QED
      BY <1>5, <2>1, <3>2
  <2>4. CASE B # {}
    <3>1. (\E q \in B : Passed(call[t], q)) \/ \E q \in B : ~Passed(call[t], q)
      BY <2>4
    <3> QED
      BY <1>3, <2>1, <2>2, <3>1
  <2> QED
    BY <2>3, <2>4
<1>9. ASSUME NEW u \in Thread, NEW w \in Text, \A q \in Text : q # w => Marks'[q] = Marks[q],
             Marks'[w] \in Server, Inserting(u), call[u].stage \in {"owner", "end"},
             w = Written(call[u])
      PROVE  Marks'[p] \in moments'[t] \/ \E q \in D : ~Passed(call[t], q)
  <2>1. q0 # w /\ q0 \in B /\ q0 \in Text /\ IsPrefix(q0, p)
    BY <1>6, <1>9, MarkAssumption
  <2>2. /\ Fit(call[u]) /\ call[u].path \in Text
        /\ w \in MarkedBy(call[u].path) /\ Len(w) + 1 = call[u].i
    BY <1>1, <1>9, WrittenIs DEF TypeInv, CallsFit, Inserting, Fit, Call
  <2>3. Len(w) \in Nat /\ Len(q0) \in Nat
    BY <2>1, StepsAre
  <2>4. ASSUME IsPrefix(w, p), Len(q0) <= Len(w) PROVE FALSE
    <3>1. IsPrefix(q0, w)
      BY <1>1, <2>1, <2>4, PrefixOrder
    <3>2. Len(q0) # Len(w)
      BY <1>1, <2>1, <2>4, OnePrefix
    <3>3. Passed(call[u], q0)
      BY <2>2, <2>3, <2>4, <3>2 DEF Passed
    <3>4. q0 \in MarkedBy(call[u].path)
      BY <2>1, <2>2, <3>1, PrefixMarked
    <3>5. IsDirText(q0)
      BY <2>1, <3>1 DEF PrefixFree
    <3>6. q0 \in DirsOf(call[u].path)
      BY <2>1, <3>4, <3>5, <2>2, PrefixOrder DEF MarkedBy, DirsOf
    <3>7. Marks[q0] # NoServer
      BY <1>9, <3>3, <3>6 DEF Opened
    <3> QED
      BY <1>6, <2>1, <3>7
  <2>5. p # w
    <3>1. IsPrefix(p, p) /\ Len(q0) <= Len(p)
      BY <1>1, <2>1, PrefixOrder
    <3> QED
      BY <2>4, <3>1
  <2>6. Marks'[p] = Marks[p]
    BY <1>1, <1>9, <2>5
  <2>7. ASSUME NEW q \in B, ~Passed(call[t], q) PROVE q \in D
    <3>1. q \in Text /\ IsPrefix(q, p) /\ Marks[q] = NoServer
      BY <1>6
    <3>2. q # w
      <4>1. SUFFICES ASSUME q = w PROVE FALSE
        OBVIOUS
      <4>2. Len(q0) <= Len(w)
        BY <1>1, <1>4, <2>3, <2>7, <4>1 DEF Passed
      <4> QED
        BY <2>4, <3>1, <4>1, <4>2
    <3> QED
      BY <1>6, <1>9, <3>1, <3>2
  <2> QED
    BY <1>3, <1>4, <2>1, <2>6, <2>7
<1> QED
  BY <1>7, <1>8, <1>9, MarksStep

(* A search's own step, or one behind its back.                            *)
LEMMA SeenStep ==
  ASSUME PrefixFree, Base, Owned, Watched, NoNodeLost', ~torn, [ThreadsNext]_tvars, Watch,
         \A u \in Thread : Inserting(u) => Opened(u),
         NEW t \in Thread, Searching(t) => Seen(t), Searching(t)'
  PROVE  Seen(t)'
<1>1. TypeInv /\ Places /\ NoNodeLost /\ call'[t] # None /\ call'[t].op = "search"
  BY LostForGood DEF Base, Searching, Active
<1>2. CASE ~Active(t)
  <2>1. call'[t].i = 1
    BY <1>1, <1>2, StepOf, Moves DEF Begun
  <2>2. \A q \in BlockedBy(Marks', call'[t].path) : Len(q) \in Nat
    BY StepsAre DEF BlockedBy
  <2> QED
    BY <2>1, <2>2 DEF Seen, Passed
<1>3. CASE Active(t)
  <2>1. call'[t].path = call[t].path /\ call'[t].op = call[t].op
    BY <1>1, <1>3, StepOf, Moves DEF Still, SameCall
  <2>2. Searching(t) /\ Seen(t) /\ moments[t] \subseteq moments'[t]
    BY <1>1, <1>3, <2>1, Watching DEF Searching
  <2>3. CASE Still(t)
    BY <2>2, <2>3, SeenStands
  <2>4. CASE Works(t) /\ ~Still(t)
    <3> DEFINE p == call[t].path
    <3>1. call[t].op = "search" /\ Placed(t)
      BY <1>1, <1>3, <2>1 DEF Places
    <3>2. Marks' = Marks
      BY <1>1, <2>4, <3>1, SearchWorks, StillMarks DEF SameNodes
    <3>3. Fit(call[t]) /\ p \in Text /\ call[t].i \in Nat /\ \A q \in Text : Len(q) \in Nat /\ Len(q) >= 1
      BY <1>1, <1>3, StepsAre DEF TypeInv, CallsFit, Fit, Call
    <3>4. ~\E r : Return(t, r)
      BY <1>1 DEF Return, TypeInv, ThreadsTypeOK
    <3>5. \/ Walk(t) /\ (call'[t].i = call[t].i \/ (call'[t].i = call[t].i + 1 /\ call[t].i = 1))
          \/ Look(t) /\ ~Deleted(call[t].at) /\ call'[t].i = call[t].i + 1
      <4>1. call[t].stage # "again"
        BY <3>1, <3>3 DEF Fit
      <4> QED
        BY <1>1, <2>4, <3>1, <3>4, <4>1, ReadMoves
    <3>6. \A q \in BlockedBy(Marks, p) : Passed(call'[t], q) <=> Passed(call[t], q)
      <4> SUFFICES ASSUME NEW q \in Text, IsPrefix(q, p), Marks[q] = NoServer
                   PROVE  Passed(call'[t], q) <=> Passed(call[t], q)
        BY DEF BlockedBy
      <4>1. CASE Walk(t) /\ (call'[t].i = call[t].i \/ (call'[t].i = call[t].i + 1 /\ call[t].i = 1))
        BY <3>3, <4>1 DEF Passed
      <4>2. CASE Look(t) /\ ~Deleted(call[t].at) /\ call'[t].i = call[t].i + 1
        <5>1. Len(q) + 1 # call[t].i
          BY <1>3, <3>1, <4>2, Learns DEF Look
        <5> QED
          BY <3>3, <4>2, <5>1 DEF Passed
      <4> QED
        BY <3>5, <4>1, <4>2
    <3> QED
      BY <2>1, <2>2, <3>2, <3>6 DEF Seen
  <2> QED
    BY <1>1, <1>3, <2>3, <2>4, StepOf
<1> QED
  BY <1>2, <1>3

(* What a search returns.                                                  *)
LEMMA AnswerStep ==
  ASSUME Base, Watched, Agreeing, NoNodeLost, ~torn, [ThreadsNext]_tvars
  PROVE  ~astray'
<1>1. TypeInv /\ Places /\ ~astray /\ \A t \in Thread : Searching(t) => Seen(t)
  BY DEF Base, Agreeing
<1>2. ASSUME NEW t \in Thread, Works(t) PROVE ~astray'
  <2>1. Active(t) /\ Fit(call[t]) /\ call[t].path \in Text
    BY <1>1, <1>2, Moves DEF Fit, Call
  <2>2. CASE call[t].op # "search"
    <3>1. ASSUME NEW r, Return(t, r) PROVE astray' = astray
      BY <1>1, <2>2, <3>1 DEF Return, TypeInv, ThreadsTypeOK
    <3>2. astray' = astray \/ \E r : Return(t, r)
      BY <1>1, <1>2, InsertMoves, ReadMoves, MakesNode DEF Stays
    <3> QED
      BY <1>1, <3>1, <3>2
  <2>3. CASE call[t].op = "search"
    <3> DEFINE p == call[t].path
    <3>1. Searching(t) /\ Placed(t) /\ Seen(t) /\ search_trie(Marks, p) \in moments[t]
      BY <1>1, <2>1, <2>3 DEF Searching, Places, Watched
    <3>2. Marks \in [Text -> Mark]
      BY <1>1, MarksAt
    <3>3. ASSUME NEW r, Return(t, r), r \in moments[t] PROVE ~astray'
      BY <1>1, <3>3 DEF Return
    <3>4. CASE Walk(t) /\ ~Linked(t) /\ Return(t, NoServer)
      <4>1. Marks[p] = Unmarked
        BY <2>1, <2>3, <3>1, <3>4, Learns DEF Walk
      <4>2. search_trie(Marks, p) = NoServer
        BY <2>1, <3>2, <4>1, SearchOf
      <4> QED
        BY <3>1, <3>3, <3>4, <4>2
    <3>5. CASE Look(t) /\ Deleted(call[t].at) /\ Return(t, NoServer)
      <4>1. \E q \in Text : IsPrefix(q, p) /\ Marks[q] = NoServer
        BY <2>1, <2>3, <3>1, <3>5, Learns DEF Look
      <4>2. search_trie(Marks, p) = NoServer
        BY <2>1, <3>2, <4>1, SearchOf
      <4> QED
        BY <3>1, <3>3, <3>5, <4>2
    <3>6. CASE ReadResult(t) /\ Return(t, Result(t))
      <4>1. /\ Result(t) = IF Marks[p] = Unmarked THEN NoServer ELSE Marks[p]
            /\ \A q \in Text : IsPrefix(q, p) => Passed(call[t], q)
        BY <2>1, <2>3, <3>1, <3>6, Learns DEF ReadResult
      <4>2. CASE Marks[p] \in {NoServer, Unmarked}
        <5>1. search_trie(Marks, p) = NoServer /\ Result(t) = NoServer
          BY <2>1, <3>2, <4>1, <4>2, SearchOf
        <5> QED
          BY <3>1, <3>3, <3>6, <5>1
      <4>3. CASE Marks[p] \in Server /\ \A q \in Text : IsPrefix(q, p) => Marks[q] # NoServer
        <5>1. search_trie(Marks, p) = Marks[p] /\ Result(t) = Marks[p]
          BY <2>1, <3>2, <4>1, <4>3, SearchOf, MarkAssumption
        <5> QED
          BY <3>1, <3>3, <3>6, <5>1
      <4>4. CASE Marks[p] \in Server /\ \E q \in Text : IsPrefix(q, p) /\ Marks[q] = NoServer
        <5>1. /\ \E q \in BlockedBy(Marks, p) : Passed(call[t], q)
              /\ ~\E q \in BlockedBy(Marks, p) : ~Passed(call[t], q)
          BY <4>1, <4>4 DEF BlockedBy
        <5>2. Result(t) \in moments[t]
          BY <3>1, <4>1, <4>4, <5>1, MarkAssumption DEF Seen
        <5> QED
          BY <3>3, <3>6, <5>2
      <4> QED
        BY <2>1, <3>2, <4>2, <4>3, <4>4 DEF Mark
    <3>7. CASE Erase(t)
      BY <2>1, <2>3, <3>7 DEF Erase, Fit
    <3> QED
      BY <1>1, <1>2, <2>3, <3>4, <3>5, <3>6, <3>7, ReadMoves DEF Stays
  <2> QED
    BY <2>2, <2>3
<1>3. ASSUME NEW u \in Thread, NEW op \in Op, NEW r \in Text, NEW s \in Route, Begin(u, op, r, s)
      PROVE  astray' = astray
  BY <1>3 DEF Begin
<1>4. UNCHANGED tvars => astray' = astray
  BY DEF tvars, ghosts
<1> QED
  BY <1>1, <1>2, <1>3, <1>4, StepIs

(* Together they are kept by every step.                                   *)
LEMMA AgreeingStep ==
  ASSUME PrefixFree, Base, Owned, Watched, Agreeing, [ThreadsNext]_tvars
  PROVE  Agreeing'
<1> SUFFICES ASSUME NoNodeLost', ~torn'
             PROVE  /\ ~astray'
                    /\ \A t \in Thread : Inserting(t)' => Opened(t)'
                    /\ \A t \in Thread : Searching(t)' => Seen(t)'
  BY DEF Agreeing
<1>1. TypeInv
  BY DEF Base
<1>2. ~torn /\ NoNodeLost
  <2>1. torn => torn'
    <3>1. UNCHANGED tvars => torn' = torn
      BY DEF tvars, ghosts
    <3> QED
      BY <1>1, <3>1, StepIs, BeginAlone, WorksGhosts
  <2> QED
    BY <1>1, <2>1, LostForGood
<1>3. /\ \A t \in Thread : Inserting(t) => Opened(t)
      /\ \A t \in Thread : Searching(t) => Seen(t)
  BY <1>2 DEF Agreeing
<1>4. ~astray'
  BY <1>2, AnswerStep
<1>5. \A t \in Thread : Inserting(t)' => Opened(t)'
  BY <1>2, <1>3, OpenedStep
<1>6. ASSUME NEW t \in Thread, Searching(t)' PROVE Seen(t)'
  <2>1. CASE Watch
    BY <1>2, <1>3, <1>6, <2>1, SeenStep
  <2>2. CASE UNCHANGED tvars
    <3>1. call' = call /\ moments' = moments /\ node' = node /\ link' = link
      BY <2>2 DEF tvars, nodeVars, ghosts
    <3>2. Marks' = Marks
      BY <3>1, StillMarks
    <3> QED
      BY <1>3, <1>6, <3>1, <3>2 DEF Searching, Active, Seen, Passed
  <2> QED
    BY <2>1, <2>2, WatchesStep
<1> QED
  BY <1>4, <1>5, <1>6

(* Unless a node was lost or a deletion overlapped an insertion, every     *)
(* search returns what it would have returned in one step at some moment   *)
(* between its call and its return, although nodes are made, marked and    *)
(* erased as it walks (nm_helper.c:437-451).  Without PrefixFree a search  *)
(* of "/xy" may pass "/x" before it is deleted, and then find "/xy" made   *)
(* after: no moment had that.                                              *)
THEOREM SearchesAnswerAsOfAMoment == PrefixFree => (ThreadsSpec => []SearchesAgree)
<1> SUFFICES ASSUME PrefixFree PROVE ThreadsSpec => []SearchesAgree
  OBVIOUS
<1> DEFINE Inv == Base /\ Owned /\ Watched /\ Agreeing
<1>1. ThreadsInit => Inv
  <2> SUFFICES ASSUME ThreadsInit PROVE Inv
    OBVIOUS
  <2>1. \A t \in Thread : ~Active(t)
    BY DEF ThreadsInit, Active
  <2>2. ~astray
    BY DEF ThreadsInit
  <2> QED
    BY <2>1, <2>2, BaseInit DEF Owned, Watched, Agreeing, Inserting, Searching
<1>2. Inv /\ [ThreadsNext]_tvars => Inv'
  BY BaseStep, OwnedStep, WatchedStep, AgreeingStep
<1>3. Inv => SearchesAgree
  BY DEF Agreeing, SearchesAgree
<1> QED
  BY <1>1, <1>2, <1>3, PTL DEF ThreadsSpec
=============================================================================
