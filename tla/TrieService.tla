----------------------------- MODULE TrieService ----------------------------
(***************************************************************************)
(* The trie on its own, under any sequence of the calls the naming server  *)
(* makes: trieinsert (registration and merge), delete_from_trie (after a   *)
(* deletion) and search_trie (a miss of the cache).                        *)
(***************************************************************************)
EXTENDS PathTrie

VARIABLES
  trie,     \* the tree under root
  answer    \* what the last search returned

vars == <<trie, answer>>

TypeOK == /\ trie \in [Text -> Mark]
          /\ answer \in Route

Init == /\ trie = EmptyTrie
        /\ answer = NoServer

Insert(p, s) == /\ trie' = trieinsert(trie, p, s)
                /\ UNCHANGED answer

Delete(p) == /\ trie' = delete_from_trie(trie, p)
             /\ UNCHANGED answer

Search(p) == /\ answer' = search_trie(trie, p)
             /\ UNCHANGED trie

Next == \E p \in Text :
          \/ \E s \in Server : Insert(p, s)
          \/ Delete(p)
          \/ Search(p)

Spec == Init /\ [][Next]_vars

-----------------------------------------------------------------------------
(* No file's text is a prefix of another text: what the trie takes for     *)
(* granted of the names it is given.                                       *)
PrefixFree == \A t, u \in Text : IsPrefix(t, u) /\ t # u => IsDirText(t)

OwnerOf(t) == IF trie[t] \in Server THEN trie[t] ELSE NoServer

Tree == INSTANCE PathIndex
          WITH Dirs <- [t \in Text |-> DirsOf(t)],
               owner <- [t \in Text |-> OwnerOf(t)],
               gone <- {t \in Text : trie[t] = NoServer}

(* The character trie is a directory tree: every insertion, deletion and   *)
(* search of nm_helper.c:388-476 does to the marks what the tree index     *)
(* does to its entries, and finds a path exactly when the tree does.       *)
TreeIndex == Tree!Spec

(* A path that a server announced last is found unless it or a directory   *)
(* it lies in was deleted: search_trie gives up on the way only at "the    *)
(* path/directory" that "has been deleted" (nm_helper.c:444-446).          *)
FoundUnlessDeleted ==
  \A t \in Text :
     trie[t] \in Server /\ search_trie(trie, t) = NoServer
        => \E q \in DirsOf(t) : trie[q] = NoServer
=============================================================================
