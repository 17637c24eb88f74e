------------------------------ MODULE PathTrie ------------------------------
(***************************************************************************)
(* The path trie of the naming server (src/NamingServer/nm_helper.c): the  *)
(* texts it is keyed by and the operators trieinsert, search_trie and      *)
(* delete_from_trie.                                                       *)
(*                                                                         *)
(* A text is the character string a path is announced or asked by.  The    *)
(* listing of a storage server writes a file as "/d/f" and an empty        *)
(* directory as "/d/", so a text that ends in Slash names a directory.     *)
(* The trie walks characters, and "/x" is on the way to "/xy": a text is a *)
(* sequence, and what matters of it is which texts are its prefixes.       *)
(*                                                                         *)
(* A trie is a function from the texts of interest to the mark of the node *)
(* the text ends at: the storage_server of a node with isEndOfWord set     *)
(* (NoServer is the code's -1) or Unmarked for a node without isEndOfWord  *)
(* or one that was never created, which a search does not tell apart.      *)
(* isFile is never read and is left out.                                   *)
(***************************************************************************)
EXTENDS Naturals, Sequences, SequencesExt

CONSTANTS
  Char,      \* the characters of paths
  Slash,     \* '/'
  Text,      \* the texts of interest
  Server,    \* the server IDs, indices of servers[]
  NoServer,  \* -1
  Unmarked   \* isEndOfWord = false

(* trieinsert marks the node of every directory on the way, so the set of  *)
(* texts has those of each of its members.                                 *)
ASSUME TextAssumption ==
  /\ Slash \in Char
  /\ \A t \in Text : t \in Seq(Char) /\ t # <<>>
  /\ \A t \in Text : \A n \in 1..Len(t) :
        t[n] = Slash => SubSeq(t, 1, n) \in Text

ASSUME MarkAssumption ==
  /\ NoServer \notin Server
  /\ Unmarked \notin Server
  /\ NoServer # Unmarked

-----------------------------------------------------------------------------
IsDirText(t) == t[Len(t)] = Slash

(* The text of the directory that mkdir makes for t.                       *)
DirText(t) == IF IsDirText(t) THEN t ELSE Append(t, Slash)

(* The directories on the way to p, p itself if it names one.              *)
DirsOf(p) == {q \in Text : IsDirText(q) /\ IsPrefix(q, p)}

Mark == Server \union {NoServer, Unmarked}
Route == Server \union {NoServer}

EmptyTrie == [t \in Text |-> Unmarked]

(* The nodes a trieinsert of p marks.                                      *)
MarkedBy(p) == {p} \union DirsOf(p)

trieinsert(trie, p, s) ==
  [q \in Text |-> IF q \in MarkedBy(p) THEN s ELSE trie[q]]

(* A loop of trieinserts for one server: the order of the paths is         *)
(* immaterial because all of them write the same mark.                     *)
InsertAll(trie, ps, s) ==
  [q \in Text |-> IF \E p \in ps : q \in MarkedBy(p) THEN s ELSE trie[q]]

(* A slip: the nodes below p instead of the nodes on the way to it.        *)
BlockedBelow(trie, p) == {q \in Text : IsPrefix(p, q) /\ trie[q] = NoServer}

(* The walk stops at the first node that carries -1, whatever path that    *)
(* node was the end of.                                                    *)
BlockedBy(trie, p) == {q \in Text : IsPrefix(q, p) /\ trie[q] = NoServer}

(* A slip: the storage_server of the last node, without isEndOfWord.       *)
SearchUnended(trie, p) == IF BlockedBy(trie, p) # {} THEN NoServer ELSE trie[p]

(* A slip: an unknown path is taken to its closest known directory.        *)
SearchNearest(trie, p) ==
  LET known == {q \in MarkedBy(p) : trie[q] \in Server}
  IN IF BlockedBy(trie, p) # {} \/ known = {} THEN NoServer
     ELSE trie[CHOOSE q \in known : \A u \in known : IsPrefix(u, q)]

search_trie(trie, p) ==
  IF BlockedBy(trie, p) # {} \/ trie[p] = Unmarked THEN NoServer ELSE trie[p]

(* A slip: the mark is written without the search that guards it.          *)
DeleteUnchecked(trie, p) == [trie EXCEPT ![p] = NoServer]

delete_from_trie(trie, p) ==
  IF search_trie(trie, p) = NoServer THEN trie ELSE [trie EXCEPT ![p] = NoServer]
=============================================================================
