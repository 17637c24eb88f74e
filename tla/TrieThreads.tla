----------------------------- MODULE TrieThreads -----------------------------
(***************************************************************************)
(* The trie as the client threads and the listener of storage servers use  *)
(* it: nodes, links and marks, access by access, and no lock               *)
(* (src/NamingServer/nm_helper.c:369-476).                                 *)
(*                                                                         *)
(* A node is a number, its position in the order of the mallocs; none is   *)
(* ever freed.  A link leads from a node along a character to a node, and  *)
(* is NULL where the function link is not defined.  The pointer root is    *)
(* the link Top from the place 0, and is created like the others.          *)
(*                                                                         *)
(* trie and answer, of TrieService, are what the same calls would do one   *)
(* after the other, in the order of their returns.                         *)
(***************************************************************************)
EXTENDS TrieService

CONSTANTS
  Thread,
  Top,        \* the name of the pointer root
  MaxCalls    \* bound: the calls made

ASSUME ThreadsAssumption == Top \notin Char /\ MaxCalls \in Nat

VARIABLES
  node,       \* the nodes that were made: storage_server and isEndOfWord
  link,       \* children
  call,       \* the call each thread is in, or None
  made,       \* the calls so far
  moments,    \* what each search could have returned at a moment of its call
  astray,     \* a search returned something else
  mixed,      \* two insertions or deletions were under way at once
  torn,       \* an insertion and a deletion were
  due         \* who must be found for a path, NoServer if anything may be

nodeVars == <<node, link>>
ghosts == <<moments, astray, mixed, torn, due>>
tvars == <<vars, nodeVars, call, made, ghosts>>

None == [op |-> "none"]
Op == {"insert", "delete", "search"}

(* "walk": at a link; "link": it was NULL; "owner", "end": about to write  *)
(* storage_server or isEndOfWord; "look": the test for a deleted node;     *)
(* "return": the result is read; "again": the second walk of a deletion;   *)
(* "erase": at its node.                                                   *)
Stage == {"walk", "link", "owner", "end", "look", "return", "again", "erase"}

Steps(p) == <<Top>> \o p

Call == [op : Op, path : Text, server : Route, stage : Stage,
         at : Nat,      \* curr
         i : Nat,       \* the next step of the path
         alone : BOOLEAN]

ThreadsTypeOK ==
  /\ node \in Seq([server : Route, end : BOOLEAN])
  /\ \A l \in DOMAIN link : l[1] \in 0..Len(node) /\ link[l] \in 1..Len(node)
  /\ call \in [Thread -> Call \union {None}]
  /\ \A t \in Thread : call[t] # None =>
       call[t].at \in 0..Len(node) /\ call[t].i \in 1..Len(Steps(call[t].path)) + 1
  /\ made \in 0..MaxCalls
  /\ moments \in [Thread -> SUBSET Route]
  /\ astray \in BOOLEAN /\ mixed \in BOOLEAN /\ torn \in BOOLEAN
  /\ due \in [Text -> Route]

(* The node that a link leads to, 0 if it is NULL, and a link overwritten; *)
(* the nodes along a path, the one at its end, and its mark.               *)
Child(lk, n, c) == IF <<n, c>> \in DOMAIN lk THEN lk[<<n, c>>] ELSE 0

Relink(lk, n, c, m) ==
  [l \in DOMAIN lk \union {<<n, c>>} |-> IF l = <<n, c>> THEN m ELSE lk[l]]

Way(lk, s) ==
  LET at[k \in 0..Len(s)] == IF k = 0 THEN 0 ELSE Child(lk, at[k - 1], s[k])
  IN at

NodeAt(p) == Way(link, Steps(p))[Len(Steps(p))]

Marks == [p \in Text |-> LET n == NodeAt(p)
                         IN IF n # 0 /\ node[n].end THEN node[n].server ELSE Unmarked]

ThreadsInit ==
  /\ Init
  /\ node = <<>> /\ link = <<>>
  /\ call = [t \in Thread |-> None]
  /\ made = 0
  /\ moments = [t \in Thread |-> {}]
  /\ astray = FALSE /\ mixed = FALSE /\ torn = FALSE
  /\ due = [p \in Text |-> NoServer]

-----------------------------------------------------------------------------
Active(t) == call[t] # None
Writing(t) == Active(t) /\ call[t].op # "search"
Step(t) == Steps(call[t].path)[call[t].i]
Linked(t) == <<call[t].at, Step(t)>> \in DOMAIN link

(* What may have been found at each moment of the searches under way.      *)
Watch == moments' = [t \in Thread |->
           IF call'[t] # None /\ call'[t].op = "search"
           THEN (IF Active(t) THEN moments[t] ELSE {}) \union {search_trie(Marks', call'[t].path)}
           ELSE {}]

Begin(t, op, p, s) ==
  LET others == {u \in Thread : Writing(u)}
      clash == op # "search" /\ others # {}
  IN /\ ~Active(t) /\ made < MaxCalls
     /\ made' = made + 1
     /\ call' = [u \in Thread |->
                   IF u = t THEN [op |-> op, path |-> p, server |-> s, stage |-> "walk",
                                  at |-> 0, i |-> 1, alone |-> ~clash]
                   ELSE IF clash /\ u \in others THEN [call[u] EXCEPT !.alone = FALSE]
                   ELSE call[u]]
     /\ mixed' = (mixed \/ clash)
     /\ torn' = (torn \/ \E u \in others : {op, call[u].op} = {"insert", "delete"})
     /\ due' = [q \in Text |-> IF \/ op = "insert" /\ q \in MarkedBy(p)
                                  \/ op = "delete" /\ IsPrefix(p, q)
                               THEN NoServer ELSE due[q]]
     /\ UNCHANGED <<vars, nodeVars, astray>>
     /\ Watch

(* A call goes on, or returns; in the latter case it counts as made now.   *)
GoOn(t, c) ==
  /\ call' = [call EXCEPT ![t] = c]
  /\ UNCHANGED <<vars, astray, due>>

Return(t, result) ==
  LET c == call[t]
  IN /\ call' = [call EXCEPT ![t] = None]
     /\ CASE c.op = "insert" -> Insert(c.path, c.server)
          [] c.op = "delete" -> Delete(c.path)
          [] c.op = "search" -> Search(c.path)
     /\ astray' = (astray \/ (c.op = "search" /\ result \notin moments[t]))
     /\ due' = [q \in Text |-> IF c.op = "insert" /\ c.alone /\ q \in MarkedBy(c.path)
                               THEN c.server ELSE due[q]]

(* To the next step of the path or, behind the last, to what follows.      *)
Onward(c) ==
  LET more == c.i < Len(Steps(c.path))
  IN [c EXCEPT !.i = @ + 1,
               !.stage = CASE more -> IF @ = "again" THEN "again" ELSE "walk"
                           [] ~more /\ @ = "again" -> "erase"
                           [] OTHER -> "return"]

(* What a call does next at the node n that it came to; root has no mark.  *)
Arrived(c, n) ==
  LET here == [c EXCEPT !.at = n]
      last == c.i = Len(Steps(c.path))
  IN IF c.stage = "again" \/ c.i = 1 THEN Onward(here)
     ELSE IF c.op # "insert" THEN [here EXCEPT !.stage = "look"]
     ELSE IF Steps(c.path)[c.i] = Slash THEN [here EXCEPT !.stage = "owner"]
     ELSE IF last THEN [here EXCEPT !.stage = "end"]
     ELSE Onward(here)

(* A link is read.  (It is read twice, to be tested and to be followed; it *)
(* never becomes NULL again, so that the second reading is the one that    *)
(* counts.)                                                                *)
Walk(t) ==
  /\ Active(t) /\ call[t].stage \in {"walk", "again"}
  /\ IF Linked(t) THEN GoOn(t, Arrived(call[t], link[<<call[t].at, Step(t)>>]))
     ELSE IF call[t].op = "insert" THEN GoOn(t, [call[t] EXCEPT !.stage = "link"])
     ELSE Return(t, NoServer)
  /\ UNCHANGED <<nodeVars, made, mixed, torn>>
  /\ Watch

(* A slip: the last node that was made is linked.                          *)
LinkLast(t) ==
  /\ Active(t) /\ call[t].stage = "link"
  /\ node' = Append(node, [server |-> NoServer, end |-> FALSE])
  /\ link' = Relink(link, call[t].at, Step(t), Len(node))
  /\ GoOn(t, [call[t] EXCEPT !.stage = "walk"])
  /\ UNCHANGED <<made, mixed, torn>>
  /\ Watch

(* A slip: the children of the parent are set to NULL, not the new node's. *)
ClearParent(t) ==
  /\ Active(t) /\ call[t].stage = "link"
  /\ node' = Append(node, [server |-> NoServer, end |-> FALSE])
  /\ link' = Relink(Restrict(link, {l \in DOMAIN link : l[1] # call[t].at}),
                    call[t].at, Step(t), Len(node) + 1)
  /\ GoOn(t, [call[t] EXCEPT !.stage = "walk"])
  /\ UNCHANGED <<made, mixed, torn>>
  /\ Watch

(* A node is made and linked, whatever the link has become meanwhile; then *)
(* the link is read again.                                                 *)
MakeNode(t) ==
  /\ Active(t) /\ call[t].stage = "link"
  /\ node' = Append(node, [server |-> NoServer, end |-> FALSE])
  /\ link' = Relink(link, call[t].at, Step(t), Len(node) + 1)
  /\ GoOn(t, [call[t] EXCEPT !.stage = "walk"])
  /\ UNCHANGED <<made, mixed, torn>>
  /\ Watch

(* The two writes of a mark: the server first for a directory on the way,  *)
(* the end of the word first for the file at the end of the path.          *)
WriteOwner(t) ==
  LET c == call[t]
  IN /\ Active(t) /\ c.stage = "owner"
     /\ node' = [node EXCEPT ![c.at].server = c.server]
     /\ IF Step(t) = Slash THEN GoOn(t, [c EXCEPT !.stage = "end"]) ELSE Return(t, NoServer)
     /\ UNCHANGED <<link, made, mixed, torn>>
     /\ Watch

WriteEnd(t) ==
  LET c == call[t]
  IN /\ Active(t) /\ c.stage = "end"
     /\ node' = [node EXCEPT ![c.at].end = TRUE]
     /\ IF Step(t) # Slash THEN GoOn(t, [c EXCEPT !.stage = "owner"])
        ELSE IF c.i = Len(Steps(c.path)) THEN Return(t, NoServer)
        ELSE GoOn(t, Onward(c))
     /\ UNCHANGED <<link, made, mixed, torn>>
     /\ Watch

(* A slip: the mark of a deleted node does not stop the walk.              *)
NeverDeleted(n) == FALSE

Deleted(n) == node[n].end /\ node[n].server = NoServer

Look(t) ==
  LET c == call[t]
  IN /\ Active(t) /\ c.stage = "look"
     /\ IF Deleted(c.at) THEN Return(t, NoServer) ELSE GoOn(t, Onward(c))
     /\ UNCHANGED <<nodeVars, made, mixed, torn>>
     /\ Watch

(* A slip: isEndOfWord is not tested.                                      *)
ResultUnended(t) == node[call[t].at].server

Result(t) == IF node[call[t].at].end THEN node[call[t].at].server ELSE NoServer

(* The result of the search; a deletion that found its path walks again.   *)
ReadResult(t) ==
  LET c == call[t]
  IN /\ Active(t) /\ c.stage = "return"
     /\ IF c.op = "delete" /\ Result(t) # NoServer
        THEN GoOn(t, [c EXCEPT !.stage = "again", !.at = 0, !.i = 1])
        ELSE Return(t, Result(t))
     /\ UNCHANGED <<nodeVars, made, mixed, torn>>
     /\ Watch

Erase(t) ==
  LET c == call[t]
  IN /\ Active(t) /\ c.stage = "erase"
     /\ node' = [node EXCEPT ![c.at].server = NoServer]
     /\ Return(t, NoServer)
     /\ UNCHANGED <<link, made, mixed, torn>>
     /\ Watch

-----------------------------------------------------------------------------
ThreadsNext ==
  \E t \in Thread :
    \/ \E p \in Text : \/ \E s \in Server : Begin(t, "insert", p, s)
                       \/ \E op \in {"delete", "search"} :
                            Begin(t, op, p, NoServer)
    \/ Walk(t) \/ MakeNode(t) \/ WriteOwner(t) \/ WriteEnd(t)
    \/ Look(t) \/ ReadResult(t) \/ Erase(t)

ThreadsSpec == ThreadsInit /\ [][ThreadsNext]_tvars

-----------------------------------------------------------------------------
(* As long as no two insertions or deletions overlapped, the nodes are     *)
(* what the operators of PathTrie make of the calls, whenever none of them *)
(* is under way, and although searches come in between.                    *)
NodesFollow == ~mixed /\ (\A t \in Thread : ~Writing(t)) => Marks = trie

(* A path whose insertion overlapped no other writing call is found until  *)
(* it, or a directory it lies in, is deleted or inserted again, whatever   *)
(* nodes other threads lose below the same directories (nm_helper.c:398).  *)
UndisturbedFound == \A p \in Text : due[p] # NoServer => search_trie(Marks, p) = due[p]

(* Unless a node was lost or a deletion overlapped an insertion, a search  *)
(* returns what it would have returned in one step at some moment between  *)
(* its call and its return, although nodes are made, marked and erased as  *)
(* it walks (nm_helper.c:437-451).  (Like UndisturbedFound, for names of   *)
(* which none starts another.)                                             *)
NoNodeLost == \A n \in 1..Len(node) : \E l \in DOMAIN link : link[l] = n

SearchesAgree == NoNodeLost /\ ~torn => ~astray
=============================================================================
