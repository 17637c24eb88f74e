------------------------------ MODULE PathIndex -----------------------------
(***************************************************************************)
(* What the naming server needs of its path index: a directory tree in     *)
(* which a path is found unless it, or a directory it lies in, has been    *)
(* deleted ("the path/directory has been deleted", nm_helper.c:445).       *)
(* Nothing here knows about characters: two files can only hide each other *)
(* through a common directory.                                             *)
(***************************************************************************)
CONSTANTS
  Text, Server, NoServer,
  Dirs        \* the directories on the way to each text

VARIABLES
  owner,      \* the server that announced each text last
  gone,       \* the deleted texts
  answer      \* what the last lookup returned

Lookup(t) == IF ({t} \union Dirs[t]) \intersect gone # {} THEN NoServer ELSE owner[t]

Init == /\ owner = [t \in Text |-> NoServer]
        /\ gone = {}
        /\ answer = NoServer

(* A server announces p: p and the directories it lies in are its.         *)
Announce(p, s) ==
  LET named == {p} \union Dirs[p]
  IN /\ owner' = [t \in Text |-> IF t \in named THEN s ELSE owner[t]]
     /\ gone' = gone \ named
     /\ UNCHANGED answer

(* A path that is found is deleted; one that is not is left alone.         *)
Remove(p) ==
  /\ Lookup(p) # NoServer
  /\ owner' = [owner EXCEPT ![p] = NoServer]
  /\ gone' = gone \union {p}
  /\ UNCHANGED answer

Ask(p) ==
  /\ answer' = Lookup(p)
  /\ UNCHANGED <<owner, gone>>

Next == \E p \in Text :
          \/ \E s \in Server : Announce(p, s)
          \/ Remove(p)
          \/ Ask(p)

vars == <<owner, gone, answer>>
Spec == Init /\ [][Next]_vars
=============================================================================
