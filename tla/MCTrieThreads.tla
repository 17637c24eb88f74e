---------------------------- MODULE MCTrieThreads ----------------------------
(* Instances of TrieThreads.  Names are sequences of one-letter strings.     *)
EXTENDS TrieThreads

MCChar == {"/", "x", "y"}

(* A directory and two files in it: threads that insert the one file may   *)
(* lose each other's nodes, below a directory in which the other stays.    *)
MCTreeText == {<<"/">>, <<"/", "x">>, <<"/", "y">>}

Symmetry == Permutations(Thread) \union Permutations(Server)
=============================================================================
