------------------------------- MODULE MCTrie -------------------------------
(* An instance of TrieService.  Names are sequences of one-letter strings. *)
EXTENDS TrieService

MCChar == {"/", "x", "y"}

(* "/", "/x", "/xy", "/y": one file's text starts another's.               *)
MCPrefixText == {<<"/">>, <<"/", "x">>, <<"/", "x", "y">>, <<"/", "y">>}
=============================================================================
