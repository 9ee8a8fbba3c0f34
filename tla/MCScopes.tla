------------------------------ MODULE MCScopes ------------------------------
(* A small instance of Scopes.  No name is special.                         *)
EXTENDS Scopes, TLC

CONSTANTS x, y

MCName == {x, y}
Names == Permutations(MCName)
=============================================================================
