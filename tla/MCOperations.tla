---------------------------- MODULE MCOperations ----------------------------
(***************************************************************************)
(* An instance of Operations for TLC: two editors, two dumps, one scratch  *)
(* database used for one verification after the other.                     *)
(***************************************************************************)
EXTENDS Operations, TLC

CONSTANTS e1, e2

Symmetric == Permutations(Editor)
=============================================================================
