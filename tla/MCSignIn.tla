----------------------------- MODULE MCSignIn -----------------------------
(***************************************************************************)
(* An instance of SignIn for TLC: two browsers of one account.             *)
(***************************************************************************)
EXTENDS SignIn, TLC

CONSTANTS b1, b2

Symmetric == Permutations(Browser)
=============================================================================
