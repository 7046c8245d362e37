----------------------------- MODULE MCSatnets ------------------------------
(***************************************************************************)
(* Satnets for TLC: an administrator and an operator, two requests at      *)
(* once, two Satnets that may want the same code, a Hub with two sites.    *)
(***************************************************************************)
EXTENDS Satnets, TLC

CONSTANTS admin, operator

MCRoles == [u \in User |-> IF u = admin THEN {"admin"} ELSE {"operator"}]

Interchangeable == Permutations(Satnet) \cup Permutations(Request) \cup Permutations(Gateway)
                       \cup Permutations(Code)
=============================================================================
