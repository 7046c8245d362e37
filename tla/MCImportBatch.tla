--------------------------- MODULE MCImportBatch ---------------------------
(***************************************************************************)
(* Instances of ImportBatch for TLC: a plan of two allocations, one of     *)
(* which carries an identifier, and a sheet with one row of every kind.    *)
(***************************************************************************)
EXTENDS ImportBatch, TLC

CONSTANTS b1, b2, r1, r2, s1, s2, l1, c1, c2, i1

Row(kind, id, label, code) == [kind |-> kind, id |-> id, label |-> label, code |-> code]

Plan ==
    <<Row("allocation", None, l1, c1), Row("allocation", i1, l1, c2)>>

Sheet ==
    <<Row("gap", None, l1, c1), Row("impossible", i1, l1, c1)>>

Files == {Plan, Sheet}

Meaning == l1 :> s1

Symmetric == Permutations(Batch) \cup Permutations(Request)
=============================================================================
