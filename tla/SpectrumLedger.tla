--------------------------- MODULE SpectrumLedger ---------------------------
(***************************************************************************)
(* What src/spectrum/services.py promises, whatever the transactions that  *)
(* carry it out do to one another: a ledger of reservations that changes   *)
(* only by whole allocations and never holds two that collide.             *)
(*                                                                         *)
(* "Write every occupancy row for one allocation, or none of them"         *)
(* (services.py, reserve), status and reserves_spectrum moved on every row *)
(* or on none (set_status), every row dropped (release), and an allocation *)
(* exchanged for another in one transaction (rewrite and revise of         *)
(* src/satnet_paths).                                                      *)
(***************************************************************************)
EXTENDS Reservations

VARIABLE ledger

Init == ledger = {}

\* A draft planned by two requests is placed again beside what the first left,
\* where there is room for both; here no more than once.
Reserve(path, pl, status) ==
    /\ \A r \in RowsOf(ledger, path) : ~r.again
    /\ ledger' = ledger \cup Rows(path, pl, status, RowsOf(ledger, path) # {})

SetStatus(path, status) ==
    ledger' = (ledger \ RowsOf(ledger, path))
                \cup {Restatused(r, status) : r \in RowsOf(ledger, path)}

Release(path) == ledger' = ledger \ RowsOf(ledger, path)

\* The old rows go, the new ones come: nobody sees neither or both.
Exchange(path, successor, pl, status) ==
    /\ successor # path => RowsOf(ledger, successor) = {}
    /\ ledger' = (ledger \ RowsOf(ledger, path)) \cup Rows(successor, pl, status, FALSE)

Move ==
    \/ \E p \in Path, pl \in Placement, s \in PathStatus : Reserve(p, pl, s)
    \/ \E p \in Path, s \in PathStatus : SetStatus(p, s)
    \/ \E p \in Path : Release(p)
    \/ \E p, q \in Path, pl \in Placement, s \in PathStatus : Exchange(p, q, pl, s)

\* The promise: no move that changes anything leaves two colliding rows.
Next == ledger' # ledger /\ Disjoint(ledger') /\ Move

Spec == Init /\ [][Next]_ledger
=============================================================================
