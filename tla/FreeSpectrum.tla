---------------------------- MODULE FreeSpectrum ----------------------------
(***************************************************************************)
(* What the free spectrum of an entitlement is, without saying how it is   *)
(* found: the ranges inside it that no reservation overlaps and that reach *)
(* from an edge of the entitlement or of a reservation to the next one.    *)
(* src/calculations/gaps.py computes them in one sweep (GapScan).          *)
(***************************************************************************)
EXTENDS Ranges

IsFree(range, entitlement, taken) ==
    /\ Contains(entitlement, range)
    /\ \A t \in taken : ~Overlaps(range, t)

LowerEdges(entitlement, taken) == {entitlement.start} \cup {t.end : t \in taken}
UpperEdges(entitlement, taken) == {entitlement.end} \cup {t.start : t \in taken}

\* The ranges an entitlement has left: free, and impossible to widen.
MaximalFree(entitlement, taken) ==
    {range \in [start : LowerEdges(entitlement, taken),
                end   : UpperEdges(entitlement, taken)] :
        range.start < range.end /\ IsFree(range, entitlement, taken)}
=============================================================================
