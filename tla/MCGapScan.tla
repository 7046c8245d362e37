------------------------------ MODULE MCGapScan ------------------------------
EXTENDS Capacity

CONSTANT Top, MaxEntitlements, MaxOccupied   \* bounds on edges and lists

Small == RangesOver(0 .. Top)

UpTo(n) == UNION {[1 .. m -> Small] : m \in 0 .. n}

\* excl_assignment_overlap: the active assignments of a direction are disjoint.
MCEntitlementLists ==
    {s \in UpTo(MaxEntitlements) :
        \A m, n \in DOMAIN s : m # n => ~Overlaps(s[m], s[n])}

MCOccupiedLists == UpTo(MaxOccupied)
=============================================================================
