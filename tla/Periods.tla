------------------------------ MODULE Periods ------------------------------
(***************************************************************************)
(* Half-open time periods [start, end), where the end may be absent:       *)
(* src/calculations/periods.py.  Moments are natural numbers and the       *)
(* absent end (Python's None, SQL's NULL upper bound) is NoEnd.            *)
(***************************************************************************)
EXTENDS Integers

NoEnd == -1

\* The periods over a set of moments: one that ends runs forwards.
PeriodsOver(moments) ==
    {p \in [start : moments, end : moments \cup {NoEnd}] :
        p.end = NoEnd \/ p.start < p.end}

Period(start, end) == [start |-> start, end |-> end]

PeriodContains(outer, inner) ==
    /\ outer.start <= inner.start
    /\ \/ outer.end = NoEnd
       \/ inner.end # NoEnd /\ inner.end <= outer.end

PeriodsOverlap(a, b) ==
    /\ a.end = NoEnd \/ b.start < a.end
    /\ b.end = NoEnd \/ a.start < b.end

\* The moments a period holds, among a set of them.
ActiveAt(p, moment) == p.start <= moment /\ (p.end = NoEnd \/ moment < p.end)

Earliest(moments) == CHOOSE x \in moments : \A y \in moments : x <= y
Latest(moments)   == CHOOSE x \in moments : \A y \in moments : y <= x

\* The period common to all of a non-empty set, or NoPeriod.
NoPeriod == [start |-> 0, end |-> 0]

Intersect(periods) ==
    LET start == Latest({p.start : p \in periods})
        ends  == {p.end : p \in periods} \ {NoEnd}
        end   == IF ends = {} THEN NoEnd ELSE Earliest(ends)
    IN  IF end # NoEnd /\ end <= start THEN NoPeriod ELSE Period(start, end)
=============================================================================
