------------------------------- MODULE Ranges -------------------------------
(***************************************************************************)
(* Half-open frequency intervals [start, end) in whole Hz:                 *)
(* src/calculations/ranges.py.  A range with no width does not exist       *)
(* (EmptyRangeError), so Range only holds start < end.                     *)
(***************************************************************************)
EXTENDS Integers, Sequences

\* The ranges whose edges lie in a set of frequencies.
RangesOver(hz) ==
    {r \in [start : hz, end : hz] : r.start < r.end}

FrequencyRange(start, end) == [start |-> start, end |-> end]

Width(r) == r.end - r.start

ContainsHz(r, hz) == r.start <= hz /\ hz < r.end

Contains(outer, inner) == outer.start <= inner.start /\ inner.end <= outer.end

Overlaps(a, b) == a.start < b.end /\ b.start < a.end

Shift(r, delta) == FrequencyRange(r.start + delta, r.end + delta)

\* An inverting translation f(x) = k - x, re-normalised to [k-end, k-start).
Reflect(r, k) == FrequencyRange(k - r.end, k - r.start)

\* Defined for guards left, right >= 0: the code refuses a negative one.
Expanded(r, left, right) == FrequencyRange(r.start - left, r.end + right)
=============================================================================
