------------------------------- MODULE GapScan -------------------------------
(***************************************************************************)
(* find() and subtract() of src/calculations/gaps.py: the sweep that finds *)
(* the free spectrum of a Beam direction.  Every step is one pass of the   *)
(* inner loop.  The lists are as sorted() returns them, in order of start; *)
(* reservations may nest and overlap, for the rows of all the resources a  *)
(* leg competes on are swept together.                                     *)
(***************************************************************************)
EXTENDS FreeSpectrum

CONSTANTS
    EntitlementLists,   \* the lists of assignments a direction may have
    OccupiedLists,      \* the lists of reservations there may be
    MinimumWidth        \* minimum_width_hz

HzRange == RangesOver(Int)

ASSUME ListsAssumption ==
    /\ EntitlementLists \subseteq Seq(HzRange)
    /\ OccupiedLists \subseteq Seq(HzRange)

ASSUME WidthAssumption == MinimumWidth \in Nat \ {0}

VARIABLES
    entitlements,   \* the sorted entitlements
    occupied,       \* the sorted reservations
    e,              \* the entitlement being swept
    i,              \* the reservation the sweep has reached
    cursor,         \* everything of the entitlement below is accounted for
    gaps            \* what was found

sweepVars == <<entitlements, occupied, e, i, cursor, gaps>>
inputs == <<entitlements, occupied>>

SortedByStart(s) == \A m, n \in DOMAIN s : m < n => s[m].start <= s[n].start

Elements(s) == {s[n] : n \in DOMAIN s}
Taken == Elements(occupied)

SweepTypeOK ==
    /\ entitlements \in EntitlementLists
    /\ occupied \in OccupiedLists
    /\ e \in 1 .. Len(entitlements) + 1
    /\ i \in 1 .. Len(occupied) + 1
    /\ cursor \in Int
    /\ gaps \subseteq HzRange

Lower(s, n) == IF n <= Len(s) THEN s[n].start ELSE 0

SweepInit ==
    /\ entitlements \in {s \in EntitlementLists : SortedByStart(s)}
    /\ occupied \in {s \in OccupiedLists : SortedByStart(s)}
    /\ e = 1
    /\ i = 1
    /\ cursor = Lower(entitlements, 1)
    /\ gaps = {}
-----------------------------------------------------------------------------
Higher(m, n) == IF m < n THEN n ELSE m
Lesser(m, n)  == IF m < n THEN m ELSE n

\* Mutant of Found: a free interval of one Hz is taken for no interval at all.
FoundIfWider(start, end) ==
    IF start + 1 < end /\ end - start >= MinimumWidth THEN {FrequencyRange(start, end)} ELSE {}

\* A free interval from start to end, when there is one and it is wide enough.
Found(start, end) ==
    IF start < end /\ end - start >= MinimumWidth THEN {FrequencyRange(start, end)} ELSE {}

Sweeping == e <= Len(entitlements)

\* A reservation wholly outside the entitlement.
Outside(t, entitlement) ==
    t.end <= entitlement.start \/ t.start >= entitlement.end

Skip ==
    /\ Sweeping /\ i <= Len(occupied)
    /\ Outside(occupied[i], entitlements[e])
    /\ i' = i + 1
    /\ UNCHANGED <<inputs, e, cursor, gaps>>

\* Where the cursor moves past a reservation: never back.
Beyond(t, entitlement) == Higher(cursor, Lesser(t.end, entitlement.end))

Subtract ==
    /\ Sweeping /\ i <= Len(occupied)
    /\ ~Outside(occupied[i], entitlements[e])
    /\ LET start == Higher(occupied[i].start, entitlements[e].start)
       IN  gaps' = gaps \cup Found(cursor, start)
    /\ cursor' = Beyond(occupied[i], entitlements[e])
    /\ i' = i + 1
    /\ UNCHANGED <<inputs, e>>

\* The rest of the entitlement is free; on to the next one.
Finish ==
    /\ Sweeping /\ i > Len(occupied)
    /\ gaps' = gaps \cup Found(cursor, entitlements[e].end)
    /\ e' = e + 1
    /\ i' = 1
    /\ cursor' = Lower(entitlements, e + 1)
    /\ UNCHANGED inputs

Done == ~Sweeping

SweepNext == Skip \/ Subtract \/ Finish

SweepSpec == SweepInit /\ [][SweepNext]_sweepVars

-----------------------------------------------------------------------------
(***************************************************************************)
(* Properties.                                                             *)
(***************************************************************************)
\* What is offered as free is never held by anybody, at any point of the
\* sweep: not even by a reservation the sweep has yet to reach, and not by a
\* long one it passed before a short one.
GapsAreFree ==
    \A gap \in gaps :
        \E n \in DOMAIN entitlements : IsFree(gap, entitlements[n], Taken)

\* Free spectrum is not hidden: any free stretch of an entitlement that is wide
\* enough lies inside a gap once its entitlement is swept, even one between
\* nested reservations or against an edge.
NothingMissed ==
    \A n \in DOMAIN entitlements : n < e =>
        \A range \in RangesOver(entitlements[n].start .. entitlements[n].end) :
            (/\ IsFree(range, entitlements[n], Taken)
             /\ range.end - range.start >= MinimumWidth)
               => \E gap \in gaps : Contains(gap, range)

\* No gap crosses from one assignment into its neighbour (each expires on its
\* own), and none stops short of the reservation or the edge that bounds it:
\* the gaps are exactly the maximal free ranges.
ExactlyTheFreeSpectrum ==
    Done => gaps = UNION {{range \in MaximalFree(entitlements[n], Taken) :
                              range.end - range.start >= MinimumWidth} :
                            n \in DOMAIN entitlements}
=============================================================================
