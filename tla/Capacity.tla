------------------------------ MODULE Capacity ------------------------------
(***************************************************************************)
(* What src/calculations/gaps.py says of the gaps once they are found: the *)
(* first that fits, the neighbours of each, and the capacity summary.      *)
(***************************************************************************)
EXTENDS GapScan, FiniteSetsExt

CONSTANT NoGap   \* nothing fits

Lowest(ranges) == CHOOSE r \in ranges : \A s \in ranges : r.start <= s.start

\* Mutant of Fits: a gap of exactly the width asked for is passed over.
FitsLoosely(gap, width) == Width(gap) > width

Fits(gap, width) == Width(gap) >= width

\* first_fit, and the same choice in auto_place: the lowest gap that fits.
FirstFit(width) ==
    LET fitting == {gap \in gaps : Fits(gap, width)}
    IN  IF fitting = {} THEN NoGap ELSE Lowest(fitting)

NoEdge == -1

\* below_hz and above_hz of a gap: the occupied edges it lies between.
NearestBelow(edge) ==
    LET ends == {t.end : t \in {t \in Taken : t.end <= edge}}
    IN  IF ends = {} THEN NoEdge ELSE Max(ends)

NearestAbove(edge) ==
    LET starts == {t.start : t \in {t \in Taken : t.start >= edge}}
    IN  IF starts = {} THEN NoEdge ELSE Min(starts)

WidthOf(ranges) == MapThenSumSet(Width, ranges)

\* summarise: how much there is, how much of it is free, how much is used.
TotalHz == WidthOf(Elements(entitlements))
FreeHz  == WidthOf(gaps)

\* Mutant of UsedHz: the reservations' own widths, whatever they share.
UsedHzByRows == WidthOf(Taken)

UsedHz == TotalHz - FreeHz
-----------------------------------------------------------------------------
(***************************************************************************)
(* Properties.                                                             *)
(***************************************************************************)
HzOf(ranges) == UNION {r.start .. r.end - 1 : r \in ranges}

\* Total, free and used count each Hz of the entitlements once, as a reader of
\* the capacity screen takes them to, although rows of several resources may
\* cover the same Hz and reach outside the entitlement.
CapacityAddsUp ==
    Done => LET entitled == HzOf(Elements(entitlements))
            IN  /\ TotalHz = Cardinality(entitled)
                /\ FreeHz = Cardinality(entitled \ HzOf(Taken))
                /\ UsedHz = Cardinality(entitled \cap HzOf(Taken))

\* first_fit finds room whenever there is room of a width that find shows, and
\* nothing lower fits.
FirstFitIsLowest ==
    Done => \A n \in DOMAIN entitlements :
        \A range \in RangesOver(entitlements[n].start .. entitlements[n].end) :
            IsFree(range, entitlements[n], Taken) /\ Width(range) >= MinimumWidth
              => /\ FirstFit(Width(range)) # NoGap
                 /\ FirstFit(Width(range)).start <= range.start

\* The neighbours shown beside a gap are the ones that bound it: on each side it
\* touches them or ends with its entitlement, and nothing lies between.
NeighboursBoundTheGap ==
    Done => \A gap \in gaps : \E n \in DOMAIN entitlements :
        /\ Contains(entitlements[n], gap)
        /\ \/ gap.start = NearestBelow(gap.start)
           \/ /\ gap.start = entitlements[n].start
              /\ NearestBelow(gap.start) = NoEdge \/ NearestBelow(gap.start) < gap.start
        /\ \/ gap.end = NearestAbove(gap.end)
           \/ /\ gap.end = entitlements[n].end
              /\ NearestAbove(gap.end) = NoEdge \/ NearestAbove(gap.end) > gap.end

\* What an operator reads off the gaps is so: the one that first_fit chose and
\* the neighbours that find noted beside each.
OffersAreTrue == FirstFitIsLowest /\ NeighboursBoundTheGap
=============================================================================
