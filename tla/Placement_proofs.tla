-------------------------- MODULE Placement_proofs --------------------------
(***************************************************************************)
(* Where spectrum is free and what is placed in it.                        *)
(*                                                                         *)
(* First the sweep of gaps.find (GapScan, Capacity), for every list of     *)
(* entitlements and every list of reservations, of any length and with any *)
(* edges: what it finds is exactly the free spectrum.  Then the wizard     *)
(* (Wizard), for every satnet, Beam, payload translation, guard policy,    *)
(* request and set of resources.  The two models have their own variables  *)
(* and meet in the definition of free spectrum (FreeSpectrum).             *)
(***************************************************************************)
EXTENDS Wizard, Capacity, WellFoundedInduction, FiniteSetTheorems, TLAPS

(***************************************************************************)
(* The sweep.  Its inductive invariant says what the cursor stands for:    *)
(* every reservation passed so far ends at or below it (or starts above    *)
(* the entitlement), it stands on an edge, and every free range of the     *)
(* entitlement that starts below it already lies inside a gap.             *)
(***************************************************************************)
Entitlement == entitlements[e]

\* Some gap of this very entitlement holds the range.
Served(n, range) ==
    \E gap \in gaps : gap \in MaximalFree(entitlements[n], Taken) /\ Contains(gap, range)

\* A free range that must not be missed.
Wanted(n, range) ==
    IsFree(range, entitlements[n], Taken) /\ range.end - range.start >= MinimumWidth

Sorted == SortedByStart(entitlements) /\ SortedByStart(occupied)

CursorInside ==
    Sweeping => Entitlement.start <= cursor /\ cursor <= Entitlement.end

CursorOnEdge ==
    Sweeping => cursor \in LowerEdges(Entitlement, Taken) \cup {Entitlement.end}

PassedIsBehind ==
    Sweeping /\ cursor < Entitlement.end => \A j \in 1 .. i - 1 :
        occupied[j].end <= cursor \/ occupied[j].start >= Entitlement.end

GapsAreMaximal ==
    \A gap \in gaps : \E n \in DOMAIN entitlements :
        gap \in MaximalFree(entitlements[n], Taken) /\ gap.end - gap.start >= MinimumWidth

SweptIsServed ==
    \A n \in DOMAIN entitlements : n < e =>
        \A range \in HzRange : Wanted(n, range) => Served(n, range)

BelowCursorIsServed ==
    Sweeping => \A range \in HzRange :
        Wanted(e, range) /\ range.start < cursor => Served(e, range)

SweepInv ==
    /\ SweepTypeOK /\ Sorted
    /\ CursorInside /\ CursorOnEdge /\ PassedIsBehind
    /\ GapsAreMaximal /\ SweptIsServed /\ BelowCursorIsServed
-----------------------------------------------------------------------------
\* The elements of the lists are ranges.
LEMMA ListTypes ==
    ASSUME SweepTypeOK
    PROVE  /\ entitlements \in Seq(HzRange)
           /\ occupied \in Seq(HzRange)
           /\ Taken \subseteq HzRange
           /\ Len(occupied) \in Nat /\ DOMAIN occupied = 1 .. Len(occupied)
           /\ Len(entitlements) \in Nat /\ DOMAIN entitlements = 1 .. Len(entitlements)
           /\ \A n \in 1 .. Len(entitlements) : entitlements[n] \in HzRange
           /\ \A n \in 1 .. Len(occupied) : occupied[n] \in HzRange /\ occupied[n] \in Taken
  <1>1. entitlements \in Seq(HzRange) /\ occupied \in Seq(HzRange)
    BY ListsAssumption DEF SweepTypeOK
  <1> QED BY <1>1 DEF Taken, Elements

\* What a range is.
LEMMA RangeType ==
    ASSUME NEW r \in HzRange
    PROVE  r.start \in Int /\ r.end \in Int /\ r.start < r.end
  BY DEF HzRange, RangesOver

\* What makes a range.
LEMMA RangeMade ==
    ASSUME NEW lo \in Int, NEW hi \in Int, lo < hi
    PROVE  /\ FrequencyRange(lo, hi) \in HzRange
           /\ FrequencyRange(lo, hi).start = lo /\ FrequencyRange(lo, hi).end = hi
  BY DEF FrequencyRange, HzRange, RangesOver

\* Two edges of an entitlement with no reservation between them.
FreeBetween(ent, taken, lo, hi) ==
    lo < hi =>
        /\ ent.start <= lo /\ hi <= ent.end
        /\ lo \in LowerEdges(ent, taken) /\ hi \in UpperEdges(ent, taken)
        /\ \A t \in taken : t.end <= lo \/ t.start >= hi

\* What Found adds between two such edges is maximal.
LEMMA FoundIsMaximal ==
    ASSUME NEW ent \in HzRange, NEW taken \in SUBSET HzRange,
           NEW lo \in Int, NEW hi \in Int,
           FreeBetween(ent, taken, lo, hi),
           NEW gap \in Found(lo, hi)
    PROVE  /\ gap \in MaximalFree(ent, taken)
           /\ gap.start = lo /\ gap.end = hi
           /\ gap.end - gap.start >= MinimumWidth /\ gap \in HzRange
  <1>1. lo < hi /\ hi - lo >= MinimumWidth /\ gap = FrequencyRange(lo, hi)
    BY DEF Found
  <1>2. gap \in HzRange /\ gap.start = lo /\ gap.end = hi
    BY <1>1, RangeMade
  <1>3. IsFree(gap, ent, taken)
    BY <1>1, <1>2, RangeType DEF FreeBetween, IsFree, Contains, Overlaps
  <1>4. gap \in [start : LowerEdges(ent, taken), end : UpperEdges(ent, taken)]
    BY <1>1 DEF FreeBetween, FrequencyRange
  <1> QED BY <1>1, <1>2, <1>3, <1>4 DEF MaximalFree

\* A free range with room enough lies in what Found adds.
LEMMA FoundServes ==
    ASSUME NEW lo \in Int, NEW hi \in Int, NEW range \in HzRange,
           lo <= range.start, range.end <= hi, range.end - range.start >= MinimumWidth
    PROVE  \E gap \in Found(lo, hi) : Contains(gap, range)
  <1>1. lo < hi /\ hi - lo >= MinimumWidth
    BY RangeType, WidthAssumption
  <1>2. FrequencyRange(lo, hi) \in Found(lo, hi)
    BY <1>1 DEF Found
  <1>3. Contains(FrequencyRange(lo, hi), range)
    BY <1>1, RangeMade DEF Contains
  <1> QED BY <1>2, <1>3
-----------------------------------------------------------------------------
\* The sweep begins with the invariant.
THEOREM InitSweepInv == SweepInit => SweepInv
  <1> SUFFICES ASSUME SweepInit PROVE SweepInv OBVIOUS
  <1> USE DEF SweepInit
  <1>0. entitlements \in Seq(HzRange) /\ occupied \in Seq(HzRange)
    BY ListsAssumption
  <1>00. Lower(entitlements, 1) \in Int
    BY <1>0 DEF Lower, HzRange, RangesOver
  <1>1. SweepTypeOK /\ Sorted
    BY <1>0, <1>00 DEF SweepTypeOK, Sorted
  <1>2. Sweeping => Entitlement \in HzRange /\ cursor = Entitlement.start
    BY <1>0 DEF Sweeping, Entitlement, Lower
  <1>3. CursorInside /\ CursorOnEdge
    BY <1>2, RangeType DEF CursorInside, CursorOnEdge, LowerEdges
  <1>4. PassedIsBehind /\ GapsAreMaximal /\ SweptIsServed
    BY <1>0 DEF PassedIsBehind, GapsAreMaximal, SweptIsServed
  <1>5. BelowCursorIsServed
    <2> SUFFICES ASSUME Sweeping, NEW range \in HzRange, Wanted(e, range),
                        range.start < cursor
                 PROVE FALSE
      BY DEF BelowCursorIsServed
    <2>1. Entitlement.start <= range.start
      BY DEF Wanted, IsFree, Contains, Entitlement
    <2> QED BY <2>1, <1>2, RangeType
  <1> QED BY <1>1, <1>3, <1>4, <1>5 DEF SweepInv

\* A range that is served stays served: gaps only grow.
LEMMA StaysServed ==
    ASSUME gaps \subseteq gaps', UNCHANGED inputs, NEW n, NEW range
    PROVE  Wanted(n, range)' = Wanted(n, range) /\ (Served(n, range) => Served(n, range)')
  BY DEF inputs, Wanted, Served, Taken

\* Passing a reservation keeps it.
LEMMA SkipStep == SweepInv /\ Skip => SweepInv'
  <1> SUFFICES ASSUME SweepInv, Skip PROVE SweepInv' OBVIOUS
  <1> USE DEF SweepInv
  <1>0. UNCHANGED <<inputs, e, cursor, gaps>> /\ UNCHANGED Taken
    BY DEF Skip, inputs, Taken
  <1>1. SweepTypeOK'
    BY <1>0, ListTypes DEF Skip, SweepTypeOK, inputs
  <1>2. Sorted' /\ CursorInside' /\ CursorOnEdge' /\ GapsAreMaximal'
    BY <1>0 DEF inputs, Sorted, CursorInside, CursorOnEdge, GapsAreMaximal, Sweeping, Entitlement
  <1>3. SweptIsServed' /\ BelowCursorIsServed'
    BY <1>0 DEF inputs, SweptIsServed, BelowCursorIsServed, Wanted, Served, Sweeping
  <1>4. PassedIsBehind'
    <2> SUFFICES ASSUME Sweeping, NEW j \in 1 .. i, cursor < Entitlement.end
                 PROVE  occupied[j].end <= cursor \/ occupied[j].start >= Entitlement.end
      BY <1>0, ListTypes DEF Skip, PassedIsBehind, inputs, Sweeping, Entitlement, SweepTypeOK
    <2>1. CASE j < i
      BY <2>1, ListTypes DEF PassedIsBehind, SweepTypeOK
    <2>2. CASE j = i
      <3>1. Outside(occupied[j], Entitlement) /\ occupied[j] \in HzRange /\ Entitlement \in HzRange
        BY <2>2, ListTypes DEF Skip, Entitlement, Sweeping, SweepTypeOK
      <3> QED BY <3>1, RangeType DEF Outside, CursorInside, SweepTypeOK
    <2> QED BY <2>1, <2>2, ListTypes DEF SweepTypeOK
  <1> QED BY <1>1, <1>2, <1>3, <1>4

\* Subtracting one keeps it.
LEMMA SubtractStep == SweepInv /\ Subtract => SweepInv'
  <1> SUFFICES ASSUME SweepInv, Subtract PROVE SweepInv' OBVIOUS
  <1> USE DEF SweepInv
  <1> DEFINE t == occupied[i]
             start == Higher(t.start, Entitlement.start)
  <1>0. /\ UNCHANGED <<inputs, e>> /\ UNCHANGED Taken
        /\ gaps' = gaps \cup Found(cursor, start)
        /\ cursor' = Beyond(t, Entitlement) /\ i' = i + 1
        /\ Sweeping /\ ~Outside(t, Entitlement)
    BY DEF Subtract, inputs, Taken, Entitlement
  <1>1. /\ t \in HzRange /\ t \in Taken /\ Entitlement \in HzRange
        /\ i \in 1 .. Len(occupied) /\ e \in 1 .. Len(entitlements) /\ cursor \in Int
    BY ListTypes DEF Subtract, SweepTypeOK, Sweeping, Entitlement
  <1>2. /\ t.start \in Int /\ t.end \in Int /\ t.start < t.end
        /\ Entitlement.start \in Int /\ Entitlement.end \in Int
        /\ Entitlement.start < Entitlement.end
        /\ Entitlement.start <= cursor /\ cursor <= Entitlement.end
        /\ Entitlement.start < t.end /\ t.start < Entitlement.end
    BY <1>0, <1>1, RangeType DEF CursorInside, Outside
  <1>3. /\ start \in Int /\ start <= Entitlement.end
        /\ cursor < start => start = t.start
        /\ cursor' \in Int /\ cursor <= cursor' /\ cursor' <= Entitlement.end
        /\ cursor' \in {cursor, t.end, Entitlement.end}
        /\ cursor' >= t.end \/ cursor' = Entitlement.end
    BY <1>0, <1>1, <1>2 DEF Higher, Lesser, Beyond
  <1>4. \A r \in Taken : cursor < start => (r.end <= cursor \/ r.start >= start)
    <2> SUFFICES ASSUME NEW j \in 1 .. Len(occupied), cursor < start
                 PROVE  occupied[j].end <= cursor \/ occupied[j].start >= start
      BY ListTypes DEF Taken, Elements
    <2>1. CASE j < i
      <3>1. occupied[j].end <= cursor \/ occupied[j].start >= Entitlement.end
        BY <1>0, <1>1, <1>2, <1>3, <2>1 DEF PassedIsBehind
      <3>2. occupied[j].start \in Int
        BY ListTypes, RangeType
      <3> QED BY <1>2, <1>3, <3>1, <3>2
    <2>2. CASE j >= i
      <3>1. CASE j = i
        BY <1>2, <1>3, <2>2, <3>1
      <3>2. CASE i < j
        <4>1. occupied[i].start <= occupied[j].start
          BY <1>1, <3>2, ListTypes DEF Sorted, SortedByStart
        <4> QED BY <1>3, <4>1
      <3> QED BY <1>1, <2>2, <3>1, <3>2
    <2> QED BY <1>1, <2>1, <2>2
  <1>5. cursor < start =>
            cursor \in LowerEdges(Entitlement, Taken) /\ start \in UpperEdges(Entitlement, Taken)
    BY <1>0, <1>1, <1>2, <1>3 DEF CursorOnEdge, UpperEdges
  <1>6. \A gap \in Found(cursor, start) :
            /\ gap \in MaximalFree(Entitlement, Taken) /\ gap \in HzRange
            /\ gap.end - gap.start >= MinimumWidth
    <2>1. FreeBetween(Entitlement, Taken, cursor, start)
      BY <1>1, <1>2, <1>3, <1>4, <1>5 DEF FreeBetween
    <2>2. Taken \in SUBSET HzRange
      BY ListTypes
    <2> HIDE DEF start
    <2> QED BY <1>1, <1>3, <2>1, <2>2, FoundIsMaximal
  <1>7. SweepTypeOK'
    BY <1>0, <1>1, <1>3, <1>6, ListTypes DEF SweepTypeOK, inputs
  <1>8. Sorted' /\ CursorInside'
    BY <1>0, <1>2, <1>3 DEF Sorted, CursorInside, inputs, Entitlement
  <1>9. CursorOnEdge'
    <2>1. cursor' \in LowerEdges(Entitlement, Taken) \cup {Entitlement.end}
      BY <1>0, <1>1, <1>3 DEF CursorOnEdge, LowerEdges
    <2>2. Entitlement' = Entitlement
      BY <1>0 DEF Entitlement, inputs
    <2> QED BY <1>0, <2>1, <2>2 DEF CursorOnEdge, LowerEdges
  <1>10. PassedIsBehind'
    <2> SUFFICES ASSUME NEW j \in 1 .. i, cursor' < Entitlement.end
                 PROVE  occupied[j].end <= cursor' \/ occupied[j].start >= Entitlement.end
      <3>1. Entitlement' = Entitlement /\ occupied' = occupied
        BY <1>0 DEF inputs, Entitlement
      <3>2. i' - 1 = i
        BY <1>0, <1>1
      <3> QED BY <3>1, <3>2 DEF PassedIsBehind
    <2>1. occupied[j] \in HzRange
      BY <1>1, ListTypes
    <2>2. CASE j < i
      <3>1. occupied[j].end <= cursor \/ occupied[j].start >= Entitlement.end
        BY <1>0, <1>1, <1>2, <1>3, <2>2 DEF PassedIsBehind
      <3> QED BY <1>1, <1>3, <2>1, <3>1, RangeType
    <2>3. CASE j = i
      BY <1>2, <1>3, <2>3
    <2> QED BY <1>1, <2>2, <2>3
  <1>11. GapsAreMaximal'
    BY <1>0, <1>1, <1>6, ListTypes DEF GapsAreMaximal, inputs, Entitlement
  <1>12. SweptIsServed'
    BY <1>0, StaysServed DEF SweptIsServed, inputs
  <1>13. BelowCursorIsServed'
    <2> SUFFICES ASSUME NEW range \in HzRange, Wanted(e, range), range.start < cursor'
                 PROVE  Served(e, range)'
      BY <1>0, StaysServed DEF BelowCursorIsServed, inputs, Wanted
    <2>1. CASE range.start < cursor
      BY <1>0, <2>1, StaysServed DEF BelowCursorIsServed
    <2>2. CASE cursor <= range.start
      <3>1. /\ range.start < t.end /\ range.start < Entitlement.end
            /\ range.start \in Int /\ range.end \in Int /\ range.start < range.end
        BY <1>0, <1>1, <1>2, <1>3, <2>2, RangeType DEF Beyond, Higher, Lesser
      <3>2. range.end <= t.start
        BY <1>1, <1>2, <3>1 DEF Wanted, IsFree, Overlaps
      <3>3. start = t.start
        BY <1>2, <2>2, <3>1, <3>2, <1>1 DEF Higher
      <3>4. PICK gap \in Found(cursor, start) : Contains(gap, range)
        BY <1>1, <1>3, <2>2, <3>2, <3>3, FoundServes DEF Wanted
      <3>5. gap \in gaps' /\ gap \in MaximalFree(Entitlement, Taken)
        BY <1>0, <1>6, <3>4
      <3> QED BY <1>0, <3>4, <3>5 DEF Served, Entitlement, inputs
    <2> QED BY <1>1, <2>1, <2>2, RangeType
  <1> QED BY <1>7, <1>8, <1>9, <1>10, <1>11, <1>12, <1>13

\* Finishing an entitlement keeps it.
LEMMA FinishStep == SweepInv /\ Finish => SweepInv'
  <1> SUFFICES ASSUME SweepInv, Finish PROVE SweepInv' OBVIOUS
  <1> USE DEF SweepInv
  <1> DEFINE end == Entitlement.end
  <1>0. /\ UNCHANGED inputs /\ UNCHANGED Taken
        /\ gaps' = gaps \cup Found(cursor, end)
        /\ cursor' = Lower(entitlements, e + 1) /\ i' = 1 /\ e' = e + 1
        /\ Sweeping /\ i = Len(occupied) + 1
    BY ListTypes DEF Finish, inputs, Taken, Entitlement, SweepTypeOK
  <1>1. /\ Entitlement \in HzRange /\ e \in 1 .. Len(entitlements) /\ cursor \in Int
        /\ Entitlement.start \in Int /\ end \in Int
        /\ Entitlement.start <= cursor /\ cursor <= end
    BY <1>0, ListTypes, RangeType DEF SweepTypeOK, Sweeping, Entitlement, CursorInside
  <1>2. \A r \in Taken : cursor < end => (r.end <= cursor \/ r.start >= end)
    BY <1>0, ListTypes DEF PassedIsBehind, Taken, Elements
  <1>3. cursor < end =>
            cursor \in LowerEdges(Entitlement, Taken) /\ end \in UpperEdges(Entitlement, Taken)
    BY <1>0, <1>1 DEF CursorOnEdge, UpperEdges
  <1>4. \A gap \in Found(cursor, end) :
            /\ gap \in MaximalFree(Entitlement, Taken) /\ gap \in HzRange
            /\ gap.end - gap.start >= MinimumWidth
    <2>1. FreeBetween(Entitlement, Taken, cursor, end)
      BY <1>1, <1>2, <1>3 DEF FreeBetween
    <2>2. Taken \in SUBSET HzRange
      BY ListTypes
    <2> HIDE DEF end
    <2> QED BY <1>1, <2>1, <2>2, FoundIsMaximal
  <1>5. Sweeping' => Entitlement' \in HzRange /\ cursor' = Entitlement'.start
    BY <1>0, <1>1, ListTypes DEF Sweeping, Entitlement, Lower, inputs
  <1>6. cursor' \in Int
    <2>1. CASE Sweeping'
      BY <1>5, <2>1, RangeType
    <2>2. CASE ~Sweeping'
      BY <1>0, <2>2 DEF Lower, Sweeping, inputs
    <2> QED BY <2>1, <2>2
  <1>7. SweepTypeOK'
    BY <1>0, <1>1, <1>4, <1>6, ListTypes DEF SweepTypeOK, inputs
  <1>8. Sorted'
    BY <1>0 DEF Sorted, inputs
  <1>9. CursorInside' /\ CursorOnEdge'
    BY <1>5, RangeType DEF CursorInside, CursorOnEdge, LowerEdges
  <1>10. PassedIsBehind'
    BY <1>0 DEF PassedIsBehind
  <1>11. GapsAreMaximal'
    BY <1>0, <1>1, <1>4, ListTypes DEF GapsAreMaximal, inputs, Entitlement
  <1>12. SweptIsServed'
    <2> SUFFICES ASSUME NEW n \in DOMAIN entitlements, n < e + 1,
                        NEW range \in HzRange, Wanted(n, range)
                 PROVE  Served(n, range)'
      BY <1>0, StaysServed DEF SweptIsServed, inputs
    <2>1. CASE n < e
      BY <1>0, <2>1, StaysServed DEF SweptIsServed
    <2>2. CASE n = e /\ range.start < cursor
      BY <1>0, <2>2, StaysServed DEF BelowCursorIsServed
    <2>3. CASE n = e /\ cursor <= range.start
      <3>1. range.end <= end
        BY <2>3 DEF Wanted, IsFree, Contains, Entitlement
      <3>2. PICK gap \in Found(cursor, end) : Contains(gap, range)
        BY <1>1, <2>3, <3>1, FoundServes DEF Wanted
      <3>3. gap \in gaps' /\ gap \in MaximalFree(Entitlement, Taken)
        BY <1>0, <1>4, <3>2
      <3> QED BY <1>0, <2>3, <3>2, <3>3 DEF Served, Entitlement, inputs
    <2> QED BY <1>1, <2>1, <2>2, <2>3, ListTypes, RangeType
  <1>13. BelowCursorIsServed'
    <2> SUFFICES ASSUME Sweeping', NEW range \in HzRange, Wanted(e, range)',
                        range.start < cursor'
                 PROVE FALSE
      BY DEF BelowCursorIsServed
    <2>1. Entitlement'.start <= range.start
      BY DEF Wanted, IsFree, Contains, Entitlement
    <2> QED BY <2>1, <1>5, <1>6, RangeType
  <1> QED BY <1>7, <1>8, <1>9, <1>10, <1>11, <1>12, <1>13

\* Every step keeps it.
THEOREM NextSweepInv == SweepInv /\ [SweepNext]_sweepVars => SweepInv'
  <1>1. SweepInv /\ UNCHANGED sweepVars => SweepInv'
    BY DEF SweepInv, sweepVars, SweepTypeOK, Sorted, CursorInside, CursorOnEdge, PassedIsBehind,
           GapsAreMaximal, SweptIsServed, BelowCursorIsServed, Sweeping, Entitlement,
           Wanted, Served, Taken
  <1> QED BY <1>1, SkipStep, SubtractStep, FinishStep DEF SweepNext

\* The cursor and the gaps mean what SweepInv says at every pass of the sweep.
THEOREM SweepInvariant == SweepSpec => []SweepInv
  BY InitSweepInv, NextSweepInv, PTL DEF SweepSpec
-----------------------------------------------------------------------------
\* gaps.find offers no spectrum that any reservation holds.
THEOREM NothingHeldIsOffered == SweepSpec => []GapsAreFree
  <1>1. SweepInv => GapsAreFree
    BY DEF SweepInv, GapsAreMaximal, GapsAreFree, MaximalFree
  <1> QED BY <1>1, SweepInvariant, PTL

\* gaps.find hides no free spectrum that is wide enough.
THEOREM NothingFreeIsMissed == SweepSpec => []NothingMissed
  <1>1. SweepInv => NothingMissed
    <2> SUFFICES ASSUME SweepInv, NEW n \in DOMAIN entitlements, n < e,
                        NEW range \in RangesOver(entitlements[n].start .. entitlements[n].end),
                        Wanted(n, range)
                 PROVE  \E gap \in gaps : Contains(gap, range)
      BY DEF NothingMissed, Wanted
    <2>1. entitlements[n] \in HzRange
      BY ListTypes DEF SweepInv
    <2>2. range \in HzRange
      BY <2>1, RangeType DEF RangesOver, HzRange
    <2> QED BY <2>2 DEF SweepInv, SweptIsServed, Served
  <1> QED BY <1>1, SweepInvariant, PTL

\* Two maximal free ranges of one entitlement that share a Hz are the same.
LEMMA MaximalIsMaximal ==
    ASSUME NEW ent \in HzRange, NEW taken \in SUBSET HzRange,
           NEW g \in MaximalFree(ent, taken), NEW h \in MaximalFree(ent, taken),
           Overlaps(g, h)
    PROVE  g = h
  <1>1. /\ LowerEdges(ent, taken) \subseteq Int /\ UpperEdges(ent, taken) \subseteq Int
    BY RangeType DEF LowerEdges, UpperEdges
  <1>2. \A r \in {g, h} :
            /\ r \in [start : Int, end : Int] /\ r.start < r.end
            /\ r.start \in LowerEdges(ent, taken) /\ r.end \in UpperEdges(ent, taken)
            /\ IsFree(r, ent, taken)
    BY <1>1 DEF MaximalFree
  <1>3. ASSUME NEW r \in {g, h}, NEW s \in {g, h}, Overlaps(r, s)
        PROVE  ~(s.start < r.start) /\ ~(r.end < s.end)
    <2>1. /\ r.start \in Int /\ r.end \in Int /\ s.start \in Int /\ s.end \in Int
          /\ r.start < r.end /\ s.start < s.end
      BY <1>2
    <2>2. ent.start <= s.start /\ s.end <= ent.end /\ ent.start \in Int /\ ent.end \in Int
      BY <1>2, RangeType DEF IsFree, Contains
    <2>3. ~(s.start < r.start)
      <3> SUFFICES ASSUME s.start < r.start PROVE FALSE
        OBVIOUS
      <3>1. PICK t \in taken : r.start = t.end
        BY <1>2, <2>1, <2>2 DEF LowerEdges
      <3>2. t.start \in Int /\ t.end \in Int /\ t.start < t.end /\ ~Overlaps(s, t)
        BY <1>2, RangeType DEF IsFree
      <3> QED BY <1>3, <2>1, <3>1, <3>2 DEF Overlaps
    <2>4. ~(r.end < s.end)
      <3> SUFFICES ASSUME r.end < s.end PROVE FALSE
        OBVIOUS
      <3>1. PICK t \in taken : r.end = t.start
        BY <1>2, <2>1, <2>2 DEF UpperEdges
      <3>2. t.start \in Int /\ t.end \in Int /\ t.start < t.end /\ ~Overlaps(s, t)
        BY <1>2, RangeType DEF IsFree
      <3> QED BY <1>3, <2>1, <3>1, <3>2 DEF Overlaps
    <2> QED BY <2>3, <2>4
  <1>4. Overlaps(h, g)
    BY DEF Overlaps
  <1>5. g.start = h.start /\ g.end = h.end
    BY <1>2, <1>3, <1>4
  <1> QED BY <1>2, <1>5

\* When the sweep is done, what it has found is the free spectrum of
\* FreeSpectrum, no more and no less: gaps.find implements its specification.
THEOREM SweepFindsTheFreeSpectrum == SweepSpec => []ExactlyTheFreeSpectrum
  <1>1. SweepInv => ExactlyTheFreeSpectrum
    <2> SUFFICES ASSUME SweepInv, Done
                 PROVE  gaps = UNION {{range \in MaximalFree(entitlements[n], Taken) :
                                          range.end - range.start >= MinimumWidth} :
                                        n \in DOMAIN entitlements}
      BY DEF ExactlyTheFreeSpectrum
    <2>1. ASSUME NEW n \in DOMAIN entitlements,
                 NEW range \in MaximalFree(entitlements[n], Taken),
                 range.end - range.start >= MinimumWidth
          PROVE  range \in gaps
      <3>1. entitlements[n] \in HzRange /\ Taken \subseteq HzRange /\ n < e
        BY ListTypes DEF SweepInv, SweepTypeOK, Done, Sweeping
      <3>2. LowerEdges(entitlements[n], Taken) \subseteq Int
              /\ UpperEdges(entitlements[n], Taken) \subseteq Int
        BY <3>1, RangeType DEF LowerEdges, UpperEdges
      <3>3. range \in HzRange /\ Wanted(n, range)
        BY <2>1, <3>2 DEF MaximalFree, HzRange, RangesOver, Wanted
      <3>4. PICK gap \in gaps :
                gap \in MaximalFree(entitlements[n], Taken) /\ Contains(gap, range)
        BY <3>1, <3>3 DEF SweepInv, SweptIsServed, Served
      <3>5. Overlaps(gap, range)
        BY <3>1, <3>2, <3>3, <3>4, RangeType DEF MaximalFree, Contains, Overlaps
      <3> QED BY <2>1, <3>1, <3>4, <3>5, MaximalIsMaximal
    <2> QED BY <2>1 DEF SweepInv, GapsAreMaximal
  <1> QED BY <1>1, SweepInvariant, PTL
-----------------------------------------------------------------------------
(***************************************************************************)
(* The choice among the gaps.                                              *)
(***************************************************************************)
\* Integers with a lower bound have a lowest.
LEMMA LowestExists ==
    ASSUME NEW S \in SUBSET Int, S # {}, NEW bound \in Int, \A s \in S : bound <= s
    PROVE  \E s \in S : \A t \in S : s <= t
  <1> DEFINE T == {s - bound : s \in S}
  <1>1. T \subseteq Nat /\ T # {}
    <2>1. \A s \in S : s - bound \in Nat
      OBVIOUS
    <2>2. PICK s \in S : TRUE
      OBVIOUS
    <2> QED BY <2>1, <2>2
  <1>2. PICK x \in T : \A y \in T : ~(<<y, x>> \in OpToRel(<, Nat))
    <2> HIDE DEF T
    <2> QED BY <1>1, NatLessThanWellFounded, WFMin
  <1>3. \A y \in T : ~(y < x)
    BY <1>1, <1>2 DEF OpToRel
  <1>4. PICK s \in S : x = s - bound
    BY <1>2
  <1>5. \A t \in S : s <= t
    <2> TAKE t \in S
    <2>1. t - bound \in T
      OBVIOUS
    <2>2. ~(t - bound < s - bound)
      BY <1>3, <1>4, <2>1
    <2> QED BY <2>2
  <1> QED BY <1>5

\* Of the gaps that fit there is a lowest, because the entitlements are in order.
LEMMA LowestGap ==
    ASSUME SweepInv, NEW S \in SUBSET gaps, S # {}
    PROVE  Lowest(S) \in S /\ \A s \in S : Lowest(S).start <= s.start
  <1>1. \A gap \in gaps : gap \in HzRange
    BY DEF SweepInv, SweepTypeOK
  <1>2. \A gap \in gaps : entitlements # <<>> /\ entitlements[1].start \in Int
                            /\ entitlements[1].start <= gap.start
    <2> TAKE gap \in gaps
    <2>1. PICK n \in DOMAIN entitlements : gap \in MaximalFree(entitlements[n], Taken)
      BY DEF SweepInv, GapsAreMaximal
    <2>2. /\ n \in 1 .. Len(entitlements) /\ 1 \in DOMAIN entitlements
          /\ entitlements[n] \in HzRange /\ entitlements[1] \in HzRange
      BY ListTypes DEF SweepInv, SweepTypeOK
    <2>3. entitlements[1].start <= entitlements[n].start
      BY <2>2, RangeType DEF SweepInv, Sorted, SortedByStart
    <2>4. entitlements[n].start <= gap.start
      BY <2>1 DEF MaximalFree, IsFree, Contains
    <2> QED BY <1>1, <2>2, <2>3, <2>4, RangeType
  <1> DEFINE starts == {s.start : s \in S}
  <1>3. starts \in SUBSET Int /\ starts # {}
    BY <1>1, RangeType
  <1>4. entitlements[1].start \in Int /\ \A h \in starts : entitlements[1].start <= h
    BY <1>2
  <1>5. PICK h \in starts : \A k \in starts : h <= k
    <2> HIDE DEF starts
    <2> QED BY <1>3, <1>4, LowestExists
  <1>6. PICK r \in S : h = r.start
    BY <1>5
  <1>7. \A s \in S : r.start <= s.start
    BY <1>5, <1>6
  <1> QED BY <1>7 DEF Lowest

\* gaps.first_fit: where an entitlement has room for a width, some gap fits it,
\* and none that fits lies lower than that room.
LEMMA FirstFitTakesTheLowest == NoGap \notin HzRange /\ SweepSpec => []FirstFitIsLowest
  <1> SUFFICES ASSUME NoGap \notin HzRange PROVE SweepSpec => []FirstFitIsLowest
    OBVIOUS
  <1>1. ASSUME SweepInv, NothingMissed PROVE FirstFitIsLowest
    <2> SUFFICES ASSUME Done, NEW n \in DOMAIN entitlements,
                        NEW range \in RangesOver(entitlements[n].start .. entitlements[n].end),
                        IsFree(range, entitlements[n], Taken), Width(range) >= MinimumWidth
                 PROVE  /\ FirstFit(Width(range)) # NoGap
                        /\ FirstFit(Width(range)).start <= range.start
      BY DEF FirstFitIsLowest
    <2> DEFINE fitting == {gap \in gaps : Fits(gap, Width(range))}
    <2>1. n < e /\ entitlements[n] \in HzRange
      BY <1>1, ListTypes DEF SweepInv, SweepTypeOK, Done, Sweeping
    <2>2. range \in HzRange /\ range.end - range.start >= MinimumWidth
      BY <2>1, RangeType DEF HzRange, RangesOver, Width
    <2>3. PICK gap \in gaps : Contains(gap, range)
      BY <1>1, <2>1, <2>2 DEF NothingMissed
    <2>4. gap \in fitting /\ gap.start <= range.start
      <3>1. gap \in HzRange
        BY <1>1, <2>3 DEF SweepInv, SweepTypeOK
      <3> QED BY <2>2, <2>3, <3>1, RangeType DEF Contains, Fits, Width
    <2>5. Lowest(fitting) \in fitting /\ Lowest(fitting).start <= gap.start
      BY <1>1, <2>4, LowestGap
    <2>6. FirstFit(Width(range)) = Lowest(fitting)
      BY <2>4 DEF FirstFit
    <2>7. Lowest(fitting) \in HzRange /\ gap \in HzRange
      BY <1>1, <2>3, <2>5 DEF SweepInv, SweepTypeOK
    <2> QED BY <2>2, <2>4, <2>5, <2>6, <2>7, RangeType
  <1> QED BY <1>1, SweepInvariant, NothingFreeIsMissed, PTL
-----------------------------------------------------------------------------
(***************************************************************************)
(* The neighbours of a gap.                                                *)
(***************************************************************************)
\* Integers with an upper bound have a highest.
LEMMA HighestExists ==
    ASSUME NEW S \in SUBSET Int, S # {}, NEW bound \in Int, \A s \in S : s <= bound
    PROVE  \E s \in S : \A t \in S : s >= t
  <1> DEFINE T == {-s : s \in S}
  <1>1. T \in SUBSET Int /\ T # {} /\ -bound \in Int
    <2>1. PICK s \in S : TRUE
      OBVIOUS
    <2> QED BY <2>1
  <1>2. \A x \in T : -bound <= x
    OBVIOUS
  <1>3. PICK x \in T : \A y \in T : x <= y
    <2> HIDE DEF T
    <2> QED BY <1>1, <1>2, LowestExists
  <1>4. PICK s \in S : x = -s
    OBVIOUS
  <1>5. \A t \in S : s >= t
    <2> TAKE t \in S
    <2>1. -t \in T /\ s \in Int /\ t \in Int
      OBVIOUS
    <2> QED BY <1>3, <1>4, <2>1
  <1> QED BY <1>5

\* What is shown below an edge is the nearest reservation's end, or none is
\* there.
LEMMA NearestBelowIsNearest ==
    ASSUME Taken \subseteq HzRange, NEW edge \in Int, NearestBelow(edge) # NoEdge
    PROVE  /\ \E t \in Taken : t.end = NearestBelow(edge) /\ t.end <= edge
           /\ \A t \in Taken : t.end <= edge => t.end <= NearestBelow(edge)
  <1> DEFINE ends == {t.end : t \in {t \in Taken : t.end <= edge}}
  <1>1. ends \in SUBSET Int /\ \A s \in ends : s <= edge
    BY RangeType
  <1>2. ends # {} /\ NearestBelow(edge) = Max(ends)
    BY DEF NearestBelow
  <1>3. PICK s \in ends : \A t \in ends : s >= t
    <2> HIDE DEF ends
    <2> QED BY <1>1, <1>2, HighestExists
  <1>4. Max(ends) \in ends /\ \A t \in ends : Max(ends) >= t
    <2> HIDE DEF ends
    <2> QED BY <1>3 DEF Max
  <1>5. \A t \in Taken : t.end <= edge => t.end \in ends
    OBVIOUS
  <1>6. PICK t \in Taken : t.end <= edge /\ t.end = Max(ends)
    BY <1>4
  <1>7. \A u \in Taken : u.end <= edge => u.end <= Max(ends)
    <2> HIDE DEF ends
    <2> QED BY <1>1, <1>4, <1>5
  <1> HIDE DEF ends
  <1> QED BY <1>2, <1>6, <1>7

\* What is shown above an edge is the nearest reservation's start, or none is
\* there.
LEMMA NearestAboveIsNearest ==
    ASSUME Taken \subseteq HzRange, NEW edge \in Int, NearestAbove(edge) # NoEdge
    PROVE  /\ \E t \in Taken : t.start = NearestAbove(edge) /\ edge <= t.start
           /\ \A t \in Taken : edge <= t.start => NearestAbove(edge) <= t.start
  <1> DEFINE starts == {t.start : t \in {t \in Taken : t.start >= edge}}
  <1>1. starts \in SUBSET Int /\ \A s \in starts : edge <= s
    BY RangeType
  <1>2. starts # {} /\ NearestAbove(edge) = Min(starts)
    BY DEF NearestAbove
  <1>3. PICK s \in starts : \A t \in starts : s <= t
    <2> HIDE DEF starts
    <2> QED BY <1>1, <1>2, LowestExists
  <1>4. Min(starts) \in starts /\ \A t \in starts : Min(starts) <= t
    <2> HIDE DEF starts
    <2> QED BY <1>3 DEF Min
  <1>5. \A t \in Taken : edge <= t.start => t.start \in starts
    BY RangeType
  <1>6. PICK t \in Taken : edge <= t.start /\ t.start = Min(starts)
    BY <1>4, RangeType
  <1>7. \A u \in Taken : edge <= u.start => Min(starts) <= u.start
    <2> HIDE DEF starts
    <2> QED BY <1>1, <1>4, <1>5
  <1> HIDE DEF starts
  <1> QED BY <1>2, <1>6, <1>7

\* The neighbours that find notes beside a gap are the ones that bound it.
LEMMA NeighboursAreShown == SweepSpec => []NeighboursBoundTheGap
  <1>1. ASSUME SweepInv PROVE NeighboursBoundTheGap
    <2> SUFFICES ASSUME NEW gap \in gaps
                 PROVE  \E n \in DOMAIN entitlements :
                            /\ Contains(entitlements[n], gap)
                            /\ \/ gap.start = NearestBelow(gap.start)
                               \/ /\ gap.start = entitlements[n].start
                                  /\ \/ NearestBelow(gap.start) = NoEdge
                                     \/ NearestBelow(gap.start) < gap.start
                            /\ \/ gap.end = NearestAbove(gap.end)
                               \/ /\ gap.end = entitlements[n].end
                                  /\ \/ NearestAbove(gap.end) = NoEdge
                                     \/ NearestAbove(gap.end) > gap.end
      BY DEF NeighboursBoundTheGap
    <2>1. PICK n \in DOMAIN entitlements : gap \in MaximalFree(entitlements[n], Taken)
      BY <1>1 DEF SweepInv, GapsAreMaximal
    <2>2. /\ Taken \subseteq HzRange /\ gap \in HzRange /\ gap.start \in Int /\ gap.end \in Int
          /\ \A t \in Taken : t.start \in Int /\ t.end \in Int
      BY <1>1, ListTypes, RangeType DEF SweepInv, SweepTypeOK
    <2>3. /\ Contains(entitlements[n], gap)
          /\ gap.start \in LowerEdges(entitlements[n], Taken)
          /\ gap.end \in UpperEdges(entitlements[n], Taken)
      BY <2>1 DEF MaximalFree, IsFree
    <2>4. \/ gap.start = NearestBelow(gap.start)
          \/ /\ gap.start = entitlements[n].start
             /\ NearestBelow(gap.start) = NoEdge \/ NearestBelow(gap.start) < gap.start
      <3>1. CASE NearestBelow(gap.start) # NoEdge
        <4>1. PICK t \in Taken : t.end = NearestBelow(gap.start) /\ t.end <= gap.start
          BY <2>2, <3>1, NearestBelowIsNearest
        <4>2. \A u \in Taken : u.end <= gap.start => u.end <= NearestBelow(gap.start)
          BY <2>2, <3>1, NearestBelowIsNearest
        <4>3. CASE gap.start = entitlements[n].start
          BY <2>2, <4>1, <4>3
        <4>4. CASE \E u \in Taken : gap.start = u.end
          <5>1. gap.start <= NearestBelow(gap.start)
            BY <2>2, <4>2, <4>4
          <5> QED BY <2>2, <4>1, <5>1
        <4> QED BY <2>3, <4>3, <4>4 DEF LowerEdges
      <3>2. CASE NearestBelow(gap.start) = NoEdge
        <4>1. CASE gap.start = entitlements[n].start
          BY <3>2, <4>1
        <4>2. ASSUME NEW u \in Taken, gap.start = u.end
              PROVE  gap.start = NearestBelow(gap.start)
          <5> DEFINE ends == {t.end : t \in {t \in Taken : t.end <= gap.start}}
          <5>1. gap.start \in ends /\ ends \in SUBSET Int /\ \A s \in ends : s <= gap.start
            BY <2>2, <4>2
          <5>2. NearestBelow(gap.start) = Max(ends)
            BY <5>1 DEF NearestBelow
          <5>3. Max(ends) = gap.start
            <6> HIDE DEF ends
            <6>0. \A t \in ends : gap.start >= t
              BY <2>2, <5>1
            <6>1. Max(ends) \in ends /\ \A t \in ends : Max(ends) >= t
              <7>1. \E s \in ends : \A t \in ends : s >= t
                BY <5>1, <6>0
              <7> QED BY <7>1 DEF Max
            <6>2. Max(ends) \in Int /\ gap.start \in Int
              BY <2>2, <5>1, <6>1
            <6>3. Max(ends) >= gap.start /\ gap.start >= Max(ends)
              BY <5>1, <6>0, <6>1
            <6> HIDE DEF Max
            <6> QED BY <6>2, <6>3
          <5> QED BY <5>2, <5>3
        <4> QED BY <2>3, <4>1, <4>2 DEF LowerEdges
      <3> QED BY <3>1, <3>2
    <2>5. \/ gap.end = NearestAbove(gap.end)
          \/ /\ gap.end = entitlements[n].end
             /\ NearestAbove(gap.end) = NoEdge \/ NearestAbove(gap.end) > gap.end
      <3>1. CASE NearestAbove(gap.end) # NoEdge
        <4>1. PICK t \in Taken : t.start = NearestAbove(gap.end) /\ gap.end <= t.start
          BY <2>2, <3>1, NearestAboveIsNearest
        <4>2. \A u \in Taken : gap.end <= u.start => NearestAbove(gap.end) <= u.start
          BY <2>2, <3>1, NearestAboveIsNearest
        <4>3. CASE gap.end = entitlements[n].end
          BY <2>2, <4>1, <4>3
        <4>4. CASE \E u \in Taken : gap.end = u.start
          <5>1. NearestAbove(gap.end) <= gap.end
            BY <2>2, <4>2, <4>4
          <5> QED BY <2>2, <4>1, <5>1
        <4> QED BY <2>3, <4>3, <4>4 DEF UpperEdges
      <3>2. CASE NearestAbove(gap.end) = NoEdge
        <4>1. CASE gap.end = entitlements[n].end
          BY <3>2, <4>1
        <4>2. ASSUME NEW u \in Taken, gap.end = u.start
              PROVE  gap.end = NearestAbove(gap.end)
          <5> DEFINE starts == {t.start : t \in {t \in Taken : t.start >= gap.end}}
          <5>1. gap.end \in starts /\ starts \in SUBSET Int /\ \A s \in starts : gap.end <= s
            BY <2>2, <4>2
          <5>2. NearestAbove(gap.end) = Min(starts)
            BY <5>1 DEF NearestAbove
          <5>3. Min(starts) = gap.end
            <6> HIDE DEF starts
            <6>0. \A t \in starts : gap.end <= t
              BY <2>2, <5>1
            <6>1. Min(starts) \in starts /\ \A t \in starts : Min(starts) <= t
              <7>1. \E s \in starts : \A t \in starts : s <= t
                BY <5>1, <6>0
              <7> QED BY <7>1 DEF Min
            <6>2. Min(starts) \in Int /\ gap.end \in Int
              BY <2>2, <5>1, <6>1
            <6>3. Min(starts) <= gap.end /\ gap.end <= Min(starts)
              BY <5>1, <6>0, <6>1
            <6> HIDE DEF Min
            <6> QED BY <6>2, <6>3
          <5> QED BY <5>2, <5>3
        <4> QED BY <2>3, <4>1, <4>2 DEF UpperEdges
      <3> QED BY <3>1, <3>2
    <2> QED BY <2>3, <2>4, <2>5
  <1> QED BY <1>1, SweepInvariant, PTL

\* The screen tells the operator the truth about the gaps it shows: the choice
\* of first_fit and the neighbours noted by find are what the lists have there.
THEOREM GapsAreOfferedTruly == NoGap \notin HzRange /\ SweepSpec => []OffersAreTrue
  <1>1. FirstFitIsLowest /\ NeighboursBoundTheGap => OffersAreTrue
    BY DEF OffersAreTrue
  <1> QED BY <1>1, FirstFitTakesTheLowest, NeighboursAreShown, PTL
-----------------------------------------------------------------------------
(***************************************************************************)
(* The capacity summary.  A sum of widths is the number of Hz they cover   *)
(* when the ranges are apart, and the gaps are apart if the entitlements   *)
(* are.                                                                    *)
(***************************************************************************)
Apart(R) == \A r, s \in R : r # s => ~Overlaps(r, s)

\* The function that adds the widths of the subsets of R, as the fold does it.
Sums(R, F) ==
    F = [s \in SUBSET R |->
           IF s = {} THEN 0
           ELSE LET x == CHOOSE r \in s : TRUE IN Width(x) + F[s \ {x}]]

\* Finitely many ranges cover finitely many Hz.
LEMMA HzAreFinite ==
    ASSUME NEW R \in SUBSET HzRange, IsFiniteSet(R)
    PROVE  IsFiniteSet(HzOf(R))
  <1> DEFINE hz == [r \in R |-> r.start .. r.end - 1]
             covers == {r.start .. r.end - 1 : r \in R}
  <1>1. hz \in Surjection(R, covers)
    BY DEF Surjection
  <1>2. IsFiniteSet(covers)
    <2> HIDE DEF hz, covers
    <2> QED BY <1>1, FS_Surjection
  <1>3. \A T \in covers : IsFiniteSet(T)
    <2> SUFFICES ASSUME NEW r \in R PROVE IsFiniteSet(r.start .. r.end - 1)
      OBVIOUS
    <2>1. r.start \in Int /\ r.end - 1 \in Int
      BY RangeType
    <2> QED BY <2>1, FS_Interval
  <1>4. IsFiniteSet(UNION covers)
    <2> HIDE DEF covers
    <2> QED BY <1>2, <1>3, FS_UNION
  <1> QED BY <1>4 DEF HzOf

\* The Hz of ranges that are apart: those of any one of them and the rest.
LEMMA OneAndTheRest ==
    ASSUME NEW R \in SUBSET HzRange, IsFiniteSet(R), Apart(R), NEW x \in R
    PROVE  Cardinality(HzOf(R)) = Width(x) + Cardinality(HzOf(R \ {x}))
  <1> DEFINE own == x.start .. x.end - 1
             rest == HzOf(R \ {x})
  <1>1. x.start \in Int /\ x.end \in Int /\ x.start < x.end
    BY RangeType
  <1>2. IsFiniteSet(own) /\ Cardinality(own) = Width(x)
    <2>1. x.end - 1 \in Int /\ ~(x.start > x.end - 1) /\ (x.end - 1) - x.start + 1 = x.end - x.start
      BY <1>1
    <2> QED BY <1>1, <2>1, FS_Interval DEF Width
  <1>3. IsFiniteSet(rest)
    <2>1. R \ {x} \in SUBSET HzRange /\ IsFiniteSet(R \ {x})
      BY FS_RemoveElement
    <2> QED BY <2>1, HzAreFinite
  <1>4. own \cap rest = {}
    <2> SUFFICES ASSUME NEW h \in own, NEW r \in R \ {x}, h \in r.start .. r.end - 1
                 PROVE  FALSE
      BY DEF HzOf
    <2>1. ~Overlaps(x, r)
      BY DEF Apart
    <2>2. r.start \in Int /\ r.end \in Int
      BY RangeType
    <2> QED BY <1>1, <2>1, <2>2 DEF Overlaps
  <1>5. HzOf(R) = own \cup rest
    BY DEF HzOf
  <1>6. Cardinality(own \cup rest) = Cardinality(own) + Cardinality(rest) - 0
    <2> HIDE DEF own, rest
    <2> QED BY <1>2, <1>3, <1>4, FS_Union, FS_EmptySet
  <1>7. Cardinality(own) \in Int /\ Cardinality(rest) \in Int
    <2> HIDE DEF own, rest
    <2> QED BY <1>2, <1>3, FS_CardinalityType
  <1> HIDE DEF own, rest
  <1>8. Cardinality(HzOf(R)) = Width(x) + Cardinality(rest)
    BY <1>2, <1>5, <1>6, <1>7
  <1> QED BY <1>8 DEF rest

\* What the fold adds up is the number of Hz covered: the smallest subset for
\* which it were not would, less one range, be a smaller one.
LEMMA SumIsCount ==
    ASSUME NEW R \in SUBSET HzRange, IsFiniteSet(R), Apart(R), NEW F, Sums(R, F)
    PROVE  F[R] = Cardinality(HzOf(R))
  <1> DEFINE Miscounted == {s \in SUBSET R : F[s] # Cardinality(HzOf(s))}
             sizes == {Cardinality(s) : s \in Miscounted}
  <1>1. \A s \in SUBSET R : s \in SUBSET HzRange /\ IsFiniteSet(s) /\ Apart(s)
                              /\ Cardinality(s) \in Nat
    BY FS_Subset, FS_CardinalityType DEF Apart
  <1>2. SUFFICES ASSUME Miscounted # {} PROVE FALSE
    OBVIOUS
  <1>3. sizes \in SUBSET Int /\ sizes # {} /\ \A k \in sizes : 0 <= k
    BY <1>1, <1>2
  <1>4. PICK least \in sizes : \A k \in sizes : least <= k
    <2> HIDE DEF sizes
    <2> QED BY <1>3, LowestExists
  <1>5. PICK s \in Miscounted : Cardinality(s) = least
    OBVIOUS
  <1>6. \A t \in Miscounted : Cardinality(s) <= Cardinality(t)
    BY <1>4, <1>5
  <1>7. s # {}
    <2>1. F[{}] = 0
      BY DEF Sums
    <2>2. HzOf({}) = {}
      BY DEF HzOf
    <2> QED BY <2>1, <2>2, FS_EmptySet
  <1>8. PICK x \in s : x = CHOOSE r \in s : TRUE
    BY <1>7
  <1>9. F[s] = Width(x) + F[s \ {x}]
    BY <1>7, <1>8 DEF Sums
  <1>10. Cardinality(s \ {x}) = Cardinality(s) - 1
    BY <1>1, FS_RemoveElement
  <1>11. s \ {x} \in SUBSET R
    OBVIOUS
  <1>12. F[s \ {x}] = Cardinality(HzOf(s \ {x}))
    <2>1. ~(Cardinality(s) <= Cardinality(s \ {x}))
      BY <1>1, <1>10
    <2> QED BY <1>6, <1>11, <2>1
  <1>13. Cardinality(HzOf(s)) = Width(x) + Cardinality(HzOf(s \ {x}))
    BY <1>1, OneAndTheRest
  <1> QED BY <1>9, <1>12, <1>13

\* A sum of widths of ranges that are apart is the number of Hz they cover.
LEMMA WidthIsCount ==
    ASSUME NEW R \in SUBSET HzRange, IsFiniteSet(R), Apart(R)
    PROVE  WidthOf(R) = Cardinality(HzOf(R))
  <1> DEFINE counts == [s \in SUBSET R |-> Cardinality(HzOf(s))]
  <1>1. \A s \in SUBSET R :
            counts[s] = IF s = {} THEN 0
                        ELSE LET x == CHOOSE r \in s : TRUE IN Width(x) + counts[s \ {x}]
    <2> TAKE s \in SUBSET R
    <2>1. CASE s = {}
      <3>1. HzOf({}) = {}
        BY DEF HzOf
      <3> QED BY <2>1, <3>1, FS_EmptySet
    <2>2. CASE s # {}
      <3>1. PICK x \in s : x = CHOOSE r \in s : TRUE
        BY <2>2
      <3>2. s \in SUBSET HzRange /\ IsFiniteSet(s) /\ Apart(s)
        BY FS_Subset DEF Apart
      <3>3. Cardinality(HzOf(s)) = Width(x) + Cardinality(HzOf(s \ {x}))
        BY <3>2, OneAndTheRest
      <3>4. counts[s] = Width(x) + counts[s \ {x}]
        BY <3>3
      <3> QED BY <2>2, <3>1, <3>4
    <2> QED BY <2>1, <2>2
  <1>2. Sums(R, counts)
    <2>1. counts = [s \in SUBSET R |-> counts[s]]
      OBVIOUS
    <2> HIDE DEF counts
    <2> QED BY <1>1, <2>1 DEF Sums
  <1>3. \A F : Sums(R, F) => F[R] = Cardinality(HzOf(R))
    BY SumIsCount
  <1>4. WidthOf(R) = (CHOOSE F : Sums(R, F))[R]
    BY DEF WidthOf, MapThenSumSet, MapThenFoldSet, Sums
  <1> HIDE DEF counts
  <1>5. Sums(R, CHOOSE F : Sums(R, F))
    BY <1>2
  <1> QED BY <1>3, <1>4, <1>5

\* The sweep finds finitely many gaps.
LEMMA GapsAreFinite == SweepSpec => []IsFiniteSet(gaps)
  <1>1. SweepInit => IsFiniteSet(gaps)
    BY FS_EmptySet DEF SweepInit
  <1>2. IsFiniteSet(gaps) /\ [SweepNext]_sweepVars => IsFiniteSet(gaps)'
    <2>1. \A lo, hi : IsFiniteSet(Found(lo, hi))
      BY FS_EmptySet, FS_Singleton DEF Found
    <2>2. \A S, T : IsFiniteSet(S) /\ IsFiniteSet(T) => IsFiniteSet(S \cup T)
      BY FS_Union
    <2> SUFFICES ASSUME IsFiniteSet(gaps), [SweepNext]_sweepVars PROVE IsFiniteSet(gaps)'
      OBVIOUS
    <2>3. gaps' = gaps \/ \E lo, hi : gaps' = gaps \cup Found(lo, hi)
      BY DEF SweepNext, Skip, Subtract, Finish, sweepVars
    <2> QED BY <2>1, <2>2, <2>3
  <1> QED BY <1>1, <1>2, PTL DEF SweepSpec

\* The gaps are apart if the entitlements are.
LEMMA GapsAreApart ==
    ASSUME SweepInv,
           \A m, n \in DOMAIN entitlements :
               m # n => ~Overlaps(entitlements[m], entitlements[n])
    PROVE  Apart(gaps)
  <1> SUFFICES ASSUME NEW g \in gaps, NEW h \in gaps, Overlaps(g, h) PROVE g = h
    BY DEF Apart
  <1>1. g \in HzRange /\ h \in HzRange /\ Taken \subseteq HzRange
    BY ListTypes DEF SweepInv, SweepTypeOK
  <1>2. PICK m \in DOMAIN entitlements : g \in MaximalFree(entitlements[m], Taken)
    BY DEF SweepInv, GapsAreMaximal
  <1>3. PICK n \in DOMAIN entitlements : h \in MaximalFree(entitlements[n], Taken)
    BY DEF SweepInv, GapsAreMaximal
  <1>4. entitlements[m] \in HzRange /\ entitlements[n] \in HzRange
    BY ListTypes DEF SweepInv
  <1>5. m = n
    <2>1. Contains(entitlements[m], g) /\ Contains(entitlements[n], h)
      BY <1>2, <1>3 DEF MaximalFree, IsFree
    <2>2. Overlaps(entitlements[m], entitlements[n])
      BY <1>1, <1>4, <2>1, RangeType DEF Overlaps, Contains
    <2> QED BY <2>2
  <1> QED BY <1>1, <1>2, <1>3, <1>4, <1>5, MaximalIsMaximal

\* With every gap shown, the gaps cover what nobody holds of the entitlements.
LEMMA GapsCoverTheRest ==
    ASSUME SweepInv, NothingMissed, Done, MinimumWidth = 1
    PROVE  HzOf(gaps) = HzOf(Elements(entitlements)) \ HzOf(Taken)
  <1>1. /\ gaps \subseteq HzRange /\ Taken \subseteq HzRange
        /\ \A n \in DOMAIN entitlements : entitlements[n] \in HzRange /\ n < e
    BY ListTypes DEF SweepInv, SweepTypeOK, Done, Sweeping
  <1>2. ASSUME NEW gap \in gaps, NEW h \in gap.start .. gap.end - 1
        PROVE  h \in HzOf(Elements(entitlements)) /\ h \notin HzOf(Taken)
    <2>1. PICK n \in DOMAIN entitlements : IsFree(gap, entitlements[n], Taken)
      BY DEF SweepInv, GapsAreMaximal, MaximalFree
    <2>2. gap \in HzRange /\ entitlements[n] \in HzRange
      BY <1>1
    <2>3. h \in entitlements[n].start .. entitlements[n].end - 1
      BY <2>1, <2>2, RangeType DEF IsFree, Contains
    <2>4. ASSUME NEW t \in Taken PROVE h \notin t.start .. t.end - 1
      <3>1. ~Overlaps(gap, t) /\ t \in HzRange
        BY <1>1, <2>1 DEF IsFree
      <3> QED BY <2>2, <3>1, RangeType DEF Overlaps
    <2> QED BY <2>3, <2>4 DEF HzOf, Elements
  <1>3. ASSUME NEW n \in DOMAIN entitlements,
               NEW h \in entitlements[n].start .. entitlements[n].end - 1,
               h \notin HzOf(Taken)
        PROVE  h \in HzOf(gaps)
    <2> DEFINE one == FrequencyRange(h, h + 1)
    <2>1. entitlements[n] \in HzRange /\ n < e
      BY <1>1
    <2>2. entitlements[n].start \in Int /\ entitlements[n].end \in Int
      BY <2>1, RangeType
    <2>3. one.start = h /\ one.end = h + 1 /\ h \in Int
      BY <2>2 DEF FrequencyRange
    <2>4. one \in RangesOver(entitlements[n].start .. entitlements[n].end)
      BY <2>2 DEF FrequencyRange, RangesOver
    <2>5. IsFree(one, entitlements[n], Taken)
      <3>1. Contains(entitlements[n], one)
        BY <2>2, <2>3 DEF Contains
      <3>2. ASSUME NEW t \in Taken PROVE ~Overlaps(one, t)
        <4>1. h \notin t.start .. t.end - 1
          BY <1>3 DEF HzOf
        <4>2. t.start \in Int /\ t.end \in Int
          BY <1>1, RangeType
        <4> QED BY <2>3, <4>1, <4>2 DEF Overlaps
      <3> QED BY <3>1, <3>2 DEF IsFree
    <2>6. one.end - one.start >= MinimumWidth
      BY <2>3
    <2> HIDE DEF one
    <2>7. PICK gap \in gaps : Contains(gap, one)
      BY <2>1, <2>4, <2>5, <2>6 DEF NothingMissed
    <2>8. h \in gap.start .. gap.end - 1
      BY <1>1, <2>3, <2>7, RangeType DEF Contains
    <2> QED BY <2>8 DEF HzOf
  <1> QED BY <1>2, <1>3 DEF HzOf, Elements

\* gaps.summarise: with the default minimum width of find, and assignments of a
\* direction that are disjoint (excl_assignment_overlap), total, free and used
\* are the numbers of Hz entitled, entitled and unheld, entitled and held.
THEOREM CapacityIsCounted ==
    (/\ MinimumWidth = 1
     /\ \A s \in EntitlementLists : \A m, n \in DOMAIN s : m # n => ~Overlaps(s[m], s[n]))
       => (SweepSpec => []CapacityAddsUp)
  <1> SUFFICES ASSUME MinimumWidth = 1,
                      \A s \in EntitlementLists :
                          \A m, n \in DOMAIN s : m # n => ~Overlaps(s[m], s[n])
               PROVE  SweepSpec => []CapacityAddsUp
    OBVIOUS
  <1>1. ASSUME SweepInv, NothingMissed, IsFiniteSet(gaps) PROVE CapacityAddsUp
    <2> DEFINE granted == Elements(entitlements)
               entitled == HzOf(granted)
               held == HzOf(Taken)
    <2> SUFFICES ASSUME Done
                 PROVE  /\ TotalHz = Cardinality(entitled)
                        /\ FreeHz = Cardinality(entitled \ held)
                        /\ UsedHz = Cardinality(entitled \cap held)
      BY DEF CapacityAddsUp
    <2>1. \A m, n \in DOMAIN entitlements :
              m # n => ~Overlaps(entitlements[m], entitlements[n])
      BY <1>1 DEF SweepInv, SweepTypeOK
    <2>2. granted \in SUBSET HzRange /\ Apart(granted)
      BY <1>1, <2>1, ListTypes DEF SweepInv, Elements, Apart
    <2>3. IsFiniteSet(granted)
      <3>1. Len(entitlements) \in Nat /\ DOMAIN entitlements = 1 .. Len(entitlements)
        BY <1>1, ListTypes DEF SweepInv
      <3>2. entitlements \in Seq(HzRange)
        BY <1>1, ListTypes DEF SweepInv
      <3>3. entitlements \in Surjection(1 .. Len(entitlements), granted)
        BY <3>1, <3>2 DEF Surjection, Elements
      <3>4. IsFiniteSet(1 .. Len(entitlements))
        BY <3>1, FS_Interval
      <3> HIDE DEF granted
      <3> QED BY <3>3, <3>4, FS_Surjection
    <2>4. IsFiniteSet(entitled) /\ TotalHz = Cardinality(entitled)
      BY <2>2, <2>3, HzAreFinite, WidthIsCount DEF TotalHz
    <2>5. FreeHz = Cardinality(entitled \ held)
      <3>1. gaps \in SUBSET HzRange
        BY <1>1 DEF SweepInv, SweepTypeOK
      <3>2. FreeHz = Cardinality(HzOf(gaps))
        BY <1>1, <2>1, <3>1, GapsAreApart, WidthIsCount DEF FreeHz
      <3> QED BY <1>1, <3>2, GapsCoverTheRest
    <2> HIDE DEF entitled, held
    <2>6. Cardinality(entitled \ held) = Cardinality(entitled) - Cardinality(entitled \cap held)
      BY <2>4, FS_Difference
    <2>7. Cardinality(entitled) \in Int /\ Cardinality(entitled \cap held) \in Int
      <3>1. IsFiniteSet(entitled) /\ IsFiniteSet(entitled \cap held)
        BY <2>4, FS_Intersection
      <3>2. \A S : IsFiniteSet(S) => Cardinality(S) \in Nat
        BY FS_CardinalityType
      <3> QED BY <3>1, <3>2
    <2> QED BY <2>4, <2>5, <2>6, <2>7 DEF UsedHz
  <1> QED BY <1>1, SweepInvariant, NothingFreeIsMissed, GapsAreFinite, PTL
-----------------------------------------------------------------------------
(***************************************************************************)
(* The engineering arithmetic.                                             *)
(***************************************************************************)
LEMMA HundredthsCovered ==
    ASSUME NEW n \in Int PROVE CeilingOf(n, 100) \in Int /\ CeilingOf(n, 100) * 100 >= n
BY DEF CeilingOf

\* A half rounded up is enough twice.
LEMMA HalvesCovered ==
    ASSUME NEW n \in Int PROVE CeilingOf(n, 2) \in Int /\ CeilingOf(n, 2) * 2 >= n
BY DEF CeilingOf

\* A request resolves to a bandwidth of at least one Hz.
LEMMA BandwidthType ==
    ASSUME NEW request \in BandwidthRequest
    PROVE  Bandwidth(request) \in Nat \ {0}
  <1>1. CASE request.mode = "SYMBOL_RATE"
    <2> DEFINE n == request.size * (100 + request.rolloff)
    <2>1. request.size \in Nat \ {0} /\ request.rolloff \in 0 .. 100
      BY DEF BandwidthRequest
    <2>2. n \in Int /\ n >= 1
      BY <2>1
    <2>3. CeilingOf(n, 100) \in Nat \ {0}
      <3> HIDE DEF n
      <3> QED BY <2>2, HundredthsCovered
    <2> QED BY <1>1, <2>3 DEF Bandwidth, OccupiedBandwidth
  <1>2. CASE request.mode # "SYMBOL_RATE"
    BY <1>2 DEF Bandwidth, BandwidthRequest
  <1> QED BY <1>1, <1>2

\* A percentage of a bandwidth is a width, and no less than the percentage.
LEMMA PercentType ==
    ASSUME NEW bandwidth \in Nat, NEW percent \in Nat
    PROVE  /\ PercentOf(bandwidth, percent) \in Nat
           /\ PercentOf(bandwidth, percent) * 100 >= bandwidth * percent
  <1> DEFINE n == bandwidth * percent
  <1>1. n \in Nat
    OBVIOUS
  <1>2. CeilingOf(n, 100) \in Nat /\ CeilingOf(n, 100) * 100 >= n
    <2> HIDE DEF n
    <2> QED BY <1>1 DEF CeilingOf
  <1> QED BY <1>2 DEF PercentOf

\* A policy resolves to two widths, no less than its percentages and its fixed
\* widths where it has any.
LEMMA GuardsType ==
    ASSUME NEW policy \in GuardPolicySpec, NEW bandwidth \in Nat
    PROVE  LET guards == ResolveGuards(policy, bandwidth) IN
           /\ guards.left \in Nat /\ guards.right \in Nat
           /\ policy.mode \in {"PERCENT_OF_OCCUPIED", "MAX_OF_FIXED_AND_PERCENT"} =>
                 /\ guards.left >= PercentOf(bandwidth, policy.percentLeft)
                 /\ guards.right >= PercentOf(bandwidth, policy.percentRight)
           /\ policy.mode \in {"FIXED", "MAX_OF_FIXED_AND_PERCENT"} =>
                 /\ guards.left >= policy.fixedLeft
                 /\ guards.right >= policy.fixedRight
  <1>1. /\ policy.mode \in {"NONE", "FIXED", "PERCENT_OF_OCCUPIED", "MAX_OF_FIXED_AND_PERCENT"}
        /\ policy.fixedLeft \in Nat /\ policy.fixedRight \in Nat
        /\ policy.percentLeft \in Nat /\ policy.percentRight \in Nat
    BY DEF GuardPolicySpec
  <1>2. /\ PercentOf(bandwidth, policy.percentLeft) \in Nat
        /\ PercentOf(bandwidth, policy.percentRight) \in Nat
    BY <1>1, PercentType
  <1> QED
    BY <1>1, <1>2 DEF ResolveGuards, NoGuard, GuardWidths, Greater

\* Translation moves ranges without changing their width, and back again ...
LEMMA TranslationType ==
    ASSUME NEW r \in AnyRange, NEW spec \in TranslationSpec
    PROVE  /\ Translate(r, spec) \in AnyRange
           /\ Width(Translate(r, spec)) = Width(r)
           /\ Untranslate(Translate(r, spec), spec) = r
BY DEF AnyRange, RangesOver, TranslationSpec, TranslationMethod, Translate, Untranslate,
       Shift, Reflect, FrequencyRange, Width

\* ... and two images overlap exactly when their originals do.
LEMMA TranslationKeepsApart ==
    ASSUME NEW a \in AnyRange, NEW b \in AnyRange, NEW spec \in TranslationSpec
    PROVE  Overlaps(Translate(a, spec), Translate(b, spec)) <=> Overlaps(a, b)
BY DEF AnyRange, RangesOver, TranslationSpec, TranslationMethod, Translate,
       Shift, Reflect, FrequencyRange, Overlaps

-----------------------------------------------------------------------------
(***************************************************************************)
(* A proposal.                                                             *)
(***************************************************************************)
PolicyOf(input) == IF input.override = None THEN SatnetPolicy ELSE input.override

\* The policy of an input is a guard policy.
LEMMA PolicyType == ASSUME NEW input \in Input PROVE PolicyOf(input) \in GuardPolicySpec
BY ConfigAssumption DEF PolicyOf, Input

\* The uplink is placed as typed ...
LEMMA UplinkOf ==
    ASSUME NEW input \in Input
    PROVE  LET up     == SidesOf(input)["UPLINK"]
               guards == GuardsFor(input)
           IN  /\ up.occupied \in AnyRange /\ up.allocated \in AnyRange
               /\ Width(up.occupied) >= Bandwidth(input.request)
               /\ up.occupied.start - up.allocated.start = guards.left
               /\ up.allocated.end - up.occupied.end = guards.right
  <1> DEFINE bandwidth == Bandwidth(input.request)
             half      == HalfWidth(bandwidth)
             guards    == GuardsFor(input)
             up        == SidesOf(input)["UPLINK"]
  <1>1. input.request \in BandwidthRequest /\ input.centre \in Int
    BY ConfigAssumption DEF Input
  <1>2. bandwidth \in Nat \ {0}
    BY <1>1, BandwidthType
  <1>3. half \in Int /\ 2 * half >= bandwidth
    BY <1>2, HalvesCovered DEF HalfWidth
  <1>4. guards.left \in Nat /\ guards.right \in Nat
    BY <1>2, PolicyType, GuardsType DEF GuardsFor, PolicyOf
  <1>5. /\ up.occupied  = FrequencyRange(input.centre - half, input.centre + half)
        /\ up.allocated = Expanded(up.occupied, guards.left, guards.right)
    BY DEF SidesOf, PlaceBothSides, Place, OccupiedRange, AllocatedRange
  <1> HIDE DEF bandwidth, half, guards, up
  <1>6. /\ up.occupied \in AnyRange /\ up.allocated \in AnyRange
        /\ Width(up.occupied) >= bandwidth
        /\ up.occupied.start - up.allocated.start = guards.left
        /\ up.allocated.end - up.occupied.end = guards.right
    BY <1>1, <1>2, <1>3, <1>4, <1>5
       DEF AnyRange, RangesOver, FrequencyRange, Expanded, Width
  <1> QED BY <1>6 DEF bandwidth, guards, up

\* ... and the downlink is its translation.
LEMMA DownlinkOf ==
    ASSUME NEW input \in Input
    PROVE  \A part \in {"occupied", "allocated"} :
              SidesOf(input)["DOWNLINK"][part] =
                  Translate(SidesOf(input)["UPLINK"][part], Translation)
BY DEF SidesOf, PlaceBothSides, Place, ImageOf, Moved

\* The two sides of an allocation are ranges.
LEMMA SidesType ==
    ASSUME NEW input \in Input, NEW leg \in Leg
    PROVE  SidesOf(input)[leg].allocated \in AnyRange
BY UplinkOf, DownlinkOf, TranslationType, ConfigAssumption DEF Leg

\* Findings are of the kinds there are.
LEMMA FindingsType ==
    ASSUME NEW input \in Input
    PROVE  FindingsFor(SidesOf(input), input.validity) \subseteq Finding
  <1>1. \A leg \in Leg : On(leg, Code) \subseteq Finding
    BY DEF On, Finding
  <1>2. \A assignment, requested :
            CheckContainment(assignment, requested) \subseteq Code
    BY DEF CheckContainment, Code
  <1>3. \A leg, proposed, requested : CheckConflicts(leg, proposed, requested) \subseteq Code
    BY DEF CheckConflicts, Code
  <1>4. \A leg, codes : codes \subseteq Code => On(leg, codes) \subseteq On(leg, Code)
    BY DEF On
  <1>5. {"NO_ACTIVE_ASSIGNMENT"} \subseteq Code /\ CanonicalLeg \in Leg
    BY ConfigAssumption DEF Code
  <1> QED
    BY <1>1, <1>2, <1>3, <1>4, <1>5 DEF FindingsFor
-----------------------------------------------------------------------------
(***************************************************************************)
(* The inductive invariant.  The screen shows what the arithmetic makes of *)
(* its input; what is being saved, and what was saved as a draft, was      *)
(* placed by that arithmetic too; what passed the checks of create lies    *)
(* inside the Satnet and the Beam and clear of what was active, until it   *)
(* is written; and every row of an allocation has its image on the other   *)
(* leg.                                                                    *)
(***************************************************************************)
ScreenIsProposal == screen # None => screen.sides = SidesOf(screen.input)

\* An allocation is a placement of something that may be typed.
IsPlacement(a) == \E input \in Input : a.sides = SidesOf(input) /\ a.validity = input.validity

RecordsArePlacements ==
    /\ \A path \in Path : drafts[path] # None =>
          /\ IsPlacement(drafts[path])
          /\ \A leg \in Leg : drafts[path].assignments[leg] # None
    /\ saving # None => IsPlacement(saving.allocation) /\ drafts[saving.path] = None

\* What is saved as operational has passed the checks of create.
SavedIsJudged ==
    saving # None /\ saving.operational =>
        /\ PeriodContains(SatnetValidity, saving.allocation.validity)
        /\ PeriodContains(BeamValidity, saving.allocation.validity)
        /\ \A leg \in Leg, r \in saving.active :
              r.resource \in ResourcesOf[leg] =>
                  ~InTheWay(r, saving.allocation.sides[leg].allocated, saving.allocation.validity)

\* r and s are the two ends of one transmission.
Image(r, s) ==
    /\ r.leg # s.leg /\ r.path = s.path
    /\ IF r.leg = "UPLINK" THEN s.allocated = Translate(r.allocated, Translation)
       ELSE r.allocated = Translate(s.allocated, Translation)

Paired == BothLegsCompete => \A r \in rows : r.path \in Path => \E s \in rows : Image(r, s)

IInv ==
    /\ TypeOK /\ ScreenIsProposal /\ RecordsArePlacements /\ SavedIsJudged
    /\ Paired /\ HeldWithinItsParents

\* The screen is empty at the start.
LEMMA InitInvariant == Init => IInv
BY ConfigAssumption
   DEF Init, IInv, TypeOK, ScreenIsProposal, RecordsArePlacements, SavedIsJudged, Paired,
       HeldWithinItsParents, Reply

\* What is shown is a proposal for something that may be typed.
LEMMA ShowsType ==
    ASSUME NEW input \in Input, NEW offered \in BOOLEAN,
           screen' = None \/ screen' = Proposal(input, offered)
    PROVE  /\ screen' # None =>
                 /\ screen'.input \in Input /\ screen'.offered \in BOOLEAN
                 /\ screen'.findings \subseteq Finding
                 /\ \A leg \in Leg : screen'.sides[leg].allocated \in AnyRange
           /\ ScreenIsProposal'
BY SidesType, FindingsType DEF Proposal, ScreenIsProposal
-----------------------------------------------------------------------------
(***************************************************************************)
(* What a save establishes.                                                *)
(***************************************************************************)
\* A period inside an intersection is inside each of its parts.
LEMMA WithinEachParent ==
    ASSUME NEW a \in AnyPeriod, NEW b \in AnyPeriod, NEW c \in AnyPeriod,
           NEW p \in AnyPeriod, PeriodContains(Intersect({a, b, c}), p)
    PROVE  PeriodContains(a, p) /\ PeriodContains(b, p) /\ PeriodContains(c, p)
  <1> DEFINE starts == {q.start : q \in {a, b, c}}
             ends   == {q.end : q \in {a, b, c}} \ {NoEnd}
  <1>1. \A q \in {a, b, c} : q.start \in Nat /\ q.end \in Nat \cup {NoEnd}
    BY DEF AnyPeriod, PeriodsOver
  <1>2. starts = {a.start, b.start, c.start}
    OBVIOUS
  <1>3. ends = {a.end, b.end, c.end} \ {NoEnd}
    OBVIOUS
  <1>4. \E x \in starts : \A y \in starts : y <= x
    BY <1>1, <1>2
  <1>5. ends # {} => \E x \in ends : \A y \in ends : x <= y
    BY <1>1, <1>3 DEF NoEnd
  <1>6. Latest(starts) \in starts /\ \A y \in starts : y <= Latest(starts)
    BY <1>4 DEF Latest
  <1>7. ends # {} => Earliest(ends) \in ends /\ \A y \in ends : Earliest(ends) <= y
    BY <1>5 DEF Earliest
  <1>8. \A q \in {a, b, c} : q.start \in starts /\ (q.end = NoEnd \/ q.end \in ends)
    OBVIOUS
  <1> DEFINE latest == Latest(starts)
             earliest == IF ends = {} THEN NoEnd ELSE Earliest(ends)
  <1>9. \/ Intersect({a, b, c}) = NoPeriod
        \/ Intersect({a, b, c}) = Period(latest, earliest)
    BY DEF Intersect
  <1>10. p.start \in Nat /\ p.end \in Nat \cup {NoEnd} /\ (p.end = NoEnd \/ p.start < p.end)
    BY DEF AnyPeriod, PeriodsOver
  <1>11. Intersect({a, b, c}) # NoPeriod
    BY <1>10 DEF PeriodContains, NoPeriod, NoEnd
  <1>12. latest \in Nat /\ earliest \in Nat \cup {NoEnd}
    BY <1>1, <1>2, <1>3, <1>6, <1>7
  <1>13. latest <= p.start /\ (earliest = NoEnd \/ (p.end # NoEnd /\ p.end <= earliest))
    BY <1>9, <1>11 DEF PeriodContains, Period
  <1>14. \A q \in {a, b, c} : PeriodContains(q, p)
    <2> TAKE q \in {a, b, c}
    <2>1. q.start <= latest
      BY <1>6, <1>8
    <2>2. q.end = NoEnd \/ (earliest # NoEnd /\ earliest <= q.end)
      BY <1>1, <1>3, <1>7, <1>8
    <2> HIDE DEF latest, earliest
    <2> QED BY <1>1, <1>10, <1>12, <1>13, <2>1, <2>2 DEF PeriodContains, NoEnd
  <1> QED BY <1>14

\* The assignment a leg is placed in is one of the direction.
LEMMA AssignmentType ==
    ASSUME NEW leg \in Leg, NEW n \in DOMAIN Assignments[leg]
    PROVE  Assignments[leg][n] \in [bounds : AnyRange, period : AnyPeriod]
  <1> DEFINE list == Assignments[leg]
             elem == [bounds : AnyRange, period : AnyPeriod]
  <1>1. list \in Seq(elem) /\ n \in DOMAIN list
    BY ConfigAssumption
  <1> HIDE DEF list, elem
  <1>2. list[n] \in elem
    BY <1>1
  <1> QED BY <1>2 DEF list, elem

\* The assignment that is looked at is one of the leg's.
LEMMA AssignmentOfLeg ==
    ASSUME NEW leg \in Leg, AssignmentFor(leg, now) # None
    PROVE  \E n \in DOMAIN Assignments[leg] : AssignmentFor(leg, now) = Assignments[leg][n]
  <1> DEFINE active == ActiveAssignments(leg, now)
             first  == CHOOSE n \in active : \A m \in active : n <= m
  <1>1. active # {} /\ AssignmentFor(leg, now) = Assignments[leg][first]
    BY DEF AssignmentFor
  <1>2. active \subseteq DOMAIN Assignments[leg] /\ active \subseteq Nat
    <2>1. Assignments[leg] \in Seq([bounds : AnyRange, period : AnyPeriod])
      BY ConfigAssumption
    <2> QED BY <2>1 DEF ActiveAssignments
  <1> HIDE DEF active
  <1>3. \E n \in active : \A m \in active : n <= m
    <2>1. \E n \in active : \A m \in active : <<m, n>> \notin OpToRel(<, Nat)
      BY <1>1, <1>2, WFMin, NatLessThanWellFounded, Zenon
    <2>2. \A m, k \in Nat : <<m, k>> \notin OpToRel(<, Nat) => ~(m < k)
      BY Zenon DEF OpToRel
    <2>3. PICK n \in active : \A m \in active : ~(m < n)
      BY <1>2, <2>1, <2>2, Zenon
    <2>4. \A m \in active : n <= m
      BY <1>2, <2>3
    <2> QED BY <2>4
  <1>4. first \in active
    BY <1>3
  <1> QED BY <1>1, <1>2, <1>4

\* Two findings can only come from their own check.
LEMMA NothingFound ==
    ASSUME NEW sides, NEW requested, FindingsFor(sides, requested) = {}
    PROVE  /\ \A leg \in Leg : AssignmentFor(leg, now) # None
           /\ CheckContainment(AssignmentFor(CanonicalLeg, now), requested) = {}
           /\ \A leg \in Leg : CheckConflicts(leg, sides[leg].allocated, requested) = {}
  <1>1. \A leg, codes : On(leg, codes) = {} => codes = {}
    BY DEF On
  <1>2. CanonicalLeg \in Leg
    BY ConfigAssumption
  <1>3. {"NO_ACTIVE_ASSIGNMENT"} # {}
    OBVIOUS
  <1> QED BY <1>1, <1>2, <1>3 DEF FindingsFor

\* What create judges operational and passes lies inside the Satnet and the Beam, clear
\* of whatever is active.
LEMMA PassedIsJudged ==
    ASSUME IInv, NEW input \in Input, FindingsFor(SidesOf(input), input.validity) = {}
    PROVE  /\ PeriodContains(SatnetValidity, input.validity)
           /\ PeriodContains(BeamValidity, input.validity)
           /\ \A leg \in Leg, r \in rows :
                 ActiveAt(r.period, now) /\ r.resource \in ResourcesOf[leg] =>
                     ~InTheWay(r, SidesOf(input)[leg].allocated, input.validity)
  <1> DEFINE sides  == SidesOf(input)
             period == input.validity
  <1>1. period \in AnyPeriod
    BY ConfigAssumption DEF Input
  <1>2. \A leg \in Leg :
           \E n \in DOMAIN Assignments[leg] : AssignmentFor(leg, now) = Assignments[leg][n]
    BY NothingFound, AssignmentOfLeg
  <1>3. AssignmentFor(CanonicalLeg, now).period \in AnyPeriod
    <2>1. CanonicalLeg \in Leg
      BY ConfigAssumption
    <2>2. PICK n \in DOMAIN Assignments[CanonicalLeg] :
             AssignmentFor(CanonicalLeg, now) = Assignments[CanonicalLeg][n]
      BY <1>2, <2>1
    <2>3. Assignments[CanonicalLeg][n] \in [bounds : AnyRange, period : AnyPeriod]
      BY <2>1, AssignmentType
    <2> QED BY <2>2, <2>3
  <1>4. PeriodContains(Intersect({SatnetValidity, BeamValidity,
                                  AssignmentFor(CanonicalLeg, now).period}), period)
    <2>1. CheckContainment(AssignmentFor(CanonicalLeg, now), period) = {}
      BY NothingFound
    <2> QED BY <2>1 DEF CheckContainment
  <1>5. SatnetValidity \in AnyPeriod /\ BeamValidity \in AnyPeriod
    BY ConfigAssumption
  <1>6. PeriodContains(SatnetValidity, period) /\ PeriodContains(BeamValidity, period)
    BY <1>1, <1>3, <1>4, <1>5, WithinEachParent
  <1>7. ASSUME NEW leg \in Leg, NEW r \in rows, ActiveAt(r.period, now),
               r.resource \in ResourcesOf[leg]
        PROVE  ~InTheWay(r, sides[leg].allocated, period)
    <2>1. CheckConflicts(leg, sides[leg].allocated, period) = {}
      BY NothingFound
    <2>2. r \in ReservationsOn(leg, now)
      BY <1>7 DEF ReservationsOn
    <2> QED BY <2>1, <2>2 DEF CheckConflicts
  <1> QED BY <1>6, <1>7

\* The rows of a placement that reserve accepts are rows inside their assignments ...
LEMMA ReservedRows ==
    ASSUME NEW path \in Path, NEW a, IsAllocation(a), Entitled(a),
           \A leg \in Leg : a.assignments[leg] # None,
           NEW r \in RowsFor(path, a.sides, a.validity)
    PROVE  /\ r \in Row /\ r.path = path /\ r.period = a.validity
           /\ \E n \in DOMAIN Assignments[r.leg] :
                 /\ Contains(Assignments[r.leg][n].bounds, r.allocated)
                 /\ PeriodContains(Assignments[r.leg][n].period, r.period)
  <1>1. /\ r.path = path /\ r.leg \in Leg /\ r.resource \in ResourcesOf[r.leg]
        /\ r.allocated = a.sides[r.leg].allocated /\ r.period = a.validity
        /\ r = [path |-> r.path, leg |-> r.leg, resource |-> r.resource,
                allocated |-> r.allocated, period |-> r.period]
    BY DEF RowsFor
  <1>2. a.sides[r.leg].allocated \in AnyRange /\ a.validity \in AnyPeriod
    BY <1>1, ConfigAssumption DEF IsAllocation
  <1>3. r \in Row
    BY <1>1, <1>2, ConfigAssumption DEF Row
  <1>4. PICK n \in DOMAIN Assignments[r.leg] : a.assignments[r.leg] = Assignments[r.leg][n]
    BY <1>1 DEF IsAllocation
  <1> QED BY <1>1, <1>3, <1>4 DEF Entitled

\* ... on both legs.
LEMMA RowsInPairs ==
    ASSUME BothLegsCompete, NEW path \in Path, NEW a, IsPlacement(a),
           NEW r \in RowsFor(path, a.sides, a.validity)
    PROVE  \E s \in RowsFor(path, a.sides, a.validity) : Image(r, s)
  <1>1. PICK input \in Input : a.sides = SidesOf(input) /\ a.validity = input.validity
    BY DEF IsPlacement
  <1> DEFINE sides  == SidesOf(input)
             period == input.validity
  <1>2. /\ r.path = path /\ r.leg \in Leg /\ r.allocated = sides[r.leg].allocated
    BY <1>1 DEF RowsFor
  <1>3. PICK leg \in Leg : leg # r.leg
    BY DEF Leg
  <1>4. PICK resource \in ResourcesOf[leg] : TRUE
    BY DEF BothLegsCompete
  <1> DEFINE s == [path |-> path, leg |-> leg, resource |-> resource,
                   allocated |-> sides[leg].allocated, period |-> period]
  <1>5. s \in RowsFor(path, sides, period)
    BY DEF RowsFor
  <1>6. sides["DOWNLINK"].allocated = Translate(sides["UPLINK"].allocated, Translation)
    BY DownlinkOf
  <1>7. Image(r, s)
    BY <1>2, <1>3, <1>6 DEF Image, Leg
  <1> QED BY <1>1, <1>5, <1>7

\* Writing them keeps the pairs and the types, and the parents if the allocation is a
\* draft's or lies inside its Satnet and its Beam.
LEMMA RowsAdded ==
    ASSUME IInv, NEW path \in Path, NEW a, IsAllocation(a), IsPlacement(a), Entitled(a),
           \A leg \in Leg : a.assignments[leg] # None,
           rows' = rows \cup RowsFor(path, a.sides, a.validity), drafts' = drafts,
           \/ drafts[path] # None
           \/ PeriodContains(SatnetValidity, a.validity) /\ PeriodContains(BeamValidity, a.validity)
    PROVE  rows' \subseteq Row /\ Paired' /\ HeldWithinItsParents'
  <1> DEFINE new == RowsFor(path, a.sides, a.validity)
  <1>1. \A r \in new :
           /\ r \in Row /\ r.path = path /\ r.period = a.validity
           /\ \E n \in DOMAIN Assignments[r.leg] :
                 /\ Contains(Assignments[r.leg][n].bounds, r.allocated)
                 /\ PeriodContains(Assignments[r.leg][n].period, r.period)
    BY ReservedRows
  <1>2. BothLegsCompete => \A r \in new : \E s \in new : Image(r, s)
    BY RowsInPairs
  <1> HIDE DEF new
  <1>3. rows' = rows \cup new
    BY DEF new
  <1>4. rows' \subseteq Row
    BY <1>1, <1>3 DEF IInv, TypeOK
  <1>5. Paired'
    BY <1>2, <1>3 DEF IInv, Paired, Image, BothLegsCompete
  <1>6. HeldWithinItsParents'
    BY <1>1, <1>3 DEF IInv, HeldWithinItsParents
  <1> QED BY <1>4, <1>5, <1>6
-----------------------------------------------------------------------------
(***************************************************************************)
(* Each action keeps the invariant.                                        *)
(***************************************************************************)
\* What leaves the allocations' rows alone disturbs their pairs as little as
\* their parents.
LEMMA OthersDisturbNothing ==
    ASSUME IInv, drafts' = drafts,
           \A r \in rows' : r.path \in Path => r \in rows,
           \A r \in rows : r.path \in Path => r \in rows'
    PROVE  Paired' /\ HeldWithinItsParents'
BY DEF IInv, Paired, HeldWithinItsParents, Image, BothLegsCompete

\* What leaves the record under way and the drafts alone leaves them placed and judged.
LEMMA RecordsKept ==
    ASSUME IInv, drafts' = drafts, saving' = saving
    PROVE  RecordsArePlacements' /\ SavedIsJudged'
BY DEF IInv, RecordsArePlacements, IsPlacement, SavedIsJudged, InTheWay

\* So does what only forgets rows that are gone, drafts with them.
LEMMA ForgettingKeeps ==
    ASSUME IInv, NEW gone, Forget(gone),
           \A path \in Path : drafts'[path] = None \/ drafts'[path] = drafts[path]
    PROVE  RecordsArePlacements' /\ SavedIsJudged'
  <1>1. \/ saving = None /\ saving' = None
        \/ /\ saving # None
           /\ saving' = [saving EXCEPT !.active = saving.active \ gone]
    BY DEF Forget
  <1>2. CASE saving' = None
    BY <1>2 DEF IInv, RecordsArePlacements, IsPlacement, SavedIsJudged
  <1>3. CASE saving' # None
    <2>1. /\ saving # None /\ saving'.allocation = saving.allocation
          /\ saving'.operational = saving.operational /\ saving'.active \subseteq saving.active
          /\ saving'.path = saving.path /\ saving.path \in Path
      <3>1. saving # None /\ saving' = [saving EXCEPT !.active = saving.active \ gone]
        BY <1>1, <1>3
      <3>2. saving'.allocation = saving.allocation /\ saving'.operational = saving.operational
        BY <3>1
      <3>3. saving'.path = saving.path
        BY <3>1
      <3>4. saving'.active \subseteq saving.active
        BY <3>1
      <3>5. saving.path \in Path
        BY <3>1 DEF IInv, TypeOK
      <3> QED BY <3>1, <3>2, <3>3, <3>4, <3>5
    <2>2. RecordsArePlacements'
      BY <2>1 DEF IInv, RecordsArePlacements, IsPlacement
    <2>3. SavedIsJudged'
      BY <2>1 DEF IInv, SavedIsJudged, InTheWay
    <2> QED BY <2>2, <2>3
  <1> QED BY <1>2, <1>3

\* A preview keeps the invariant.
LEMMA PreviewKeeps ==
    ASSUME IInv, NEW input \in Input, Preview(input) PROVE IInv'
  <1>1. /\ rows' = rows /\ now' = now /\ reply' = "none" /\ screen' = Proposal(input, FALSE)
        /\ drafts' = drafts /\ saving' = saving
    BY DEF Preview
  <1>2. TypeOK'
    BY <1>1, ShowsType DEF IInv, TypeOK, Reply, IsAllocation
  <1> QED BY <1>1, <1>2, ShowsType, OthersDisturbNothing, RecordsKept DEF IInv

\* A placement by the engine keeps it.
LEMMA AutoPlaceKeeps ==
    ASSUME IInv, NEW request \in Request, NEW override \in Policy \cup {None},
           NEW validity \in Validity, AutoPlace(request, override, validity)
    PROVE  IInv'
  <1> DEFINE typed   == [request |-> request, override |-> override, centre |-> 0,
                         validity |-> validity]
             guards  == GuardsFor(typed)
             fitting == FittingGaps(request, guards)
  <1>1. /\ rows' = rows /\ now' = now /\ reply' = "none"
        /\ drafts' = drafts /\ saving' = saving
    BY DEF AutoPlace
  <1>2. CASE screen' = None
    <2>1. TypeOK' /\ ScreenIsProposal'
      BY <1>1, <1>2 DEF IInv, TypeOK, ScreenIsProposal, Reply, IsAllocation
    <2> QED BY <1>1, <2>1, OthersDisturbNothing, RecordsKept DEF IInv
  <1>3. CASE screen' # None
    <2>1. PICK gap \in fitting :
             screen' = Proposal([typed EXCEPT !.centre =
                                    CentreIn(gap, Bandwidth(request), guards)], TRUE)
      BY <1>3 DEF AutoPlace
    <2> DEFINE centre == CentreIn(gap, Bandwidth(request), guards)
               input  == [typed EXCEPT !.centre = centre]
    <2>2. typed \in Input
      BY DEF Input
    <2>3. gap.start \in Int
      <3>1. PICK n \in ActiveAssignments(CanonicalLeg, now) :
               gap \in MaximalFree(Assignments[CanonicalLeg][n].bounds,
                                   {r.allocated : r \in ReservationsOn(CanonicalLeg, now)})
        BY DEF FittingGaps, GapsOf
      <3>2. CanonicalLeg \in Leg /\ n \in DOMAIN Assignments[CanonicalLeg]
        BY <3>1, ConfigAssumption DEF ActiveAssignments
      <3>3. Assignments[CanonicalLeg][n] \in [bounds : AnyRange, period : AnyPeriod]
        BY <3>2, AssignmentType
      <3>4. \A r \in rows : r.allocated.end \in Int
        BY DEF IInv, TypeOK, Row, AnyRange, RangesOver
      <3>5. gap.start \in LowerEdges(Assignments[CanonicalLeg][n].bounds,
                                     {r.allocated : r \in ReservationsOn(CanonicalLeg, now)})
        BY <3>1 DEF MaximalFree
      <3> QED
        BY <3>3, <3>4, <3>5 DEF LowerEdges, ReservationsOn, AnyRange, RangesOver
    <2>4. centre \in Int
      <3>1. Bandwidth(request) \in Nat \ {0}
        BY BandwidthType, ConfigAssumption
      <3>2. guards.left \in Nat
        BY <2>2, <3>1, PolicyType, GuardsType DEF GuardsFor, PolicyOf
      <3> QED BY <2>3, <3>1, <3>2 DEF CentreIn
    <2>5. input \in Input
      <3> HIDE DEF centre
      <3> QED BY <2>2, <2>4 DEF Input
    <2>6. screen' = Proposal(input, TRUE)
      BY <2>1
    <2> HIDE DEF input
    <2>7. TypeOK' /\ ScreenIsProposal'
      BY <1>1, <2>5, <2>6, ShowsType DEF IInv, TypeOK, Reply, IsAllocation
    <2> QED BY <1>1, <2>7, OthersDisturbNothing, RecordsKept DEF IInv
  <1> QED BY <1>2, <1>3

\* The judgement of a save keeps it.
LEMMA JudgeKeeps ==
    ASSUME IInv, NEW path \in Path, NEW operational \in BOOLEAN, Judge(path, operational)
    PROVE  IInv'
  <1> DEFINE input == screen.input
             again == Proposal(input, FALSE)
             looked == [leg \in Leg |-> AssignmentFor(leg, now)]
             allocation == [sides |-> again.sides, centre |-> input.centre,
                            validity |-> input.validity, assignments |-> looked]
  <1>1. /\ input \in Input /\ saving = None
        /\ drafts[path] = None
        /\ now' = now /\ rows' = rows /\ drafts' = drafts
    BY DEF Judge, IInv, TypeOK
  <1>2. CASE screen' = again /\ reply' = "blocked" /\ saving' = saving
    <2>1. TypeOK'
      BY <1>1, <1>2, ShowsType DEF IInv, TypeOK, Reply, IsAllocation
    <2> QED BY <1>1, <1>2, <2>1, ShowsType, OthersDisturbNothing, RecordsKept DEF IInv
  <1>3. CASE /\ operational => again.findings = {}
             /\ saving' = [path |-> path, operational |-> operational,
                           active |-> {r \in rows : ActiveAt(r.period, now)},
                           allocation |-> allocation]
             /\ screen' = None /\ reply' = "none"
    <2>1. IsAllocation(allocation)
      <3>1. \A leg \in Leg : looked[leg] = None \/
               \E n \in DOMAIN Assignments[leg] : looked[leg] = Assignments[leg][n]
        BY AssignmentOfLeg
      <3>2. input.validity \in Validity /\ again.sides = SidesOf(input)
        BY <1>1 DEF Input, Proposal
      <3> HIDE DEF looked, input
      <3> QED BY <1>1, <3>1, <3>2, SidesType DEF IsAllocation
    <2>2. IsPlacement(allocation)
      BY <1>1 DEF IsPlacement, Proposal
    <2>3. /\ saving' # None => /\ saving'.path = path /\ saving'.operational = operational
                               /\ saving'.allocation = allocation
                               /\ saving'.active = {r \in rows : ActiveAt(r.period, now)}
    BY <1>3
    <2> HIDE DEF allocation
    <2>4. TypeOK'
      BY <1>1, <1>3, <2>1, <2>3 DEF IInv, TypeOK, Reply, IsAllocation
    <2>5. RecordsArePlacements' /\ ScreenIsProposal'
      BY <1>1, <1>3, <2>2, <2>3
         DEF IInv, RecordsArePlacements, IsPlacement, ScreenIsProposal
    <2>6. SavedIsJudged'
      <3>1. SUFFICES ASSUME saving' # None, operational
                     PROVE  SavedIsJudged'
        BY <2>3 DEF SavedIsJudged
      <3>2. FindingsFor(SidesOf(input), input.validity) = {}
        BY <1>3, <3>1 DEF Proposal
      <3>3. /\ PeriodContains(SatnetValidity, input.validity)
            /\ PeriodContains(BeamValidity, input.validity)
            /\ \A leg \in Leg, r \in rows :
                  ActiveAt(r.period, now) /\ r.resource \in ResourcesOf[leg] =>
                      ~InTheWay(r, SidesOf(input)[leg].allocated, input.validity)
        BY <1>1, <3>2, PassedIsJudged
      <3>4. allocation.validity = input.validity /\ allocation.sides = SidesOf(input)
        BY DEF allocation, Proposal
      <3> QED BY <2>3, <3>1, <3>3, <3>4 DEF SavedIsJudged, InTheWay
    <2> QED BY <1>1, <2>4, <2>5, <2>6, OthersDisturbNothing DEF IInv
  <1> QED BY <1>2, <1>3 DEF Judge

\* Its write keeps it.
LEMMA WriteKeeps ==
    ASSUME IInv, Write PROVE IInv'
  <1> DEFINE a   == saving.allocation
             new == RowsFor(saving.path, a.sides, a.validity)
  <1>1. /\ saving # None /\ saving.path \in Path /\ saving.operational \in BOOLEAN
        /\ IsAllocation(a) /\ IsPlacement(a)
        /\ now' = now /\ screen' = screen /\ saving' = None
    BY DEF Write, IInv, TypeOK, RecordsArePlacements
  <1>2. /\ reply' = ReplyTo(a, saving.operational, new) /\ reply' \in Reply
        /\ rows' = IF reply' = "saved" /\ saving.operational THEN rows \cup new ELSE rows
        /\ drafts' = IF reply' = "saved" /\ ~saving.operational
                     THEN [drafts EXCEPT ![saving.path] = a] ELSE drafts
    BY DEF Write, ReplyTo, Reply
  <1>3. ScreenIsProposal' /\ SavedIsJudged'
    BY <1>1 DEF IInv, ScreenIsProposal, SavedIsJudged
  <1>4. CASE reply' = "saved" /\ saving.operational
    <2>1. Entitled(a) /\ \A leg \in Leg : a.assignments[leg] # None
      BY <1>2, <1>4 DEF ReplyTo, Storable
    <2>2. /\ PeriodContains(SatnetValidity, a.validity)
          /\ PeriodContains(BeamValidity, a.validity)
      BY <1>1, <1>4 DEF IInv, SavedIsJudged
    <2>3. rows' = rows \cup new /\ drafts' = drafts
      BY <1>2, <1>4
    <2> HIDE DEF a
    <2>4. rows' \subseteq Row /\ Paired' /\ HeldWithinItsParents'
      BY <1>1, <2>1, <2>2, <2>3, RowsAdded
    <2>5. TypeOK'
      BY <1>1, <1>2, <2>3, <2>4 DEF IInv, TypeOK, IsAllocation
    <2>6. RecordsArePlacements'
      BY <1>1, <2>3 DEF IInv, RecordsArePlacements, IsPlacement
    <2> QED BY <1>3, <2>4, <2>5, <2>6 DEF IInv
  <1>5. CASE reply' = "saved" /\ ~saving.operational
    <2>1. rows' = rows /\ drafts' = [drafts EXCEPT ![saving.path] = a]
      BY <1>2, <1>5
    <2>2. /\ DOMAIN drafts' = Path
          /\ \A path \in Path :
                drafts'[path] = IF path = saving.path THEN a ELSE drafts[path]
      BY <1>1, <2>1 DEF IInv, TypeOK
    <2> HIDE DEF a
    <2>3. TypeOK'
      BY <1>1, <1>2, <2>1, <2>2 DEF IInv, TypeOK, IsAllocation
    <2>4. RecordsArePlacements'
      <3>1. \A leg \in Leg : a.assignments[leg] # None
        BY <1>2, <1>5 DEF ReplyTo, Storable, a
      <3> QED BY <1>1, <2>2, <3>1 DEF IInv, RecordsArePlacements, IsPlacement
    <2>5. \A path \in Path : drafts'[path] = None => drafts[path] = None
      BY <1>1, <2>2 DEF IInv, RecordsArePlacements
    <2>6. Paired' /\ HeldWithinItsParents'
      BY <2>1, <2>5 DEF IInv, Paired, Image, BothLegsCompete, HeldWithinItsParents
    <2> QED BY <1>3, <2>3, <2>4, <2>6 DEF IInv
  <1>6. CASE reply' # "saved"
    <2>1. rows' = rows /\ drafts' = drafts
      BY <1>2, <1>6
    <2>2. TypeOK'
      BY <1>1, <1>2, <2>1 DEF IInv, TypeOK, IsAllocation
    <2>3. RecordsArePlacements'
      BY <1>1, <2>1 DEF IInv, RecordsArePlacements, IsPlacement
    <2> QED BY <1>3, <2>1, <2>2, <2>3, OthersDisturbNothing DEF IInv
  <1> QED BY <1>1, <1>4, <1>5, <1>6

\* The move of a draft to PLANNED keeps it.
LEMMA PlanKeeps ==
    ASSUME IInv, NEW path \in Path, Plan(path) PROVE IInv'
  <1> DEFINE a   == drafts[path]
             new == RowsFor(path, a.sides, a.validity)
  <1>1. /\ a # None /\ IsAllocation(a) /\ IsPlacement(a)
        /\ now' = now /\ drafts' = drafts /\ screen' = screen /\ saving' = saving
    BY DEF Plan, IInv, TypeOK, RecordsArePlacements
  <1>2. ScreenIsProposal' /\ reply' \in Reply
    BY <1>1 DEF IInv, ScreenIsProposal, Plan, Reply
  <1>3. CASE rows' = rows
    <2>1. TypeOK'
      BY <1>1, <1>2, <1>3 DEF IInv, TypeOK, IsAllocation
    <2> QED BY <1>1, <1>2, <1>3, <2>1, OthersDisturbNothing, RecordsKept DEF IInv
  <1>4. CASE Entitled(a) /\ rows' = rows \cup new
    <2>1. \A leg \in Leg : a.assignments[leg] # None
      BY <1>1 DEF IInv, RecordsArePlacements
    <2> HIDE DEF a
    <2>2. rows' \subseteq Row /\ Paired' /\ HeldWithinItsParents'
      BY <1>1, <1>4, <2>1, RowsAdded DEF a
    <2>3. TypeOK'
      BY <1>1, <1>2, <1>4, <2>2 DEF IInv, TypeOK, IsAllocation
    <2> QED BY <1>1, <1>2, <2>2, <2>3, RecordsKept DEF IInv
  <1> QED BY <1>3, <1>4 DEF Plan

\* A cancellation keeps it.
LEMMA CancelKeeps ==
    ASSUME IInv, NEW path \in Path, Cancel(path) PROVE IInv'
  <1>1. /\ rows' = {r \in rows : r.path # path} /\ now' = now /\ screen' = screen
        /\ drafts' = [drafts EXCEPT ![path] = None]
        /\ Forget({r \in rows : r.path = path})
        /\ reply' = "none"
    BY DEF Cancel
  <1>2. /\ DOMAIN drafts' = Path
        /\ \A other \in Path : drafts'[other] = IF other = path THEN None ELSE drafts[other]
    BY <1>1 DEF IInv, TypeOK
  <1>3. RecordsArePlacements' /\ SavedIsJudged'
    BY <1>1, <1>2, ForgettingKeeps
  <1>4. TypeOK'
    <2>1. saving' # None =>
             /\ saving'.path \in Path /\ saving'.operational \in BOOLEAN
             /\ IsAllocation(saving'.allocation)
             /\ saving'.active \subseteq rows'
      BY <1>1 DEF Forget, IInv, TypeOK
    <2> QED BY <1>1, <1>2, <2>1 DEF IInv, TypeOK, IsAllocation, Reply
  <1>5. ScreenIsProposal' /\ HeldWithinItsParents'
    BY <1>1, <1>2 DEF IInv, ScreenIsProposal, HeldWithinItsParents
  <1>6. Paired'
    BY <1>1 DEF IInv, Paired, Image, BothLegsCompete
  <1> QED BY <1>3, <1>4, <1>5, <1>6 DEF IInv

\* A reservation by somebody else keeps it.
LEMMA OtherReservesKeeps ==
    ASSUME IInv, NEW leg \in Leg, NEW resource \in Resource, NEW period \in Validity,
           NEW range \in OtherRange[leg], OtherReserves(leg, resource, range, period)
    PROVE  IInv'
  <1> DEFINE new == [path |-> Other, leg |-> leg, resource |-> resource,
                     allocated |-> range, period |-> period]
  <1>1. /\ rows' = rows \cup {new} /\ now' = now /\ screen' = screen /\ reply' = "none"
        /\ drafts' = drafts /\ saving' = saving
    BY DEF OtherReserves
  <1>2. new \in Row /\ new.path \notin Path
    BY ConfigAssumption DEF Row
  <1> HIDE DEF new
  <1>3. TypeOK' /\ ScreenIsProposal'
    BY <1>1, <1>2 DEF IInv, TypeOK, ScreenIsProposal, Reply, IsAllocation
  <1> QED BY <1>1, <1>2, <1>3, OthersDisturbNothing, RecordsKept DEF IInv

\* A release by somebody else keeps it.
LEMMA OtherReleasesKeeps ==
    ASSUME IInv, NEW r \in rows, OtherReleases(r) PROVE IInv'
  <1>1. /\ rows' = rows \ {r} /\ now' = now /\ screen' = screen /\ reply' = "none"
        /\ drafts' = drafts /\ Forget({r})
        /\ r.path \notin Path
    BY ConfigAssumption DEF OtherReleases
  <1>2. TypeOK' /\ ScreenIsProposal'
    <2>1. saving' # None =>
             /\ saving'.path \in Path /\ saving'.operational \in BOOLEAN
             /\ IsAllocation(saving'.allocation)
             /\ saving'.active \subseteq rows'
      BY <1>1 DEF Forget, IInv, TypeOK
    <2> QED BY <1>1, <2>1 DEF IInv, TypeOK, ScreenIsProposal, Reply, IsAllocation
  <1>3. RecordsArePlacements' /\ SavedIsJudged'
    BY <1>1, ForgettingKeeps
  <1> QED BY <1>1, <1>2, <1>3, OthersDisturbNothing DEF IInv

\* Time keeps it.
LEMMA TickKeeps == ASSUME IInv, Tick PROVE IInv'
  <1>1. /\ rows' = rows /\ screen' = screen /\ drafts' = drafts /\ saving' = saving
        /\ now' = now + 1 /\ now < MaxNow /\ reply' = "none"
    BY DEF Tick
  <1>2. TypeOK' /\ ScreenIsProposal'
    BY <1>1, ConfigAssumption DEF IInv, TypeOK, ScreenIsProposal, Reply, IsAllocation
  <1> QED BY <1>1, <1>2, OthersDisturbNothing, RecordsKept DEF IInv
-----------------------------------------------------------------------------
\* Every step keeps it.
LEMMA StepKeepsInvariant == IInv /\ [Next]_vars => IInv'
  <1> SUFFICES ASSUME IInv, [Next]_vars PROVE IInv'
    OBVIOUS
  <1>1. CASE UNCHANGED vars
    <2>1. /\ now' = now /\ rows' = rows /\ drafts' = drafts /\ screen' = screen
          /\ saving' = saving /\ reply' = reply
      BY <1>1 DEF vars
    <2>2. TypeOK' /\ ScreenIsProposal'
      BY <2>1 DEF IInv, TypeOK, ScreenIsProposal, IsAllocation
    <2> QED BY <2>1, <2>2, OthersDisturbNothing, RecordsKept DEF IInv
  <1>2. ASSUME NEW request \in Request, NEW override \in Policy \cup {None},
               NEW validity \in Validity, AutoPlace(request, override, validity)
        PROVE  IInv'
    BY <1>2, AutoPlaceKeeps
  <1>3. ASSUME NEW request \in Request, NEW override \in Policy \cup {None},
               NEW validity \in Validity, NEW centre \in Centre,
               Preview([request |-> request, override |-> override, centre |-> centre,
                        validity |-> validity])
        PROVE  IInv'
    <2> DEFINE input == [request |-> request, override |-> override, centre |-> centre,
                         validity |-> validity]
    <2>1. input \in Input
      BY ConfigAssumption DEF Input
    <2> QED BY <1>3, <2>1, PreviewKeeps
  <1>4. ASSUME NEW path \in Path, NEW operational \in BOOLEAN, Judge(path, operational)
        PROVE  IInv'
    BY <1>4, JudgeKeeps
  <1>9. ASSUME NEW path \in Path, Plan(path) PROVE IInv'
    BY <1>9, PlanKeeps
  <1>10. CASE Write
    BY <1>10, WriteKeeps
  <1>5. ASSUME NEW path \in Path, Cancel(path) PROVE IInv'
    BY <1>5, CancelKeeps
  <1>6. ASSUME NEW leg \in Leg, NEW resource \in Resource, NEW period \in Validity,
               NEW range \in OtherRange[leg], OtherReserves(leg, resource, range, period)
        PROVE  IInv'
    BY <1>6, OtherReservesKeeps
  <1>7. ASSUME NEW r \in rows, OtherReleases(r) PROVE IInv'
    BY <1>7, OtherReleasesKeeps
  <1>8. CASE Tick
    BY <1>8, TickKeeps
  <1> QED BY <1>1, <1>2, <1>3, <1>4, <1>5, <1>6, <1>7, <1>8, <1>9, <1>10 DEF Next

\* The invariant of every behaviour.
THEOREM Invariant == Spec => []IInv
BY InitInvariant, StepKeepsInvariant, PTL DEF Spec

\* Every row, proposal and finding is of its type; a placement has a width on
\* both legs whatever was typed (bandwidth.place_both_sides).
THEOREM TypeCorrect == Spec => []TypeOK
  <1>1. IInv => TypeOK
    BY DEF IInv
  <1> QED BY <1>1, Invariant, PTL

\* What create saves and plan reserves stays within its parents: in an assignment on
\* the leg that containment.evaluate looked at and on the other, and, unless it was
\* a draft first, in the Satnet and the Beam.
THEOREM SavedStaysWithinItsParents == Spec => []HeldWithinItsParents
  <1>1. IInv => HeldWithinItsParents
    BY DEF IInv
  <1> QED BY <1>1, Invariant, PTL

\* A proposal collides with an allocation on both legs or on neither, for
\* every translation, guard policy and request: the image of what is free of
\* an allocation is free of the allocation's image.
LEMMA CollideTogether == IInv => ImagesCollideTogether
  <1> SUFFICES ASSUME IInv, screen # None, BothLegsCompete, NEW path \in Path
               PROVE  LET Hit(leg) == \E r \in rows : /\ r.path = path /\ r.leg = leg
                                         /\ Overlaps(screen.sides[leg].allocated, r.allocated)
                      IN  Hit("UPLINK") <=> Hit("DOWNLINK")
    BY DEF ImagesCollideTogether
  <1> DEFINE up   == screen.sides["UPLINK"].allocated
             down == screen.sides["DOWNLINK"].allocated
  <1>1. screen.input \in Input /\ screen.sides = SidesOf(screen.input)
    BY DEF IInv, TypeOK, ScreenIsProposal
  <1>2. up \in AnyRange /\ down = Translate(up, Translation)
    BY <1>1, UplinkOf, DownlinkOf
  <1> HIDE DEF up, down
  <1>3. \A r \in rows : r.leg \in {"UPLINK", "DOWNLINK"} /\ r.allocated \in AnyRange
    BY DEF IInv, TypeOK, Row, Leg
  <1>4. Translation \in TranslationSpec
    BY ConfigAssumption
  <1>5. ASSUME NEW r \in rows, r.path = path, r.leg = "UPLINK", Overlaps(up, r.allocated)
        PROVE  \E s \in rows : /\ s.path = path /\ s.leg = "DOWNLINK"
                               /\ Overlaps(down, s.allocated)
    <2>1. PICK s \in rows : Image(r, s)
      BY <1>5 DEF IInv, Paired
    <2>2. s.path = path /\ s.leg = "DOWNLINK" /\ s.allocated = Translate(r.allocated, Translation)
      BY <1>3, <1>5, <2>1 DEF Image
    <2>3. Overlaps(down, s.allocated)
      BY <1>2, <1>3, <1>4, <1>5, <2>2, TranslationKeepsApart
    <2> QED BY <2>2, <2>3
  <1>6. ASSUME NEW s \in rows, s.path = path, s.leg = "DOWNLINK", Overlaps(down, s.allocated)
        PROVE  \E r \in rows : /\ r.path = path /\ r.leg = "UPLINK"
                               /\ Overlaps(up, r.allocated)
    <2>1. PICK r \in rows : Image(s, r)
      BY <1>6 DEF IInv, Paired
    <2>2. r.path = path /\ r.leg = "UPLINK" /\ s.allocated = Translate(r.allocated, Translation)
      BY <1>3, <1>6, <2>1 DEF Image
    <2>3. Overlaps(up, r.allocated)
      BY <1>2, <1>3, <1>4, <1>6, <2>2, TranslationKeepsApart
    <2> QED BY <2>2, <2>3
  <1> QED BY <1>5, <1>6 DEF up, down

\* Against the operator's own allocations a proposal collides on both legs or on
\* neither, whatever the transponder does and however asymmetric the guards.
THEOREM CollisionsComeInPairs == Spec => []ImagesCollideTogether
BY CollideTogether, Invariant, PTL
-----------------------------------------------------------------------------
(***************************************************************************)
(* The checks against the constraint.                                      *)
(***************************************************************************)
\* Whatever _check_conflicts shows, the exclusion constraint would refuse.
LEMMA ShownIsReal ==
    ASSUME NEW input, NEW offered, NEW leg \in Leg,
           [code |-> "SPECTRUM_CONFLICT", leg |-> leg] \in Proposal(input, offered).findings
    PROVE  Clashes(SidesOf(input), input.validity, leg) # {}
  <1> DEFINE sides  == SidesOf(input)
             period == input.validity
  <1>1. "SPECTRUM_CONFLICT" \in CheckConflicts(leg, sides[leg].allocated, period)
    <2>1. [code |-> "SPECTRUM_CONFLICT", leg |-> leg] \in FindingsFor(sides, period)
      BY DEF Proposal
    <2>2. \A other, codes : [code |-> "SPECTRUM_CONFLICT", leg |-> leg] \in On(other, codes) =>
                               "SPECTRUM_CONFLICT" \in codes /\ other = leg
      BY DEF On
    <2>3. \A assignment : "SPECTRUM_CONFLICT" \notin CheckContainment(assignment, period)
      BY DEF CheckContainment
    <2> QED BY <2>1, <2>2, <2>3 DEF FindingsFor
  <1>2. PICK r \in ReservationsOn(leg, now) : InTheWay(r, sides[leg].allocated, period)
    BY <1>1 DEF CheckConflicts
  <1> DEFINE new == [path |-> Other, leg |-> leg, resource |-> r.resource,
                     allocated |-> sides[leg].allocated, period |-> period]
  <1>3. r \in rows /\ new \in RowsFor(Other, sides, period)
    BY <1>2 DEF ReservationsOn, RowsFor
  <1>4. Clash(new, r)
    BY <1>2 DEF InTheWay, Clash
  <1> QED BY <1>3, <1>4 DEF Clashes

\* A conflict the operator is shown is one the constraint would refuse.
THEOREM ShownConflictsAreReal == Spec => ConflictsShownAreReal
  <1>1. ASSUME [Next]_vars, Shown
        PROVE  \E input, offered : screen' = Proposal(input, offered)
    BY <1>1 DEF Next, vars, Shown, AutoPlace, Preview, Judge, Write, Plan, Cancel,
                OtherReserves, OtherReleases, Tick
  <1>2. ASSUME [Next]_vars
        PROVE  [Shown => \A leg \in Leg :
                   [code |-> "SPECTRUM_CONFLICT", leg |-> leg] \in screen'.findings =>
                       Clashes(screen'.sides, screen'.input.validity, leg) # {}]_vars
    BY <1>1, <1>2, ShownIsReal DEF Proposal
  <1> QED BY <1>2, PTL DEF Spec, ConflictsShownAreReal

\* A save that is refused over the constraint passed the checks, so what is left
\* of what was active then is in nobody's way.
LEMMA PassedSparesTheActive ==
    ASSUME IInv, Write, reply' = "conflict", NEW leg \in Leg,
           NEW r \in Clashes(saving.allocation.sides, saving.allocation.validity, leg)
    PROVE  r \notin saving.active
  <1> DEFINE sides  == saving.allocation.sides
             period == saving.allocation.validity
  <1>1. saving # None /\ saving.operational
    BY DEF Write, ReplyTo
  <1>2. PICK new \in RowsFor(Other, sides, period) : new.leg = leg /\ Clash(new, r)
    BY DEF Clashes
  <1>3. new.resource \in ResourcesOf[leg] /\ new.allocated = sides[leg].allocated /\ new.period = period
    BY <1>2 DEF RowsFor
  <1>4. r.resource \in ResourcesOf[leg] /\ InTheWay(r, sides[leg].allocated, period)
    BY <1>2, <1>3 DEF Clash, InTheWay
  <1> QED BY <1>1, <1>4 DEF IInv, SavedIsJudged

\* A save that every check let through is refused only over reservations that
\* were not active when it was judged, or were written since.
THEOREM SurprisesAreInactive == Spec => OnlyTheInactiveSurprises
  <1>1. ASSUME [Next]_vars, vars' # vars, reply' = "conflict"
        PROVE  Write
    BY <1>1 DEF Next, vars, AutoPlace, Preview, Judge, Plan, Cancel, OtherReserves,
                OtherReleases, Tick
  <1>2. ASSUME IInv, [Next]_vars
        PROVE  [reply' = "conflict" =>
                   \A leg \in Leg :
                       \A r \in Clashes(saving.allocation.sides, saving.allocation.validity, leg) :
                           r \notin saving.active]_vars
    BY <1>1, <1>2, PassedSparesTheActive
  <1> QED BY <1>2, Invariant, PTL DEF Spec, OnlyTheInactiveSurprises
-----------------------------------------------------------------------------
(***************************************************************************)
(* Spectrum enough.                                                        *)
(***************************************************************************)
\* The two roundings of A-09: the bandwidth is never too little for the rate.
LEMMA RateFits ==
    ASSUME NEW request \in BandwidthRequest
    PROVE  Bandwidth(request) * 100 >= Rate(request) * (100 + request.rolloff)
  <1>1. request.size \in Nat \ {0} /\ request.rolloff \in 0 .. 100
    BY DEF BandwidthRequest
  <1>2. CASE request.mode = "SYMBOL_RATE"
    <2> DEFINE n == request.size * (100 + request.rolloff)
    <2>1. n \in Int
      BY <1>1
    <2>2. CeilingOf(n, 100) * 100 >= n
      <3> HIDE DEF n
      <3> QED BY <2>1, HundredthsCovered
    <2> QED BY <1>2, <2>2 DEF Bandwidth, Rate, OccupiedBandwidth
  <1>3. CASE request.mode # "SYMBOL_RATE"
    <2> DEFINE d == 100 + request.rolloff
               n == request.size * 100
    <2>1. d \in Nat \ {0} /\ n \in Nat
      BY <1>1
    <2>2. (n \div d) * d <= n
      <3> HIDE DEF n, d
      <3> QED BY <2>1
    <2> QED BY <1>3, <2>2 DEF Bandwidth, Rate, SymbolRate
  <1> QED BY <1>2, <1>3

\* The rate of a request is a number.
LEMMA RateType ==
    ASSUME NEW request \in BandwidthRequest PROVE Rate(request) \in Int
BY DEF BandwidthRequest, Rate, SymbolRate

\* What is shown was rounded to enough.
LEMMA SpectrumEnough == IInv => SpectrumCoversTransmission
  <1> SUFFICES ASSUME IInv, screen # None PROVE SpectrumCoversTransmission
    BY DEF SpectrumCoversTransmission
  <1> DEFINE input     == screen.input
             request   == input.request
             policy    == PolicyOf(input)
             bandwidth == Bandwidth(request)
             guards    == GuardsFor(input)
             up        == screen.sides["UPLINK"]
             down      == screen.sides["DOWNLINK"]
  <1>1. input \in Input /\ screen.sides = SidesOf(input)
    BY DEF IInv, TypeOK, ScreenIsProposal
  <1>2. request \in BandwidthRequest /\ policy \in GuardPolicySpec
    BY <1>1, PolicyType, ConfigAssumption DEF Input
  <1>3. /\ up.occupied \in AnyRange /\ up.allocated \in AnyRange
        /\ Width(up.occupied) >= bandwidth
        /\ up.occupied.start - up.allocated.start = guards.left
        /\ up.allocated.end - up.occupied.end = guards.right
    BY <1>1, UplinkOf
  <1>4. bandwidth \in Nat /\ Width(up.occupied) \in Int
    BY <1>2, <1>3, BandwidthType DEF AnyRange, RangesOver, Width
  <1>5. Width(up.occupied) * 100 >= Rate(request) * (100 + request.rolloff)
    <2>1. bandwidth * 100 >= Rate(request) * (100 + request.rolloff)
      BY <1>2, RateFits
    <2>2. Rate(request) * (100 + request.rolloff) \in Int
      BY <1>2, RateType DEF BandwidthRequest
    <2> DEFINE needed == Rate(request) * (100 + request.rolloff)
               width  == Width(up.occupied)
    <2> HIDE DEF needed, width, bandwidth, up
    <2> QED BY <1>3, <1>4, <2>1, <2>2 DEF needed, width
  <1>6. /\ policy.mode \in {"PERCENT_OF_OCCUPIED", "MAX_OF_FIXED_AND_PERCENT"} =>
              /\ guards.left * 100 >= bandwidth * policy.percentLeft
              /\ guards.right * 100 >= bandwidth * policy.percentRight
        /\ policy.mode \in {"FIXED", "MAX_OF_FIXED_AND_PERCENT"} =>
              /\ guards.left >= policy.fixedLeft
              /\ guards.right >= policy.fixedRight
    <2>1. /\ policy.percentLeft \in Nat /\ policy.percentRight \in Nat
          /\ guards = ResolveGuards(policy, bandwidth)
      BY <1>2 DEF GuardPolicySpec, GuardsFor, PolicyOf
    <2>2. /\ guards.left \in Nat /\ guards.right \in Nat
          /\ policy.mode \in {"PERCENT_OF_OCCUPIED", "MAX_OF_FIXED_AND_PERCENT"} =>
                /\ guards.left >= PercentOf(bandwidth, policy.percentLeft)
                /\ guards.right >= PercentOf(bandwidth, policy.percentRight)
          /\ policy.mode \in {"FIXED", "MAX_OF_FIXED_AND_PERCENT"} =>
                /\ guards.left >= policy.fixedLeft
                /\ guards.right >= policy.fixedRight
      BY <1>2, <1>4, <2>1, GuardsType
    <2>3. /\ PercentOf(bandwidth, policy.percentLeft) \in Nat
          /\ PercentOf(bandwidth, policy.percentLeft) * 100 >= bandwidth * policy.percentLeft
          /\ PercentOf(bandwidth, policy.percentRight) \in Nat
          /\ PercentOf(bandwidth, policy.percentRight) * 100 >= bandwidth * policy.percentRight
      BY <1>4, <2>1, PercentType
    <2> DEFINE shareLeft  == bandwidth * policy.percentLeft
               shareRight == bandwidth * policy.percentRight
    <2>4. shareLeft \in Int /\ shareRight \in Int
      BY <1>4, <2>1
    <2> HIDE DEF shareLeft, shareRight, guards, policy, bandwidth
    <2> QED BY <2>2, <2>3, <2>4 DEF shareLeft, shareRight
  <1>7. \A part \in {"occupied", "allocated"} : Width(down[part]) = Width(up[part])
    BY <1>1, <1>3, DownlinkOf, TranslationType, ConfigAssumption
  <1> QED
    BY <1>3, <1>5, <1>6, <1>7 DEF SpectrumCoversTransmission, PolicyOf

\* What is proposed has room, on both legs, for the symbol rate with its roll-off
\* and for the guards the policy asks for.
THEOREM SpectrumIsEnough == Spec => []SpectrumCoversTransmission
BY SpectrumEnough, Invariant, PTL
-----------------------------------------------------------------------------
(***************************************************************************)
(* The leftmost place.  With an even bandwidth the halves of auto_place    *)
(* and of occupied_range are the same; with an odd one they differ by one  *)
(* Hz, by which the range begins below the place that was chosen.          *)
(***************************************************************************)
\* Room anywhere in an assignment is part of a gap: between the nearest edge
\* below it and the nearest above.
LEMMA RoomIsInAGap ==
    ASSUME NEW bounds \in AnyRange, NEW taken \in SUBSET AnyRange,
           NEW range \in AnyRange, IsFree(range, bounds, taken)
    PROVE  \E gap \in MaximalFree(bounds, taken) : Contains(gap, range)
  <1> DEFINE below == {edge \in LowerEdges(bounds, taken) : edge <= range.start}
             above == {edge \in UpperEdges(bounds, taken) : range.end <= edge}
  <1>1. /\ range.start \in Int /\ range.end \in Int /\ range.start < range.end
        /\ bounds.start \in Int /\ bounds.end \in Int
        /\ \A t \in taken : t.start \in Int /\ t.end \in Int
    BY DEF AnyRange, RangesOver
  <1>2. /\ bounds.start <= range.start /\ range.end <= bounds.end
        /\ \A t \in taken : t.end <= range.start \/ range.end <= t.start
    BY <1>1 DEF IsFree, Contains, Overlaps
  <1>3. below \in SUBSET Int /\ bounds.start \in below /\ \A edge \in below : edge <= range.start
    BY <1>1, <1>2 DEF LowerEdges
  <1>4. above \in SUBSET Int /\ bounds.end \in above /\ \A edge \in above : range.end <= edge
    BY <1>1, <1>2 DEF UpperEdges
  <1>5. \A t \in taken : t.end \in below \/ t.start \in above
    BY <1>2 DEF LowerEdges, UpperEdges
  <1>6. below \subseteq LowerEdges(bounds, taken) /\ above \subseteq UpperEdges(bounds, taken)
    OBVIOUS
  <1> HIDE DEF below, above
  <1>7. PICK low \in below : \A edge \in below : low >= edge
    BY <1>1, <1>3, HighestExists
  <1>8. PICK high \in above : \A edge \in above : high <= edge
    BY <1>1, <1>4, LowestExists
  <1> DEFINE gap == FrequencyRange(low, high)
  <1>9. low \in Int /\ high \in Int /\ low <= range.start /\ range.end <= high /\ low < high
    BY <1>1, <1>3, <1>4, <1>7, <1>8
  <1>10. gap \in [start : LowerEdges(bounds, taken), end : UpperEdges(bounds, taken)]
    BY <1>6, <1>7, <1>8 DEF FrequencyRange
  <1>11. Contains(bounds, gap)
    BY <1>3, <1>4, <1>7, <1>8 DEF Contains, FrequencyRange
  <1>12. \A t \in taken : ~Overlaps(gap, t)
    BY <1>1, <1>5, <1>7, <1>8, <1>9 DEF Overlaps, FrequencyRange
  <1>13. Contains(gap, range)
    BY <1>9 DEF Contains, FrequencyRange
  <1>14. gap \in MaximalFree(bounds, taken)
    BY <1>9, <1>10, <1>11, <1>12 DEF MaximalFree, IsFree, FrequencyRange
  <1> QED BY <1>13, <1>14

\* The two halves of a bandwidth, the centre's rounded down and the range's
\* rounded up, make it whole again; they differ by one where it is odd.
LEMMA TwoHalves ==
    ASSUME NEW n \in Nat
    PROVE  /\ n \div 2 \in Nat /\ n % 2 \in {0, 1}
           /\ HalfWidth(n) = n \div 2 + (n % 2) /\ 2 * (n \div 2) + (n % 2) = n
BY DEF HalfWidth, CeilingOf

\* Every taken range and every bound of an active assignment is a range.
LEMMA LegTypes ==
    ASSUME IInv, NEW leg \in Leg
    PROVE  /\ {r.allocated : r \in ReservationsOn(leg, now)} \in SUBSET AnyRange
           /\ \A n \in ActiveAssignments(leg, now) : Assignments[leg][n].bounds \in AnyRange
  <1>1. \A r \in rows : r.allocated \in AnyRange
    BY DEF IInv, TypeOK, Row
  <1>2. \A n \in ActiveAssignments(leg, now) : n \in DOMAIN Assignments[leg]
    BY DEF ActiveAssignments
  <1>3. \A n \in DOMAIN Assignments[leg] : Assignments[leg][n].bounds \in AnyRange
    BY AssignmentType
  <1> QED BY <1>1, <1>2, <1>3 DEF ReservationsOn

\* What auto_place offers fills its gap from the left, guards included, and
\* begins one Hz below it where the bandwidth is odd.
LEMMA OfferFillsItsGap ==
    ASSUME IInv, CanonicalLeg = "UPLINK", NEW request \in Request,
           NEW override \in Policy \cup {None}, NEW validity \in Validity,
           NEW typed, typed = [request |-> request, override |-> override, centre |-> 0,
                               validity |-> validity],
           NEW gap \in FittingGaps(request, GuardsFor(typed)),
           NEW input, input = [typed EXCEPT !.centre =
                                  CentreIn(gap, Bandwidth(request), GuardsFor(typed))]
    PROVE  LET offer == SidesOf(input)[CanonicalLeg].allocated
               wide  == Bandwidth(request) + GuardsFor(typed).left + GuardsFor(typed).right
               odd   == Bandwidth(request) % 2
           IN  /\ wide \in Nat \ {0} /\ odd \in {0, 1}
               /\ gap.start \in Int
               /\ offer = FrequencyRange(gap.start - odd, gap.start + wide)
               /\ FreePlace(FrequencyRange(gap.start, gap.start + wide), CanonicalLeg)
  <1> DEFINE bandwidth == Bandwidth(request)
             guards    == GuardsFor(typed)
             wide      == bandwidth + guards.left + guards.right
             odd       == bandwidth % 2
             place     == FrequencyRange(gap.start, gap.start + wide)
             taken     == {r.allocated : r \in ReservationsOn(CanonicalLeg, now)}
             offer     == SidesOf(input)[CanonicalLeg].allocated
  <1>1. typed \in Input
    BY DEF Input
  <1>2. bandwidth \in Nat \ {0}
    BY BandwidthType, ConfigAssumption
  <1>3. guards.left \in Nat /\ guards.right \in Nat
    BY <1>1, <1>2, PolicyType, GuardsType DEF GuardsFor, PolicyOf
  <1>4. PICK n \in ActiveAssignments(CanonicalLeg, now) :
           gap \in MaximalFree(Assignments[CanonicalLeg][n].bounds, taken)
    BY DEF FittingGaps, GapsOf
  <1> DEFINE bounds == Assignments[CanonicalLeg][n].bounds
  <1>5. bounds \in AnyRange /\ taken \in SUBSET AnyRange
    BY <1>4, LegTypes, ConfigAssumption
  <1>6. gap.start \in Int /\ gap.end \in Int /\ gap.start < gap.end /\ IsFree(gap, bounds, taken)
    BY <1>4, <1>5 DEF MaximalFree, LowerEdges, UpperEdges, AnyRange, RangesOver
  <1>7. gap.start + wide <= gap.end
    <2>1. Width(gap) >= wide
      BY DEF FittingGaps
    <2> QED BY <1>2, <1>3, <1>6, <2>1 DEF Width
  <1>8. input.request = request /\ GuardsFor(input) = guards
        /\ input.centre = gap.start + guards.left + bandwidth \div 2
    BY DEF GuardsFor, CentreIn
  <1>9. /\ bandwidth \div 2 \in Nat /\ odd \in {0, 1}
        /\ HalfWidth(bandwidth) = bandwidth \div 2 + odd
        /\ 2 * (bandwidth \div 2) + odd = bandwidth
    BY <1>2, TwoHalves
  <1>10. offer = Expanded(FrequencyRange(input.centre - HalfWidth(bandwidth),
                                         input.centre + HalfWidth(bandwidth)),
                          guards.left, guards.right)
    BY <1>8 DEF SidesOf, PlaceBothSides, Place, OccupiedRange, AllocatedRange
  <1> HIDE DEF bandwidth, guards, offer, taken, bounds, odd
  <1>11. offer = FrequencyRange(gap.start - odd, gap.start + wide)
    <2> DEFINE half == bandwidth \div 2
    <2>1. half \in Nat /\ odd \in {0, 1} /\ 2 * half + odd = bandwidth
      BY <1>9
    <2>2. offer = FrequencyRange((input.centre - (half + odd)) - guards.left,
                                 (input.centre + (half + odd)) + guards.right)
      BY <1>9, <1>10 DEF Expanded, FrequencyRange
    <2>3. input.centre = gap.start + guards.left + half
      BY <1>8
    <2> HIDE DEF half
    <2>4. /\ (input.centre - (half + odd)) - guards.left = gap.start - odd
          /\ (input.centre + (half + odd)) + guards.right = gap.start + wide
      BY <1>2, <1>3, <1>6, <2>1, <2>3
    <2> QED BY <2>2, <2>4
  <1>12. IsFree(place, bounds, taken)
    <2>1. /\ bounds.start \in Int /\ bounds.end \in Int
          /\ \A t \in taken : t.start \in Int /\ t.end \in Int
      BY <1>5 DEF AnyRange, RangesOver
    <2>2. wide \in Nat
      BY <1>2, <1>3
    <2> HIDE DEF wide
    <2> QED
      BY <1>6, <1>7, <2>1, <2>2 DEF place, IsFree, Contains, Overlaps, FrequencyRange
  <1>13. FreePlace(place, CanonicalLeg)
    BY <1>4, <1>12 DEF FreePlace, bounds, taken
  <1>14. wide \in Nat \ {0}
    BY <1>2, <1>3
  <1>15. /\ wide \in Nat \ {0} /\ odd \in {0, 1} /\ gap.start \in Int
         /\ offer = FrequencyRange(gap.start - odd, gap.start + wide)
         /\ FreePlace(FrequencyRange(gap.start, gap.start + wide), CanonicalLeg)
    BY <1>6, <1>9, <1>11, <1>13, <1>14 DEF place
  <1> QED BY <1>15, Zenon DEF bandwidth, guards, offer, odd

\* A gap as wide as the offer, and lower, would have been chosen.
LEMMA NothingLowerIsFree ==
    ASSUME IInv, NEW request, NEW guards, NEW gap, gap.start \in Int,
           Bandwidth(request) + guards.left + guards.right \in Nat \ {0},
           \A other \in FittingGaps(request, guards) : gap.start <= other.start,
           NEW start \in Int, start < gap.start
    PROVE  ~FreePlace(FrequencyRange(start, start + (Bandwidth(request) + guards.left + guards.right)),
                      CanonicalLeg)
  <1> DEFINE wide  == Bandwidth(request) + guards.left + guards.right
             range == FrequencyRange(start, start + wide)
             taken == {r.allocated : r \in ReservationsOn(CanonicalLeg, now)}
  <1> SUFFICES ASSUME FreePlace(range, CanonicalLeg) PROVE FALSE
    OBVIOUS
  <1>1. range \in AnyRange
    <2> HIDE DEF wide
    <2> QED BY DEF wide, AnyRange, RangesOver, FrequencyRange
  <1>2. PICK n \in ActiveAssignments(CanonicalLeg, now) :
           IsFree(range, Assignments[CanonicalLeg][n].bounds, taken)
    BY DEF FreePlace
  <1>3. Assignments[CanonicalLeg][n].bounds \in AnyRange /\ taken \in SUBSET AnyRange
    BY <1>2, LegTypes, ConfigAssumption
  <1>4. PICK other \in MaximalFree(Assignments[CanonicalLeg][n].bounds, taken) :
           Contains(other, range)
    <2> HIDE DEF range, taken
    <2> QED BY <1>1, <1>2, <1>3, RoomIsInAGap
  <1>5. other.start \in Int /\ other.end \in Int
    BY <1>3, <1>4 DEF MaximalFree, LowerEdges, UpperEdges, AnyRange, RangesOver
  <1>6. other.start <= start /\ Width(other) >= wide
    <2>1. wide \in Nat
      OBVIOUS
    <2> HIDE DEF wide
    <2> QED BY <1>4, <1>5, <2>1 DEF Contains, FrequencyRange, Width
  <1>7. other \in FittingGaps(request, guards)
    BY <1>2, <1>4, <1>6 DEF FittingGaps, GapsOf
  <1> QED BY <1>5, <1>6, <1>7

\* Typed in on an uplink, auto_place offers a place that is free, and the lowest
\* of its width: the centre it computes puts the allocated range at the left
\* edge of the lowest gap that fits, or one Hz below it for an odd bandwidth.
THEOREM LeftmostFromAnUplink ==
    CanonicalLeg = "UPLINK" => (Spec => LeftmostIsOffered)
  <1> SUFFICES ASSUME CanonicalLeg = "UPLINK" PROVE Spec => LeftmostIsOffered
    OBVIOUS
  <1> DEFINE Leftmost ==
          LET offer == screen'.sides[CanonicalLeg].allocated
              odd   == Bandwidth(screen'.input.request) % 2
              place == FrequencyRange(offer.start + odd, offer.end)
          IN  /\ FreePlace(place, CanonicalLeg)
              /\ \A start \in LowestStart(CanonicalLeg) .. place.start - 1 :
                    ~FreePlace(FrequencyRange(start, start + Width(place)), CanonicalLeg)
  <1>1. ASSUME IInv, NEW request \in Request, NEW override \in Policy \cup {None},
               NEW validity \in Validity, AutoPlace(request, override, validity), Offered
        PROVE  Leftmost
    <2> DEFINE typed  == [request |-> request, override |-> override, centre |-> 0,
                          validity |-> validity]
               guards == GuardsFor(typed)
               wide   == Bandwidth(request) + guards.left + guards.right
    <2>1. PICK gap \in FittingGaps(request, guards) :
             /\ \A other \in FittingGaps(request, guards) : gap.start <= other.start
             /\ screen' = Proposal([typed EXCEPT !.centre =
                                       CentreIn(gap, Bandwidth(request), guards)], TRUE)
      BY <1>1 DEF AutoPlace, Offered, Shown
    <2> DEFINE input == [typed EXCEPT !.centre = CentreIn(gap, Bandwidth(request), guards)]
    <2>2. PICK offer : offer = screen'.sides[CanonicalLeg].allocated
      OBVIOUS
    <2>3. offer = SidesOf(input)[CanonicalLeg].allocated
      BY <2>1, <2>2 DEF Proposal
    <2>4. PICK odd : odd = Bandwidth(screen'.input.request) % 2
      OBVIOUS
    <2>5. screen'.input.request = request
      BY <2>1 DEF Proposal
    <2>6. /\ wide \in Nat \ {0} /\ odd \in {0, 1} /\ gap.start \in Int
          /\ offer = FrequencyRange(gap.start - odd, gap.start + wide)
          /\ FreePlace(FrequencyRange(gap.start, gap.start + wide), CanonicalLeg)
      <3>1. odd = Bandwidth(request) % 2
        BY <2>4, <2>5
      <3> HIDE DEF input, typed
      <3> QED BY <1>1, <2>1, <2>3, <3>1, OfferFillsItsGap DEF input, typed
    <2>7. PICK place : place = FrequencyRange(offer.start + odd, offer.end)
      OBVIOUS
    <2>8. /\ place = FrequencyRange(gap.start, gap.start + wide)
          /\ place.start = gap.start /\ Width(place) = wide
      <3> HIDE DEF wide
      <3> QED BY <2>6, <2>7 DEF FrequencyRange, Width
    <2>9. \A start \in LowestStart(CanonicalLeg) .. place.start - 1 :
             ~FreePlace(FrequencyRange(start, start + Width(place)), CanonicalLeg)
      <3> TAKE start \in LowestStart(CanonicalLeg) .. place.start - 1
      <3>1. start \in Int /\ start < gap.start
        BY <2>6, <2>8
      <3> HIDE DEF guards
      <3> QED BY <1>1, <2>1, <2>6, <2>8, <3>1, NothingLowerIsFree
    <2> QED BY <2>2, <2>4, <2>6, <2>7, <2>8, <2>9
  <1>2. ASSUME [Next]_vars, Offered
        PROVE  \E request \in Request, override \in Policy \cup {None}, validity \in Validity :
                  AutoPlace(request, override, validity)
    <2>1. \A input : ~Proposal(input, FALSE).offered
      BY DEF Proposal
    <2> QED
      BY <1>2, <2>1 DEF Next, vars, Offered, Shown, Preview, Judge, Write, Plan, Cancel,
                        OtherReserves, OtherReleases, Tick
  <1>3. ASSUME IInv, [Next]_vars PROVE [Offered => Leftmost]_vars
    BY <1>1, <1>2, <1>3
  <1> QED BY <1>3, Invariant, PTL DEF Spec, LeftmostIsOffered
=============================================================================
