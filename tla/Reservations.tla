---------------------------- MODULE Reservations ----------------------------
(***************************************************************************)
(* The occupancy rows of the table spectrum_reservation: what a row is and *)
(* when two rows collide (src/spectrum/models.py).                         *)
(*                                                                         *)
(* An allocation (a Satnet Path) is placed by a placement: the claims its  *)
(* legs make, one for each resource a leg occupies, in the order           *)
(* reserve() writes them, and the period it is valid for.                  *)
(***************************************************************************)
EXTENDS Ranges, Periods, Statuses

CONSTANTS
    Path,              \* Satnet Path identifiers
    Resource,          \* spectrum resources: what rows compete on
    Placement,         \* [claims : Seq(Claim), period]
    Grant              \* assignment -> [bounds, period, active]

Hz     == Int
Moment == Nat

AnyRange  == RangesOver(Hz)
AnyPeriod == PeriodsOver(Moment)

Claim == [resource : Resource, assignment : DOMAIN Grant, allocated : AnyRange]

ASSUME GrantAssumption ==
    \A a \in DOMAIN Grant :
        Grant[a] \in [bounds : AnyRange, period : AnyPeriod, active : BOOLEAN]

ASSUME PlacementAssumption ==
    \A pl \in Placement :
        /\ pl.claims \in Seq(Claim)
        /\ pl.period \in AnyPeriod

\* A resource is on one leg, and mapped to a direction once
\* (uq_beam_direction_spectrum_resource): an allocation claims it once.
ASSUME OneClaimAssumption ==
    \A pl \in Placement :
        \A i, j \in DOMAIN pl.claims : i # j => pl.claims[i].resource # pl.claims[j].resource

\* ck_res_reserves_status: what the status says of holding, where it says it.
StatusPins(row) ==
    /\ row.status \in AlwaysReserving => row.holds
    /\ row.status \in NeverReserving => ~row.holds

Row ==
    {row \in [path       : Path,
              resource   : Resource,
              assignment : DOMAIN Grant,
              allocated  : AnyRange,
              period     : AnyPeriod,
              status     : PathStatus,
              holds      : BOOLEAN,
              again      : BOOLEAN] : StatusPins(row)}

\* The row reserve() writes for one claim of an allocation; again tells the rows
\* of a second placing from those that were there (in the table, their keys do).
RowFor(path, claim, period, status, again) ==
    [path       |-> path,
     resource   |-> claim.resource,
     assignment |-> claim.assignment,
     allocated  |-> claim.allocated,
     period     |-> period,
     status     |-> status,
     holds      |-> ReservesSpectrum(status, TRUE),
     again      |-> again]

\* The row set_status() leaves where row was.
Restatused(row, status) ==
    [row EXCEPT !.status = status, !.holds = ReservesSpectrum(status, SuspendedRetains)]

\* excl_reservation_overlap: two rows this constraint does not let coexist.
Clash(a, b) ==
    /\ a.holds /\ b.holds
    /\ a.resource = b.resource
    /\ Overlaps(a.allocated, b.allocated)
    /\ PeriodsOverlap(a.period, b.period)

\* Mutant of Entitled: the assignment's own period is not looked at.
EntitledAtSomeTime(row) ==
    Grant[row.assignment].active /\ Contains(Grant[row.assignment].bounds, row.allocated)

\* ck_res_within_assignment, and the half _check_entitlement holds in the service.
Entitled(row) ==
    LET grant == Grant[row.assignment]
    IN  /\ grant.active
        /\ PeriodContains(grant.period, row.period)
        /\ Contains(grant.bounds, row.allocated)

RowsOf(rows, path) == {r \in rows : r.path = path}

\* Every row of an allocation placed by pl.
Rows(path, pl, status, again) ==
    {RowFor(path, pl.claims[i], pl.period, status, again) : i \in DOMAIN pl.claims}

Disjoint(rows) == \A a, b \in rows : a # b => ~Clash(a, b)
=============================================================================
