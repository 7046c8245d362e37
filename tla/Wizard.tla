------------------------------- MODULE Wizard -------------------------------
(***************************************************************************)
(* The placement wizard of one Beam direction: preview, auto_place and     *)
(* create of src/satnet_paths/services.py, the checks they make            *)
(* (satnets/containment.py, spectrum/selectors.py) and the constraints     *)
(* that judge the save, with the move of a draft to PLANNED                *)
(* (satnet_paths/lifecycle.py), while other Beams reserve and release      *)
(* spectrum on the same resources and time goes on.                        *)
(*                                                                         *)
(* preview and auto_place look at what is active NOW; a save is judged     *)
(* over the whole period asked for, by the constraint.  create previews    *)
(* before the transaction that writes (Judge, then Write): what it looked  *)
(* at may have changed in between.  The transaction itself is one step     *)
(* here; ReservationTxn has its statements.                                *)
(***************************************************************************)
EXTENDS PlacementEngine, Periods, FreeSpectrum, FiniteSets

CONSTANTS
    Path,            \* allocations the operator may make
    Other,           \* whoever else holds spectrum on the resources
    Resource,
    ResourcesOf,     \* leg -> the resources it competes on
    Assignments,     \* leg -> its active assignments, in order of rf_start
    CanonicalLeg,    \* the leg an operator's centre is said to be on
    Translation,     \* of the direction's payload path
    SatnetValidity, BeamValidity,
    SatnetPolicy,    \* the Satnet's default guard policy
    Request, Policy, Centre, Validity,    \* what the operator may type
    OtherRange,      \* leg -> what others may reserve there
    MaxNow,          \* bound on the clock
    MaxOther,        \* bound on the reservations of others
    None             \* no override, no assignment, nothing on the screen

Leg == {"UPLINK", "DOWNLINK"}

AnyRange  == RangesOver(Int)
AnyPeriod == PeriodsOver(Nat)

ASSUME ConfigAssumption ==
    /\ ResourcesOf \in [Leg -> SUBSET Resource]
    /\ Assignments \in [Leg -> Seq([bounds : AnyRange, period : AnyPeriod])]
    /\ CanonicalLeg \in Leg /\ Translation \in TranslationSpec
    /\ OtherRange \in [Leg -> SUBSET AnyRange]
    /\ Validity \cup {SatnetValidity, BeamValidity} \subseteq AnyPeriod
    /\ Request \subseteq BandwidthRequest
    /\ Policy \cup {SatnetPolicy} \subseteq GuardPolicySpec
    /\ Centre \subseteq Int
    /\ Other \notin Path /\ MaxNow \in Nat /\ MaxOther \in Nat

VARIABLES
    now,      \* the clock
    rows,     \* the reservations on the resources, all of them holding
    drafts,   \* path -> the allocation saved as a draft, planned since or not
    screen,   \* the proposal the operator looks at
    saving,   \* the save that has been judged and not yet written
    reply     \* what a save or a move is answered, until the next step

vars == <<now, rows, drafts, screen, saving, reply>>

Row == [path : Path \cup {Other}, leg : Leg, resource : Resource,
        allocated : AnyRange, period : AnyPeriod]

Code == {"NO_ACTIVE_ASSIGNMENT", "NO_COMMON_PERIOD", "PERIOD_NOT_CONTAINED",
         "LEG_HAS_NO_SPECTRUM_RESOURCE", "OUTSIDE_ENTITLEMENT", "SPECTRUM_CONFLICT"}

Finding == [code : Code, leg : Leg]

Input == [request : Request, override : Policy \cup {None}, centre : Int, validity : Validity]

Reply == {"none", "saved", "blocked", "invalid", "outside", "conflict", "planned", "refused"}

\* What an allocation's record stores has been placed: a range on each leg, the
\* period, and the assignment each leg was judged by, if there was one.
IsAllocation(a) ==
    /\ \A leg \in Leg : a.sides[leg].allocated \in AnyRange
    /\ a.validity \in Validity
    /\ \A leg \in Leg : a.assignments[leg] = None \/
                           \E n \in DOMAIN Assignments[leg] : a.assignments[leg] = Assignments[leg][n]

TypeOK ==
    /\ now \in 0 .. MaxNow
    /\ rows \subseteq Row
    /\ screen # None =>
          /\ screen.input \in Input /\ screen.offered \in BOOLEAN
          /\ screen.findings \subseteq Finding
          /\ \A leg \in Leg : screen.sides[leg].allocated \in AnyRange
    /\ DOMAIN drafts = Path
    /\ \A path \in Path : drafts[path] # None => IsAllocation(drafts[path])
    /\ saving # None =>
          /\ saving.path \in Path /\ saving.operational \in BOOLEAN
          /\ IsAllocation(saving.allocation)
          /\ saving.active \subseteq rows
    /\ reply \in Reply

Init ==
    /\ now = 0 /\ rows = {} /\ drafts = [path \in Path |-> None]
    /\ screen = None /\ saving = None /\ reply = "none"
-----------------------------------------------------------------------------
(***************************************************************************)
(* What is in force at a moment: spectrum/selectors.py.                    *)
(***************************************************************************)
\* The active assignments of a leg, by their place in the order of rf_start.
ActiveAssignments(leg, moment) ==
    {n \in DOMAIN Assignments[leg] : ActiveAt(Assignments[leg][n].period, moment)}

\* Mutant of ReservationsOn: only those on the canonical leg are looked at.
ReservationsOnCanonical(leg, moment) ==
    {r \in rows : /\ leg = CanonicalLeg /\ r.resource \in ResourcesOf[leg]
                  /\ ActiveAt(r.period, moment)}

ReservationsOn(leg, moment) ==
    {r \in rows : r.resource \in ResourcesOf[leg] /\ ActiveAt(r.period, moment)}

\* The gaps of capacity().
GapsOf(leg, moment) ==
    LET taken == {r.allocated : r \in ReservationsOn(leg, moment)}
    IN  UNION {MaximalFree(Assignments[leg][n].bounds, taken) :
                  n \in ActiveAssignments(leg, moment)}

\* _assignment_for: the first of the active ones.
AssignmentFor(leg, moment) ==
    LET active == ActiveAssignments(leg, moment)
    IN  IF active = {} THEN None
        ELSE Assignments[leg][CHOOSE n \in active : \A m \in active : n <= m]
-----------------------------------------------------------------------------
(***************************************************************************)
(* preview and its checks.                                                 *)
(***************************************************************************)
OtherLeg(leg) == CHOOSE other \in Leg : other # leg

GuardsFor(input) ==
    ResolveGuards(IF input.override = None THEN SatnetPolicy ELSE input.override,
                  Bandwidth(input.request))

\* Mutant of CheckContainment: the Beam's validity is left out.
ContainedInSatnet(assignment, requested) ==
    LET permitted == Intersect({SatnetValidity, assignment.period})
    IN  IF permitted = NoPeriod THEN {"NO_COMMON_PERIOD"}
        ELSE IF PeriodContains(permitted, requested) THEN {} ELSE {"PERIOD_NOT_CONTAINED"}

\* containment.evaluate, for the canonical leg's assignment.
CheckContainment(assignment, requested) ==
    LET permitted == Intersect({SatnetValidity, BeamValidity, assignment.period})
    IN  IF permitted = NoPeriod THEN {"NO_COMMON_PERIOD"}
        ELSE IF PeriodContains(permitted, requested) THEN {} ELSE {"PERIOD_NOT_CONTAINED"}

\* Mutant of InTheWay: reservations of another period are in the way too.
InTheWayAtAnyTime(row, proposed, requested) == Overlaps(proposed, row.allocated)

InTheWay(row, proposed, requested) ==
    Overlaps(proposed, row.allocated) /\ PeriodsOverlap(requested, row.period)

\* _check_conflicts, for one leg.
CheckConflicts(leg, proposed, requested) ==
    IF ResourcesOf[leg] = {} THEN {"LEG_HAS_NO_SPECTRUM_RESOURCE"}
    ELSE (IF Contains(AssignmentFor(leg, now).bounds, proposed)
          THEN {} ELSE {"OUTSIDE_ENTITLEMENT"})
         \cup (IF \E r \in ReservationsOn(leg, now) : InTheWay(r, proposed, requested)
               THEN {"SPECTRUM_CONFLICT"} ELSE {})

On(leg, codes) == {[code |-> code, leg |-> leg] : code \in codes}

FindingsFor(sides, requested) ==
    IF \E leg \in Leg : AssignmentFor(leg, now) = None
    THEN On(CanonicalLeg, {"NO_ACTIVE_ASSIGNMENT"})
    ELSE On(CanonicalLeg, CheckContainment(AssignmentFor(CanonicalLeg, now), requested))
         \cup UNION {On(leg, CheckConflicts(leg, sides[leg].allocated, requested)) : leg \in Leg}

SidesOf(input) ==
    PlaceBothSides(input.centre, Bandwidth(input.request), GuardsFor(input), Translation,
                   "UPLINK")

Proposal(input, offered) ==
    LET sides == SidesOf(input)
    IN  [input |-> input, offered |-> offered, sides |-> sides,
         findings |-> FindingsFor(sides, input.validity)]

\* The operator, who has no save under way, asks for a preview of what they typed.
Preview(input) ==
    /\ saving = None
    /\ screen' = Proposal(input, FALSE)
    /\ reply' = "none"
    /\ UNCHANGED <<now, rows, drafts, saving>>
-----------------------------------------------------------------------------
(***************************************************************************)
(* auto_place: the lowest gap of the canonical leg that is wide enough.    *)
(***************************************************************************)
\* Mutant of CentreIn: the left guard is forgotten.
CentreUnguarded(gap, bandwidth, guards) == gap.start + bandwidth \div 2

CentreIn(gap, bandwidth, guards) == gap.start + guards.left + bandwidth \div 2

FittingGaps(request, guards) ==
    {gap \in GapsOf(CanonicalLeg, now) :
        Width(gap) >= Bandwidth(request) + guards.left + guards.right}

AutoPlace(request, override, validity) ==
    LET typed   == [request |-> request, override |-> override, centre |-> 0,
                    validity |-> validity]
        guards  == GuardsFor(typed)
        fitting == FittingGaps(request, guards)
    IN  /\ saving = None
        /\ \/ fitting = {} /\ screen' = None
           \/ \E gap \in fitting :
                 LET centre == CentreIn(gap, Bandwidth(request), guards)
                 IN  /\ \A other \in fitting : gap.start <= other.start
                     /\ screen' = Proposal([typed EXCEPT !.centre = centre], TRUE)
        /\ reply' = "none"
        /\ UNCHANGED <<now, rows, drafts, saving>>
-----------------------------------------------------------------------------
(***************************************************************************)
(* create: every check again, and then, in a transaction, the constraints  *)
(* of the two tables.  A status other than DRAFT is operational; PLANNED   *)
(* stands here for those whose rows hold spectrum.                         *)
(***************************************************************************)
RowsFor(path, sides, validity) ==
    UNION {{[path |-> path, leg |-> leg, resource |-> resource,
             allocated |-> sides[leg].allocated, period |-> validity] :
                resource \in ResourcesOf[leg]} : leg \in Leg}

\* ck_path_legs and ck_path_center_in_occupied.
StoredAsTyped(sides, centre) ==
    /\ CanonicalLeg = "UPLINK"
    /\ ContainsHz(sides[CanonicalLeg].occupied, centre)

\* _check_entitlement and ck_res_within_assignment: every leg in the assignment
\* its record names.
Entitled(allocation) ==
    \A leg \in Leg :
        /\ Contains(allocation.assignments[leg].bounds, allocation.sides[leg].allocated)
        /\ PeriodContains(allocation.assignments[leg].period, allocation.validity)

\* excl_reservation_overlap.
Clash(a, b) ==
    /\ a.resource = b.resource
    /\ Overlaps(a.allocated, b.allocated) /\ PeriodsOverlap(a.period, b.period)

Refused(newRows) == \E new \in newRows, r \in rows : Clash(new, r)

\* create up to the write: every check again.  A draft keeps its findings, an
\* operational allocation is blocked by them.
Judge(path, operational) ==
    /\ screen # None /\ saving = None
    /\ drafts[path] = None /\ \A r \in rows : r.path # path
    /\ LET again == Proposal(screen.input, FALSE)
       IN  \/ /\ operational /\ again.findings # {}
              /\ screen' = again /\ reply' = "blocked" /\ UNCHANGED saving
           \/ /\ operational => again.findings = {}
              /\ saving' = [path |-> path, operational |-> operational,
                            active |-> {r \in rows : ActiveAt(r.period, now)},
                            allocation |-> [sides       |-> again.sides,
                                            centre      |-> screen.input.centre,
                                            validity    |-> screen.input.validity,
                                            assignments |-> [leg \in Leg |->
                                                                AssignmentFor(leg, now)]]]
              /\ screen' = None /\ reply' = "none"
    /\ UNCHANGED <<now, rows, drafts>>

\* full_clean and the checks of the table: a record names an assignment on each
\* leg, and is stored as it was typed.
Storable(allocation) ==
    /\ \A leg \in Leg : allocation.assignments[leg] # None
    /\ StoredAsTyped(allocation.sides, allocation.centre)

ReplyTo(allocation, operational, newRows) ==
    IF ~Storable(allocation) THEN "invalid"
    ELSE IF operational /\ ~Entitled(allocation) THEN "outside"
    ELSE IF operational /\ Refused(newRows) THEN "conflict"
    ELSE "saved"

\* _create: the record, and the rows of an operational one, as they were judged.
Write ==
    /\ saving # None
    /\ LET allocation == saving.allocation
           newRows    == RowsFor(saving.path, allocation.sides, allocation.validity)
       IN  /\ reply' = ReplyTo(allocation, saving.operational, newRows)
           /\ rows' = IF reply' = "saved" /\ saving.operational THEN rows \cup newRows ELSE rows
           /\ drafts' = IF reply' = "saved" /\ ~saving.operational
                        THEN [drafts EXCEPT ![saving.path] = allocation] ELSE drafts
    /\ saving' = None
    /\ UNCHANGED <<now, screen>>

\* plan: the record's own ranges, period and assignments are reserved; preview
\* and its checks are not asked again.  The path may have been planned since
\* the request loaded it.
Plan(path) ==
    /\ drafts[path] # None
    /\ LET newRows == RowsFor(path, drafts[path].sides, drafts[path].validity)
       IN  /\ reply' = IF Entitled(drafts[path]) /\ ~Refused(newRows) THEN "planned" ELSE "refused"
           /\ rows' = IF reply' = "planned" THEN rows \cup newRows ELSE rows
    /\ UNCHANGED <<now, drafts, screen, saving>>

\* Of the rows that were active when the save under way was judged, these are gone.
Forget(gone) ==
    saving' = IF saving = None THEN None ELSE [saving EXCEPT !.active = @ \ gone]

\* The operator cancels an allocation: its rows are deleted.
Cancel(path) ==
    /\ drafts[path] # None \/ \E r \in rows : r.path = path
    /\ rows' = {r \in rows : r.path # path}
    /\ drafts' = [drafts EXCEPT ![path] = None]
    /\ Forget({r \in rows : r.path = path})
    /\ reply' = "none"
    /\ UNCHANGED <<now, screen>>
-----------------------------------------------------------------------------
(***************************************************************************)
(* Meanwhile: other Beams on the same resources, and time.                 *)
(***************************************************************************)
OtherReserves(leg, resource, range, period) ==
    LET new == [path |-> Other, leg |-> leg, resource |-> resource,
                allocated |-> range, period |-> period]
    IN  /\ Cardinality({r \in rows : r.path = Other}) < MaxOther
        /\ resource \in ResourcesOf[leg]
        /\ ~Refused({new})
        /\ rows' = rows \cup {new}
        /\ reply' = "none"
    /\ UNCHANGED <<now, drafts, screen, saving>>

OtherReleases(r) ==
    /\ r.path = Other
    /\ rows' = rows \ {r}
    /\ Forget({r})
    /\ reply' = "none"
    /\ UNCHANGED <<now, drafts, screen>>

Tick ==
    /\ now < MaxNow
    /\ now' = now + 1 /\ reply' = "none"
    /\ UNCHANGED <<rows, drafts, screen, saving>>

Next ==
    \/ \E request \in Request, override \in Policy \cup {None}, validity \in Validity :
          \/ AutoPlace(request, override, validity)
          \/ \E centre \in Centre :
                Preview([request |-> request, override |-> override, centre |-> centre,
                         validity |-> validity])
    \/ \E path \in Path :
          (\E operational \in BOOLEAN : Judge(path, operational)) \/ Plan(path) \/ Cancel(path)
    \/ Write
    \/ \E leg \in Leg, resource \in Resource, period \in Validity :
          \E range \in OtherRange[leg] : OtherReserves(leg, resource, range, period)
    \/ \E r \in rows : OtherReleases(r)
    \/ Tick

Spec == Init /\ [][Next]_vars
-----------------------------------------------------------------------------
(***************************************************************************)
(* Properties.                                                             *)
(***************************************************************************)
Shown   == screen' # None /\ screen' # screen
Offered == Shown /\ screen'.offered

\* The reservations that rows on these sides would be refused for, on one leg.
Clashes(sides, validity, leg) ==
    {r \in rows : \E new \in RowsFor(Other, sides, validity) : new.leg = leg /\ Clash(new, r)}

\* A conflict the operator is shown is one the constraint would refuse:
\* _check_conflicts blames no reservation of another period or another
\* resource, so nobody is sent away from spectrum they could have had.
ConflictsShownAreReal ==
    [][Shown => \A leg \in Leg :
          [code |-> "SPECTRUM_CONFLICT", leg |-> leg] \in screen'.findings =>
              Clashes(screen'.sides, screen'.input.validity, leg) # {}]_vars

\* The check and the constraint disagree in two ways only: a save that every
\* check let through and the constraint refuses met reservations that were not
\* active when it was judged, or that were written after it was.  What was
\* there and active on either leg, on any of the resources it competes on, preview
\* has seen.
OnlyTheInactiveSurprises ==
    [][reply' = "conflict" =>
          \A leg \in Leg :
              \A r \in Clashes(saving.allocation.sides, saving.allocation.validity, leg) :
                  r \notin saving.active]_vars

\* What is held stays within its parents (OQ-32): each leg inside one assignment,
\* in frequency and in time, however the row came to be written and although
\* the wizard evaluates the canonical leg only; and the period inside the
\* Satnet's and the Beam's, unless the allocation was saved as a draft first.
HeldWithinItsParents ==
    \A r \in rows : r.path \in Path =>
        /\ drafts[r.path] = None =>
              /\ PeriodContains(SatnetValidity, r.period)
              /\ PeriodContains(BeamValidity, r.period)
        /\ \E n \in DOMAIN Assignments[r.leg] :
              /\ Contains(Assignments[r.leg][n].bounds, r.allocated)
              /\ PeriodContains(Assignments[r.leg][n].period, r.period)

\* The claim of containment.py: a draft may reach outside the periods of its
\* Satnet and its Beam, and entering an active state is then refused.  Refuted
\* by plan, which reserves the draft without evaluating its containment.
ActiveWithinItsParents ==
    \A r \in rows : r.path \in Path =>
        PeriodContains(SatnetValidity, r.period) /\ PeriodContains(BeamValidity, r.period)

FreePlace(range, leg) ==
    \E n \in ActiveAssignments(leg, now) :
        IsFree(range, Assignments[leg][n].bounds,
               {r.allocated : r \in ReservationsOn(leg, now)})

\* No active assignment starts below its lowest start.
LowestStart(leg) ==
    LET starts == {Assignments[leg][n].bounds.start : n \in ActiveAssignments(leg, now)}
    IN  CHOOSE start \in starts : \A other \in starts : start <= other

\* auto_place offers an allocated range that is free now, guards included,
\* and no lower place of that width is free: it is the leftmost, as its
\* comment says.  But for one Hz: half an odd bandwidth is rounded down for the
\* centre and up for the range, which then begins below the place that was chosen.
LeftmostIsOffered ==
    [][Offered =>
          LET offer == screen'.sides[CanonicalLeg].allocated
              odd   == Bandwidth(screen'.input.request) % 2
              place == FrequencyRange(offer.start + odd, offer.end)
          IN  /\ FreePlace(place, CanonicalLeg)
              /\ \A start \in LowestStart(CanonicalLeg) .. place.start - 1 :
                    ~FreePlace(FrequencyRange(start, start + Width(place)), CanonicalLeg)]_vars

\* An inverting or a shifting transponder keeps allocations apart: where both
\* legs compete on resources, a proposal collides with the operator's own
\* allocations on both legs or on neither, whatever the guards' asymmetry, so
\* that clearing the leg that was typed clears its image (place_both_sides).
BothLegsCompete == \A leg \in Leg : ResourcesOf[leg] # {}

ImagesCollideTogether ==
    screen # None /\ BothLegsCompete =>
        \A path \in Path :
            LET Hit(leg) == \E r \in rows : /\ r.path = path /\ r.leg = leg
                                           /\ Overlaps(screen.sides[leg].allocated, r.allocated)
            IN  Hit("UPLINK") <=> Hit("DOWNLINK")

\* What is proposed is spectrum enough, on both legs: the occupied range
\* carries the recorded symbol rate at the roll-off; the guards around it are no
\* narrower than the fixed widths and the percentages of the bandwidth, to the
\* last fraction of a Hz, that the policy in force asks for; and both legs are
\* as wide.
SpectrumCoversTransmission ==
    screen # None =>
        LET input  == screen.input
            policy == IF input.override = None THEN SatnetPolicy ELSE input.override
            up     == screen.sides["UPLINK"]
            left   == up.occupied.start - up.allocated.start
            right  == up.allocated.end - up.occupied.end
            Share(percent) == Bandwidth(input.request) * percent
        IN  /\ Width(up.occupied) * 100 >=
                  Rate(input.request) * (100 + input.request.rolloff)
            /\ Width(up.occupied) >= Bandwidth(input.request)
            /\ policy.mode \in {"PERCENT_OF_OCCUPIED", "MAX_OF_FIXED_AND_PERCENT"} =>
                  /\ left * 100 >= Share(policy.percentLeft)
                  /\ right * 100 >= Share(policy.percentRight)
            /\ policy.mode \in {"FIXED", "MAX_OF_FIXED_AND_PERCENT"} =>
                  /\ left >= policy.fixedLeft
                  /\ right >= policy.fixedRight
            /\ \A part \in {"occupied", "allocated"} :
                  Width(screen.sides["DOWNLINK"][part]) = Width(up[part])
=============================================================================
