------------------------------- MODULE Beams -------------------------------
(***************************************************************************)
(* A Beam over the inventory: src/beams/services.py, forms.py and views.py.*)
(*                                                                         *)
(* A direction is written in one transaction, but at READ COMMITTED: what  *)
(* it reads of the other direction is what was committed then, and others  *)
(* see it when it commits itself.  A request holds the Beam as it loaded   *)
(* it; _store_state saves a state only when it differs from that.          *)
(*                                                                         *)
(* Everybody here may manage Beams.  One Beam is modelled: Beams share     *)
(* nothing but the inventory.                                              *)
(***************************************************************************)
EXTENDS Inventory

INSTANCE BeamValidation

CONSTANTS
    Admin,
    InitialBeam,     \* satellite and band, rows; permitted, polarization pairs
    InitialChains,   \* how its directions were configured before
    DirectionForm    \* what is typed into DirectionForm

VARIABLES
    beam,        \* the row of the Beam
    chains,      \* its directions
    builder,     \* the requests in progress
    justified,   \* the outcome of the validation kept as the reason of an activation
    overlapped,  \* history: two requests were in progress at once
    shaken       \* history: resources of its chains changed under it

beamVars == <<beam, chains, builder, justified, overlapped, shaken>>

vars == <<inventoryVars, beamVars>>

\* The pairs a payload path lists; here both paths list the same.
PayloadPolarizationMapping == SUBSET (PolarizationType \X PolarizationType)

Beam ==
    [satellite : Nat, band : Nat, permitted : PayloadPolarizationMapping,
     state : ConfigurationState, active : BOOLEAN, activated_at : BOOLEAN]

BeamSpectrumAssignment ==
    [window : Nat, path : Nat, edges : Int \X Int, active : BOOLEAN]

BeamDirectionConfig ==
    [enabled : BOOLEAN, path : Nat \cup {None}, uplink : Nat \cup {None},
     downlink : Nat \cup {None}, leg : SpectrumLeg \cup {None},
     polarizations : (PolarizationType \X PolarizationType) \cup {None},
     equipment : SUBSET Nat, resources : SUBSET Nat,
     assignments : SUBSET BeamSpectrumAssignment]

\* What a chain holds of the inventory is there.
HoldsRows(rs, chain) ==
    /\ chain.path # None => IsRow(rs, chain.path, "PayloadPath")
    /\ \A w \in {chain.uplink, chain.downlink} \ {None} : IsRow(rs, w, "FrequencyWindow")
    /\ \A e \in chain.equipment : IsRow(rs, e, "EquipmentProfile")

\* The screen shows no windows and no resources.
ASSUME FormAssumption ==
    DirectionForm \subseteq
        [enabled : BOOLEAN, path : Nat \cup {None}, uplink : {None}, downlink : {None},
         leg : SpectrumLeg \cup {None},
         polarizations : (PolarizationType \X PolarizationType) \cup {None},
         equipment : SUBSET Nat, resources : {None}]

ASSUME ConfiguredAssumption ==
    /\ InitialBeam \in [satellite : Nat, band : Nat, permitted : PayloadPolarizationMapping]
    /\ InitialChains \in [Direction -> BeamDirectionConfig]
    /\ \A d \in Direction :
           LET chain == InitialChains[d]
           IN  /\ HoldsRows(InitialRows, chain)
               /\ \A e \in chain.equipment : InitialRows[e].active
               /\ \A s \in chain.resources : IsRow(InitialRows, s, "SpectrumResource")

ASSUME NoneAssumption == None \notin {"PASSED", "PASSED_WITH_WARNINGS", "FAILED"}

\* beams.services.create: both directions, enabled and unconfigured.
NewBeam(satellite, band, permitted) ==
    [satellite |-> satellite, band |-> band, permitted |-> permitted,
     state |-> "INCOMPLETE", active |-> FALSE, activated_at |-> FALSE]

NewChains == [d \in Direction |-> Unconfigured(d)]

\* A Beam as it was just created, over active rows (BeamIdentityForm), or one
\* that was configured before.
Init ==
    /\ InventoryInit
    /\ rows[InitialBeam.satellite].active /\ rows[InitialBeam.band].active
    /\ chains \in {NewChains, InitialChains}
    /\ beam = [NewBeam(InitialBeam.satellite, InitialBeam.band, InitialBeam.permitted)
                  EXCEPT !.state = Validate(rows, InitialBeam, chains)]
    /\ builder = [a \in Admin |-> Idle]
    /\ justified = None /\ overlapped = FALSE /\ shaken = {}
-----------------------------------------------------------------------------
(***************************************************************************)
(* What the Beam holds of the inventory.                                   *)
(***************************************************************************)
Held(chain) == ({chain.path, chain.uplink, chain.downlink} \ {None}) \cup chain.equipment

\* BeamsConfig.ready; its resources are not registered.
HeldByBeams == {beam.satellite} \cup UNION {Held(chains[d]) : d \in Direction}

\* Of the forms being processed, before they are committed.
AboutToHold ==
    UNION {IF builder[a].step = "submitted" THEN Held(builder[a].form)
           ELSE IF builder[a].step = "judged" THEN Held(builder[a].chain) ELSE {} : a \in Admin}

Resources == UNION {chains[d].resources : d \in Direction}

\* fk_assignment_window_edges.
EdgesPinned ==
    \A d \in Direction : \A a \in chains[d].assignments :
        a.edges = <<rows[a.window].body.rf_start, rows[a.window].body.rf_end>>
-----------------------------------------------------------------------------
BuilderAt(a, now) ==
    /\ builder' = [builder EXCEPT ![a] = now]
    /\ overlapped' = (overlapped \/ \E b \in Admin \ {a} : builder[b] # Idle)
    /\ late' = late \cup (Checking \cap AboutToHold')
    /\ UNCHANGED <<rows, request, allowed, shaken>>

Starts(a) == builder[a] = Idle /\ Begins

\* The row of the Beam is written by a transaction that is not over.
BeamLocked(a) == \E b \in Admin \ {a} : builder[b].step = "judged" /\ builder[b].saves

\* _store_state, of a request that loaded the Beam with state seen.
Stored(seen, state) == IF state = seen THEN beam ELSE [beam EXCEPT !.state = state]

\* ck_beam_active_requires_valid_configuration and
\* ck_beam_active_has_activation_record.
StateRequired(row) == row.active => row.state = "VALID" /\ row.activated_at
-----------------------------------------------------------------------------
(***************************************************************************)
(* update_direction.                                                       *)
(***************************************************************************)
PathOffered(direction, path) ==
    /\ IsRow(rows, path, "PayloadPath")
    /\ rows[path].active /\ rows[path].until = Open
    /\ rows[path].body.satellite = beam.satellite /\ rows[path].body.direction = direction

PolarizationOffered(chain, pair) ==
    \/ pair = None \/ chain.path = None \/ beam.permitted = {}
    \/ \E p, q \in beam.permitted : pair = <<p[1], q[2]>>

DirectionFormValid(direction, form) ==
    /\ IF form.path = None THEN ~form.enabled
       ELSE /\ PathOffered(direction, form.path)
            /\ form.enabled /\ form.leg # None => form.leg \in LegsOf(rows, form)
    /\ \A e \in form.equipment :
           /\ IsRow(rows, e, "EquipmentProfile")
           /\ rows[e].active /\ rows[e].until = Open /\ rows[e].body.band = beam.band
    /\ PolarizationOffered(chains[direction], form.polarizations)

\* model_values: the windows are the path's, or none.
WithWindows(form) ==
    [form EXCEPT !.uplink = IF form.path = None THEN None ELSE rows[form.path].body.uplink,
                 !.downlink = IF form.path = None THEN None ELSE rows[form.path].body.downlink]

SubmitDirection(a, direction, form) ==
    /\ Starts(a) /\ DirectionFormValid(direction, form)
    /\ BuilderAt(a, [step |-> "submitted", direction |-> direction, form |-> WithWindows(form),
                     seen |-> beam.state])
    /\ UNCHANGED <<beam, chains, justified>>

\* _ensure_default_assignments: a window that has none gets all of itself.
DefaultAssignments(chain) ==
    IF ~IsConfigured(chain) THEN {}
    ELSE {[window |-> w, path |-> chain.path, active |-> TRUE,
           edges |-> <<rows[w].body.rf_start, rows[w].body.rf_end>>]
             : w \in {chain.uplink, chain.downlink} \ {a.window : a \in chain.assignments}}

\* The screen shows no resources and leaves them (resources=None).
Configured(chain, form) ==
    LET set == [chain EXCEPT !.enabled = form.enabled, !.path = form.path,
                             !.uplink = form.uplink, !.downlink = form.downlink,
                             !.leg = form.leg, !.polarizations = form.polarizations,
                             !.equipment = form.equipment,
                             !.resources = IF form.resources = None THEN @ ELSE form.resources]
    IN  [set EXCEPT !.assignments = @ \cup DefaultAssignments(set)]

\* Mutant of JudgedChains: the direction edited is all that is looked at.
OnlyThisChain(direction, chain) == [chains EXCEPT ![direction] = chain, !["RTN"] = chain]

JudgedChains(direction, chain) == [chains EXCEPT ![direction] = chain]

\* The transaction up to its commit; a direction is written by one at a time.
Judge(a) ==
    LET me    == builder[a]
        chain == Configured(chains[me.direction], me.form)
        state == Validate(rows, beam, JudgedChains(me.direction, chain))
    IN  /\ me.step = "submitted"
        /\ ~\E b \in Admin : builder[b].step = "judged" /\ builder[b].direction = me.direction
        /\ state # me.seen => ~BeamLocked(a) /\ StateRequired([beam EXCEPT !.state = state])
        /\ BuilderAt(a, [step |-> "judged", direction |-> me.direction, chain |-> chain,
                         state |-> state, saves |-> state # me.seen])
        /\ UNCHANGED <<beam, chains, justified, started>>

CommitDirection(a) ==
    LET me == builder[a]
    IN  /\ me.step = "judged" /\ BuilderAt(a, Idle)
        /\ chains' = [chains EXCEPT ![me.direction] = me.chain]
        /\ ChainSound(me.chain) /\ EdgesPinned'
        /\ beam' = IF me.saves THEN [beam EXCEPT !.state = me.state] ELSE beam
        /\ UNCHANGED <<justified, started>>
-----------------------------------------------------------------------------
(***************************************************************************)
(* validate_beam and set_active.                                           *)
(***************************************************************************)
Load(a, task) ==
    /\ Starts(a)
    /\ BuilderAt(a, [step |-> "loaded", task |-> task, seen |-> beam.state,
                     activated_at |-> beam.activated_at])
    /\ UNCHANGED <<beam, chains, justified>>

\* _validate_beam: a transaction of its own.
ValidateBeam(a) ==
    LET me    == builder[a]
        state == Validate(rows, beam, chains)
    IN  /\ me.step = "loaded" /\ me.task \in {"validate", "activate"}
        /\ beam' = Stored(me.seen, state) /\ StateRequired(beam')
        /\ state # me.seen => ~BeamLocked(a)
        /\ BuilderAt(a, IF me.task = "activate" THEN [step |-> "validated"] ELSE Idle)
        /\ UNCHANGED <<chains, justified, started>>

\* The second validation of set_active.
Activatable == Validate(rows, beam, chains) = "VALID"

\* The result is saved as the justification, before the Beam is active.
Clear(a) ==
    /\ builder[a].step = "validated" /\ Activatable
    /\ justified' = Outcome(rows, beam, chains)
    /\ BuilderAt(a, [step |-> "cleared"])
    /\ UNCHANGED <<beam, chains, started>>

\* ActivationBlockedError.
Block(a) ==
    /\ builder[a].step = "validated" /\ ~Activatable
    /\ BuilderAt(a, Idle)
    /\ UNCHANGED <<beam, chains, justified, started>>

Activate(a) ==
    /\ builder[a].step = "cleared" /\ ~BeamLocked(a)
    /\ beam' = [beam EXCEPT !.active = TRUE, !.activated_at = TRUE] /\ StateRequired(beam')
    /\ BuilderAt(a, Idle)
    /\ UNCHANGED <<chains, justified, started>>

\* Mutant of Deactivated: the record goes with the activation.
DeactivatedUnrecorded(a) == [beam EXCEPT !.active = FALSE, !.activated_at = FALSE]

\* The record of the activation is written back as it was loaded.
Deactivated(a) ==
    [beam EXCEPT !.active = FALSE, !.activated_at = builder[a].activated_at]

DeactivateBeam(a) ==
    /\ builder[a].step = "loaded" /\ builder[a].task = "deactivate" /\ ~BeamLocked(a)
    /\ beam' = Deactivated(a)
    /\ BuilderAt(a, Idle)
    /\ UNCHANGED <<chains, justified, started>>

\* The form is refused, the database refuses, or the process ends.
BuilderGivesUp(a) ==
    /\ builder[a] # Idle /\ BuilderAt(a, Idle)
    /\ UNCHANGED <<beam, chains, justified, started>>
-----------------------------------------------------------------------------
\* A step of the inventory, the Beam watching.
InventoryStep ==
    /\ UNCHANGED <<beam, chains, builder, justified, overlapped>>
    /\ InventoryNext(HeldByBeams, AboutToHold)
    /\ EdgesPinned'
    /\ shaken' = shaken \cup {s \in Resources : rows'[s] # rows[s]}

BuilderStep(a) ==
    \/ \E d \in Direction, form \in DirectionForm : SubmitDirection(a, d, form)
    \/ Judge(a) \/ CommitDirection(a)
    \/ \E task \in {"validate", "activate", "deactivate"} : Load(a, task)
    \/ ValidateBeam(a) \/ Clear(a) \/ Block(a) \/ Activate(a) \/ DeactivateBeam(a)
    \/ BuilderGivesUp(a)

Next == InventoryStep \/ \E a \in Admin : BuilderStep(a)

Spec == Init /\ [][Next]_vars
-----------------------------------------------------------------------------
(***************************************************************************)
(* Properties.                                                             *)
(***************************************************************************)
TypeOK ==
    /\ \A i \in DOMAIN rows : rows[i].kind \in Kind /\ rows[i].body \in Record(rows[i].kind)
    /\ beam \in Beam /\ chains \in [Direction -> BeamDirectionConfig]

\* Every payload path runs from an uplink to a downlink of its own direction,
\* by what its windows say now and not by what it copied of them, whatever
\* was edited, superseded or written late.
PathsRunTheirWay ==
    \A i \in DOMAIN rows :
        rows[i].kind = "PayloadPath" =>
            LET path == rows[i].body
            IN  /\ rows[path.uplink].body.side = UplinkSide(path.direction)
                /\ rows[path.downlink].body.side = DownlinkSide(path.direction)

\* An active row rests on active rows, where its form offers no others,
\* unless one of them was being deactivated while something came to use it.
RestsOnActive ==
    \A i \in DOMAIN rows :
        LET used == Named(rows[i].body, OfferedFields(rows[i].kind))
        IN  rows[i].active => \A j \in used \ late : rows[j].active

Engineering(i) == [field \in EngineeringFields(rows[i].kind) |-> rows[i].body[field]]

\* "An in-use version is immutable": what a payload path or a Beam was
\* validated against is not edited, unless they came to use it between the
\* check of an edit and its write, which are two transactions.
InUseKeepsItsValues ==
    [][\A i \in DOMAIN rows :
          IsInUse(i, HeldByBeams) /\ Engineering(i)' # Engineering(i) => i \in late]_vars

\* An edit overwrites what its form showed, as far as its row goes: the
\* polarizations of a Band are rows of their own, written after it and under no
\* version, and an edit whose row is saved may lose or overwrite them.
\* The one exception is the end of a period: superseding a row does not count as a
\* version of it, and a form that was open meanwhile reopens the predecessor.
NothingOverwrittenUnseen ==
    [][\A i \in DOMAIN rows :
          rows'[i].version # rows[i].version =>
              \E r \in Request :
                  /\ request[r].step = "checked" /\ request'[r].step # "checked"
                  /\ LET shown == request[r].shown
                     IN  /\ shown.body = rows[i].body /\ shown.from = rows[i].from
                         /\ shown.until # rows[i].until =>
                                \E j \in DOMAIN rows : /\ rows[j].group = rows[i].group
                                                       /\ rows[j].number = rows[i].number + 1
      ]_vars

\* The stored state of the Beam, which selectable and the activation CHECK
\* go by, is what validation finds now: unless two requests of the builder
\* overlapped, a resource was changed under the Beam, which nothing
\* prevents, or a row was edited while the Beam came to use it.
BadgeIsTrue ==
    ~overlapped /\ shaken = {} /\ late \cap HeldByBeams = {} =>
        beam.state = Validate(rows, beam, chains)

\* The evidence of an activation: no Beam is active without a validation run
\* that is kept as its justification, and the record of who activated it
\* survives its deactivation.  Only a deactivation that overlapped with the
\* activation writes it back as it was before.
EvidenceStays ==
    [][/\ beam'.active => justified' # None
       /\ beam.activated_at /\ ~beam'.activated_at => overlapped']_vars
=============================================================================
