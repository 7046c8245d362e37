--------------------------- MODULE BeamValidation ---------------------------
(***************************************************************************)
(* The rules of src/beams/validation.py: what is wrong with the chains of  *)
(* a Beam, given the rows of the inventory they name.                      *)
(*                                                                         *)
(* A chain is a BeamDirectionConfig with what hangs from it.  Findings are *)
(* their codes; wording and references are left out.                       *)
(***************************************************************************)
EXTENDS Integers, Sequences, FiniteSets

CONSTANT None

ConfigurationState == {"INCOMPLETE", "INVALID", "VALID"}

\* A chain; path, uplink and downlink are rows, an assignment is
\* [window, path, active].  The empty canonical leg is None.
IsConfigured(chain) == None \notin {chain.path, chain.uplink, chain.downlink}

\* ck_beam_direction_chain_all_or_nothing.
ChainSound(chain) ==
    {chain.path, chain.uplink, chain.downlink} = {None} \/ IsConfigured(chain)

\* CANONICAL_LEG_DEFAULTS.
CanonicalLegDefault(direction) == IF direction = "FWD" THEN "HUB_UPLINK" ELSE "REMOTE_UPLINK"

Unconfigured(direction) ==
    [enabled |-> TRUE, path |-> None, uplink |-> None, downlink |-> None,
     leg |-> CanonicalLegDefault(direction), polarizations |-> None,
     equipment |-> {}, resources |-> {}, assignments |-> {}]

When(condition, code) == IF condition THEN {code} ELSE {}
-----------------------------------------------------------------------------
(***************************************************************************)
(* One direction, all of its references being there.                       *)
(***************************************************************************)
CheckWindowIdentity(rows, chain) ==
    LET path == rows[chain.path].body
    IN  When(chain.uplink # path.uplink, "UPLINK_WINDOW_NOT_PATH_WINDOW")
        \cup When(chain.downlink # path.downlink, "DOWNLINK_WINDOW_NOT_PATH_WINDOW")

CheckDirectionSides(rows, direction, chain) ==
    When(rows[chain.path].body.direction # direction, "PAYLOAD_PATH_WRONG_DIRECTION")

\* permitted: the pairs the path lists (PayloadPolarizationMapping).
CheckPolarizations(chain, permitted) ==
    CASE chain.polarizations = None -> {"POLARIZATION_NOT_SET"}
      [] chain.polarizations # None /\ permitted = {} -> {"NO_POLARIZATION_MAPPINGS"}
      [] OTHER -> When(chain.polarizations \notin permitted, "POLARIZATION_NOT_PERMITTED")

LegsOf(rows, chain) ==
    {rows[chain.path].body.uplink_side, rows[chain.path].body.downlink_side}

CheckCanonicalLeg(rows, chain) ==
    IF chain.leg = None THEN {"CANONICAL_LEG_NOT_SET"}
    ELSE When(chain.leg \notin LegsOf(rows, chain), "CANONICAL_LEG_NOT_IN_CHAIN")

CheckEquipment(rows, chain, band) ==
    When(chain.equipment = {}, "NO_EQUIPMENT_PROFILES")
    \cup UNION {IF rows[e].body.band # band THEN {"EQUIPMENT_WRONG_BAND"}
                ELSE When(~rows[e].active, "EQUIPMENT_INACTIVE") : e \in chain.equipment}

CheckSpectrumResources(rows, chain, satellite) ==
    LET mapped == {rows[s].body.leg : s \in chain.resources}
    IN  When(~(LegsOf(rows, chain) \subseteq mapped), "LEG_HAS_NO_SPECTRUM_RESOURCE")
        \cup UNION {IF rows[s].body.satellite # satellite
                    THEN {"SPECTRUM_RESOURCE_WRONG_SATELLITE"}
                    ELSE When(~rows[s].active, "SPECTRUM_RESOURCE_DEACTIVATED")
                       : s \in chain.resources}

CheckSpectrumAssignments(chain) ==
    When(\E w \in {chain.uplink, chain.downlink} :
            ~\E a \in chain.assignments : a.active /\ a.window = w,
         "WINDOW_HAS_NO_ACTIVE_ASSIGNMENT")

CheckDirection(rows, beam, direction, chain) ==
    IF ~IsConfigured(chain) THEN {"DIRECTION_INCOMPLETE"}
    ELSE CheckWindowIdentity(rows, chain) \cup CheckDirectionSides(rows, direction, chain)
         \cup CheckPolarizations(chain, beam.permitted) \cup CheckCanonicalLeg(rows, chain)
         \cup CheckEquipment(rows, chain, beam.band)
         \cup CheckSpectrumResources(rows, chain, beam.satellite)
         \cup CheckSpectrumAssignments(chain)
-----------------------------------------------------------------------------
(***************************************************************************)
(* The Beam.                                                               *)
(***************************************************************************)
Enabled(chains) == {d \in DOMAIN chains : chains[d].enabled}

CheckBeamShape(rows, beam, chains) ==
    When(Enabled(chains) = {}, "NO_ENABLED_DIRECTION")
    \cup When(\E d \in DOMAIN chains :
                 chains[d].path # None /\ rows[chains[d].path].body.satellite # beam.satellite,
              "PAYLOAD_PATH_WRONG_SATELLITE")
    \cup When(Enabled(chains) # DOMAIN chains, "DIRECTION_DISABLED")

\* The rules that warn; all others block.
Warnings == {"NO_POLARIZATION_MAPPINGS", "NO_EQUIPMENT_PROFILES", "DIRECTION_DISABLED"}

Findings(rows, beam, chains) ==
    CheckBeamShape(rows, beam, chains)
    \cup UNION {CheckDirection(rows, beam, d, chains[d]) : d \in Enabled(chains)}

\* _state_for: what is incomplete is not called invalid.
StateFor(chains, findings) ==
    CASE \/ Enabled(chains) = {}
         \/ \E d \in Enabled(chains) : ~IsConfigured(chains[d]) -> "INCOMPLETE"
      [] Enabled(chains) # {} /\ (\A d \in Enabled(chains) : IsConfigured(chains[d])) ->
             IF findings \subseteq Warnings THEN "VALID" ELSE "INVALID"

\* validate.
Validate(rows, beam, chains) == StateFor(chains, Findings(rows, beam, chains))

\* Report.outcome.
Outcome(rows, beam, chains) ==
    IF Validate(rows, beam, chains) # "VALID" THEN "FAILED"
    ELSE IF Findings(rows, beam, chains) # {} THEN "PASSED_WITH_WARNINGS" ELSE "PASSED"
=============================================================================
