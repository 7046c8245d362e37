------------------------------ MODULE Statuses ------------------------------
(***************************************************************************)
(* The lifecycle statuses, and which of them hold spectrum                 *)
(* (src/spectrum/constants.py; reserves_spectrum of spectrum/services.py). *)
(***************************************************************************)
CONSTANT SuspendedRetains   \* the setting SUSPENDED_RETAINS_SPECTRUM

ASSUME SettingAssumption == SuspendedRetains \in BOOLEAN

AlwaysReserving == {"PLANNED", "PENDING_APPROVAL", "ON_AIR"}
NeverReserving  == {"DRAFT", "CANCELLED", "RETIRED", "IMPORT_REVIEW"}
PathStatus      == AlwaysReserving \cup NeverReserving \cup {"SUSPENDED"}

\* Does an allocation in this status hold its spectrum?  Moves along the lifecycle
\* pass the setting for retains; creation and edits leave it at its default, TRUE.
ReservesSpectrum(status, retains) ==
    \/ status \in AlwaysReserving
    \/ status = "SUSPENDED" /\ retains
=============================================================================
