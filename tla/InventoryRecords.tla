-------------------------- MODULE InventoryRecords --------------------------
(***************************************************************************)
(* The records of the inventory, and what the database says of one of them *)
(* whatever the program does: the CHECK constraints of                     *)
(* src/inventory/models/ and its migrations, and what the forms of         *)
(* src/inventory/forms.py ask before.                                      *)
(*                                                                         *)
(* Names, notes and references to documents are left out.  A frequency is  *)
(* a small number, and a record refers to another by its row.              *)
(***************************************************************************)
EXTENDS Integers, Sequences, FiniteSets

CONSTANT None

PolarizationType  == {"RHCP", "LHCP", "H", "V"}
ConversionMethod  == {"LO_PLUS_IF", "LO_MINUS_IF", "FIXED_OFFSET"}
Sideband          == {"LOW_SIDE", "HIGH_SIDE"}
Direction         == {"FWD", "RTN"}
SpectrumLeg       == {"HUB_UPLINK", "REMOTE_DOWNLINK", "REMOTE_UPLINK", "HUB_DOWNLINK"}
TranslationMethod == {"OFFSET_ADD", "OFFSET_SUBTRACT", "LO_REFLECT"}
GuardMode         == {"FIXED", "PERCENT_OF_OCCUPIED", "MAX_OF_FIXED_AND_PERCENT"}

\* A-03: where a payload path of this direction takes its uplink, and where
\* it delivers.
UplinkSide(direction) == IF direction = "FWD" THEN "HUB_UPLINK" ELSE "REMOTE_UPLINK"

DownlinkSide(direction) == IF direction = "FWD" THEN "REMOTE_DOWNLINK" ELSE "HUB_DOWNLINK"
-----------------------------------------------------------------------------
(***************************************************************************)
(* What a row of each kind says.                                           *)
(***************************************************************************)
Satellite == [orbit : {"GEO", "MEO", "LEO"}]

Band == [rf_min : Nat, rf_max : Nat, tuning_raster : Int \cup {None}]

\* The polarizations of the Bands are a table of their own.
BandPolarization == [band : Nat, polarization : PolarizationType]

Gateway == [latitude : Int \cup {None}, longitude : Int \cup {None}]

Hub == [gateway : Nat]

EquipmentProfile ==
    [band : Nat, gateway : Nat \cup {None}, hub : Nat \cup {None},
     rf_min : Int, rf_max : Int, if_min : Int, if_max : Int, lo : Int,
     conversion_method : ConversionMethod, sideband : Sideband,
     spectral_inversion : BOOLEAN]

GuardPolicy ==
    [mode : GuardMode, fixed_left : Int \cup {None}, fixed_right : Int \cup {None},
     percent_left : Int \cup {None}, percent_right : Int \cup {None}]

FrequencyWindow ==
    [satellite : Nat, band : Nat, guard_policy : Nat \cup {None}, side : SpectrumLeg,
     polarization : PolarizationType, rf_start : Int, rf_end : Int, min_edge_guard : Int]

\* The sides are copies, made when the form was read.
PayloadPath ==
    [satellite : Nat, direction : Direction, uplink : Nat, downlink : Nat,
     uplink_side : SpectrumLeg, downlink_side : SpectrumLeg,
     translation_method : TranslationMethod, translation_constant : Int,
     spectral_inversion : BOOLEAN]

SpectrumResource ==
    [satellite : Nat, leg : SpectrumLeg, polarization : PolarizationType \cup {None}]

Record(kind) ==
    CASE kind = "Satellite" -> Satellite
      [] kind = "Band" -> Band
      [] kind = "Gateway" -> Gateway
      [] kind = "Hub" -> Hub
      [] kind = "EquipmentProfile" -> EquipmentProfile
      [] kind = "GuardPolicy" -> GuardPolicy
      [] kind = "FrequencyWindow" -> FrequencyWindow
      [] kind = "PayloadPath" -> PayloadPath
      [] kind = "SpectrumResource" -> SpectrumResource

\* ENTITY_CONFIG: the kinds one may create and edit.
Kind == {"Satellite", "Band", "Gateway", "Hub", "EquipmentProfile", "GuardPolicy",
         "FrequencyWindow", "PayloadPath", "SpectrumResource"}

\* MasterDataVersioned.
Versioned == {"EquipmentProfile", "FrequencyWindow", "PayloadPath"}

\* EffectiveDatedModel; the others have no period.
Dated == Versioned \cup {"Satellite", "SpectrumResource"}
-----------------------------------------------------------------------------
(***************************************************************************)
(* CHECK constraints on one row.                                           *)
(***************************************************************************)
Within(low, x, high) == x # None => low <= x /\ x <= high

NonNegative(x) == x # None => x >= 0

BandSound(b) == b.rf_min < b.rf_max /\ (b.tuning_raster # None => b.tuning_raster > 0)

GatewaySound(g) == Within(-90, g.latitude, 90) /\ Within(-180, g.longitude, 180)

ConversionAgrees(e) ==
    <<e.conversion_method, e.sideband>> \in
        {<<"LO_PLUS_IF", "LOW_SIDE">>, <<"LO_MINUS_IF", "HIGH_SIDE">>}
        \cup ({"FIXED_OFFSET"} \X Sideband)

EquipmentSound(e) ==
    /\ e.rf_min < e.rf_max /\ e.if_min < e.if_max
    /\ e.lo > 0 /\ e.if_min >= 0 /\ ConversionAgrees(e)

Needs(mode) ==
    (IF mode # "PERCENT_OF_OCCUPIED" THEN {"fixed_left", "fixed_right"} ELSE {})
    \cup (IF mode # "FIXED" THEN {"percent_left", "percent_right"} ELSE {})

GuardPolicySound(g) ==
    /\ \A field \in {"fixed_left", "fixed_right", "percent_left", "percent_right"} :
           NonNegative(g[field])
    /\ \A field \in Needs(g.mode) : g[field] # None

WindowSound(w) == w.rf_start < w.rf_end /\ w.min_edge_guard >= 0

PathSound(p) ==
    /\ p.uplink_side = UplinkSide(p.direction)
    /\ p.downlink_side = DownlinkSide(p.direction)
    /\ p.uplink # p.downlink

Sound(kind, body) ==
    CASE kind = "Band" -> BandSound(body)
      [] kind = "Gateway" -> GatewaySound(body)
      [] kind = "EquipmentProfile" -> EquipmentSound(body)
      [] kind = "GuardPolicy" -> GuardPolicySound(body)
      [] kind = "FrequencyWindow" -> WindowSound(body)
      [] kind = "PayloadPath" -> PathSound(body)
      [] OTHER -> TRUE
-----------------------------------------------------------------------------
(***************************************************************************)
(* What refers to what.                                                    *)
(***************************************************************************)
\* The references whose form offers active rows only.
OfferedFields(kind) ==
    CASE kind = "Hub" -> {"gateway"}
      [] kind = "EquipmentProfile" -> {"band", "gateway", "hub"}
      [] kind = "FrequencyWindow" -> {"satellite", "band"}
      [] kind = "PayloadPath" -> {"satellite", "uplink", "downlink"}
      [] kind = "SpectrumResource" -> {"satellite"}
      [] OTHER -> {}

\* A Guard Policy may be chosen whether it is active or not.
ReferenceFields(kind) ==
    OfferedFields(kind) \cup (IF kind = "FrequencyWindow" THEN {"guard_policy"} ELSE {})

\* The kind of row a reference is to.
Target(field) ==
    CASE field \in {"uplink", "downlink"} -> "FrequencyWindow"
      [] field = "satellite" -> "Satellite"
      [] field = "band" -> "Band"
      [] field = "gateway" -> "Gateway"
      [] field = "hub" -> "Hub"
      [] field = "guard_policy" -> "GuardPolicy"

Named(body, fields) == {body[field] : field \in fields} \ {None}

\* InventoryConfig.ready: of which kinds the rows that refer to one are
\* counted before it is deactivated, or changed.
Registered ==
    {<<"Gateway", "Hub">>, <<"Gateway", "EquipmentProfile">>, <<"Hub", "EquipmentProfile">>,
     <<"Band", "EquipmentProfile">>, <<"Band", "FrequencyWindow">>,
     <<"Satellite", "FrequencyWindow">>, <<"Satellite", "PayloadPath">>,
     <<"Satellite", "SpectrumResource">>, <<"FrequencyWindow", "PayloadPath">>,
     <<"GuardPolicy", "FrequencyWindow">>}

\* versioning.ENGINEERING_FIELDS; the profile's applicability is not among
\* them, nor is a window's guard policy.
EngineeringFields(kind) ==
    CASE kind = "FrequencyWindow" ->
             {"rf_start", "rf_end", "side", "polarization", "min_edge_guard", "satellite", "band"}
      [] kind = "PayloadPath" ->
             {"direction", "uplink", "downlink", "translation_method",
              "translation_constant", "spectral_inversion", "satellite"}
      [] kind = "EquipmentProfile" ->
             {"rf_min", "rf_max", "if_min", "if_max", "lo", "conversion_method", "sideband",
              "spectral_inversion", "band"}
      [] OTHER -> {}
=============================================================================
