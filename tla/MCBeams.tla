------------------------------ MODULE MCBeams ------------------------------
(***************************************************************************)
(* Instances of Beams for TLC: a satellite with one payload path each way, *)
(* a resource on every leg, a hub uplink window and an equipment profile   *)
(* that nothing uses yet, and a Beam over all of it.                       *)
(***************************************************************************)
EXTENDS Beams, TLC

CONSTANTS a1, a2, r1, r2

Window(side, end) ==
    [satellite |-> 1, band |-> 2, guard_policy |-> None, side |-> side, polarization |-> "RHCP",
     rf_start |-> 0, rf_end |-> end, min_edge_guard |-> 0]

Path(direction, uplink, downlink) ==
    [satellite |-> 1, direction |-> direction, uplink |-> uplink, downlink |-> downlink,
     uplink_side |-> UplinkSide(direction), downlink_side |-> DownlinkSide(direction),
     translation_method |-> "OFFSET_ADD", translation_constant |-> 1,
     spectral_inversion |-> FALSE]

Resource(leg) == [satellite |-> 1, leg |-> leg, polarization |-> None]

Profile ==
    [band |-> 2, gateway |-> None, hub |-> None, rf_min |-> 0, rf_max |-> 4, if_min |-> 0,
     if_max |-> 4, lo |-> 1, conversion_method |-> "LO_PLUS_IF", sideband |-> "LOW_SIDE",
     spectral_inversion |-> FALSE]

Entered(kind, body) ==
    [kind |-> kind, body |-> body, from |-> 0, until |-> Open, polarizations |-> {}]

ABand == [rf_min |-> 0, rf_max |-> 9, tuning_raster |-> None]

First(n, values) == NewRow(values, n, 1, TRUE)

Inventory ==
    <<First(1, Entered("Satellite", [orbit |-> "GEO"])),
      First(2, Entered("Band", ABand)),
      First(3, Entered("FrequencyWindow", Window("HUB_UPLINK", 4))),
      First(4, Entered("FrequencyWindow", Window("REMOTE_DOWNLINK", 4))),
      First(5, Entered("PayloadPath", Path("FWD", 3, 4))),
      First(6, Entered("FrequencyWindow", Window("REMOTE_UPLINK", 4))),
      First(7, Entered("FrequencyWindow", Window("HUB_DOWNLINK", 4))),
      First(8, Entered("PayloadPath", Path("RTN", 6, 7))),
      First(9, Entered("SpectrumResource", Resource("HUB_UPLINK"))),
      First(10, Entered("SpectrumResource", Resource("REMOTE_DOWNLINK"))),
      First(11, Entered("SpectrumResource", Resource("REMOTE_UPLINK"))),
      First(12, Entered("SpectrumResource", Resource("HUB_DOWNLINK"))),
      First(13, Entered("EquipmentProfile", Profile)),
      First(14, Entered("FrequencyWindow", Window("HUB_UPLINK", 4))),
      First(15, Entered("EquipmentProfile", Profile))>>

\* A wider window from later on; a path over the spare window; the spare
\* window turned into another leg; the Band with another raster and a polarization.
Typed ==
    {[Entered("FrequencyWindow", Window("HUB_UPLINK", 5)) EXCEPT !.from = 1],
     Entered("PayloadPath", Path("FWD", 14, 4)),
     Entered("FrequencyWindow", Window("REMOTE_UPLINK", 4)),
     [Entered("Band", [ABand EXCEPT !.tuning_raster = 1]) EXCEPT !.polarizations = {"LHCP"}]}

Whole(windows, path) ==
    {[window |-> w, path |-> path, active |-> TRUE, edges |-> <<0, 4>>] : w \in windows}

Chain(path, uplink, downlink, leg, resources) ==
    [enabled |-> TRUE, path |-> path, uplink |-> uplink, downlink |-> downlink, leg |-> leg,
     polarizations |-> <<"RHCP", "RHCP">>, equipment |-> {13}, resources |-> resources,
     assignments |-> Whole({uplink, downlink}, path)]

Chains ==
    [d \in Direction |-> IF d = "FWD" THEN Chain(5, 3, 4, "HUB_UPLINK", {9, 10})
                         ELSE Chain(8, 6, 7, "REMOTE_UPLINK", {11, 12})]

TheBeam == [satellite |-> 1, band |-> 2, permitted |-> {<<"RHCP", "RHCP">>}]

Form(enabled, path, leg, equipment) ==
    [enabled |-> enabled, path |-> path, uplink |-> None, downlink |-> None, leg |-> leg,
     polarizations |-> <<"RHCP", "RHCP">>, equipment |-> equipment, resources |-> None]

\* Off, cleared, without a canonical leg, with other equipment, over a new path.
Forms ==
    {Form(FALSE, 5, "HUB_UPLINK", {13}), Form(FALSE, None, None, {}),
     Form(TRUE, 5, None, {13}), Form(TRUE, 8, "REMOTE_UPLINK", {15}),
     Form(TRUE, 16, "HUB_UPLINK", {13})}

Symmetric == Permutations(Admin) \cup Permutations(Request)
=============================================================================
