--------------------------- MODULE PlacementEngine ---------------------------
(***************************************************************************)
(* The engineering arithmetic behind a placement: payload translation,     *)
(* guard widths and bandwidth (src/calculations/translation.py, guards.py  *)
(* and bandwidth.py), in whole Hz.  A roll-off and a percentage, Decimals  *)
(* in the code, are whole hundredths here; the roundings are the code's.   *)
(***************************************************************************)
EXTENDS Ranges

(***************************************************************************)
(* translation.py                                                          *)
(***************************************************************************)
TranslationMethod == {"OFFSET_ADD", "OFFSET_SUBTRACT", "LO_REFLECT"}

TranslationSpec == [method : TranslationMethod, constant : Nat]

Translate(uplink, spec) ==
    CASE spec.method = "OFFSET_ADD"      -> Shift(uplink, spec.constant)
      [] spec.method = "OFFSET_SUBTRACT" -> Shift(uplink, -spec.constant)
      [] spec.method = "LO_REFLECT"      -> Reflect(uplink, spec.constant)

Untranslate(downlink, spec) ==
    CASE spec.method = "OFFSET_ADD"      -> Shift(downlink, -spec.constant)
      [] spec.method = "OFFSET_SUBTRACT" -> Shift(downlink, spec.constant)
      [] spec.method = "LO_REFLECT"      -> Reflect(downlink, spec.constant)

(***************************************************************************)
(* guards.py: a policy is resolved against an occupied bandwidth.          *)
(***************************************************************************)
GuardWidths(left, right) == [left |-> left, right |-> right]

NoGuard == GuardWidths(0, 0)

CeilingOf(numerator, denominator) == (numerator + denominator - 1) \div denominator

\* Mutant of PercentOf: rounds down.
PercentDown(bandwidth, percent) == (bandwidth * percent) \div 100

PercentOf(bandwidth, percent) == CeilingOf(bandwidth * percent, 100)

Greater(m, n) == IF m < n THEN n ELSE m

\* A policy carries the two widths and the two percentages its mode needs;
\* the mode NONE stands for the absence of a policy.
GuardPolicySpec ==
    [mode : {"NONE", "FIXED", "PERCENT_OF_OCCUPIED", "MAX_OF_FIXED_AND_PERCENT"},
     fixedLeft : Nat, fixedRight : Nat, percentLeft : Nat, percentRight : Nat]

ResolveGuards(policy, bandwidth) ==
    LET left  == PercentOf(bandwidth, policy.percentLeft)
        right == PercentOf(bandwidth, policy.percentRight)
    IN  CASE policy.mode = "NONE"                     -> NoGuard
          [] policy.mode = "FIXED"                    ->
                GuardWidths(policy.fixedLeft, policy.fixedRight)
          [] policy.mode = "PERCENT_OF_OCCUPIED"      -> GuardWidths(left, right)
          [] policy.mode = "MAX_OF_FIXED_AND_PERCENT" ->
                GuardWidths(Greater(policy.fixedLeft, left), Greater(policy.fixedRight, right))

(***************************************************************************)
(* bandwidth.py: derive, centre, widen.                                    *)
(***************************************************************************)
\* Rounded up: never less spectrum than the transmission uses.
OccupiedBandwidth(symbolRate, rolloff) == CeilingOf(symbolRate * (100 + rolloff), 100)

\* Mutant of SymbolRate: rounds up.
SymbolRateUp(bandwidth, rolloff) == CeilingOf(bandwidth * 100, 100 + rolloff)

\* Rounded down: never more symbols than the spectrum carries.
SymbolRate(bandwidth, rolloff) == (bandwidth * 100) \div (100 + rolloff)

\* A request is a size and what the size is.
BandwidthRequest ==
    [mode : {"SYMBOL_RATE", "OCCUPIED_BW"}, size : Nat \ {0}, rolloff : 0 .. 100]

\* resolve_request
Bandwidth(request) ==
    IF request.mode = "SYMBOL_RATE"
    THEN OccupiedBandwidth(request.size, request.rolloff)
    ELSE request.size

\* The other half of resolve_request: the rate that is recorded.
Rate(request) ==
    IF request.mode = "SYMBOL_RATE"
    THEN request.size
    ELSE SymbolRate(request.size, request.rolloff)

HalfWidth(bandwidth) == CeilingOf(bandwidth, 2)

OccupiedRange(centre, bandwidth) ==
    FrequencyRange(centre - HalfWidth(bandwidth), centre + HalfWidth(bandwidth))

AllocatedRange(occupied, guards) == Expanded(occupied, guards.left, guards.right)

\* place: the guards describe the transmission and travel with it.
Place(centre, bandwidth, guards) ==
    LET occupied == OccupiedRange(centre, bandwidth)
    IN  [occupied |-> occupied, allocated |-> AllocatedRange(occupied, guards),
         guards |-> guards]

\* Towards the other leg: downwards by the translation, upwards by its inverse.
Moved(range, spec, forward) ==
    IF forward THEN Translate(range, spec) ELSE Untranslate(range, spec)

\* Mutant of ImageOf: the far side is placed anew, its guards as typed.
ImageRecomputed(source, spec, forward) ==
    LET occupied == Moved(source.occupied, spec, forward)
    IN  [source EXCEPT !.occupied = occupied,
                       !.allocated = AllocatedRange(occupied, source.guards)]

\* _image_of: both ranges move whole.
ImageOf(source, spec, forward) ==
    [source EXCEPT !.occupied  = Moved(@, spec, forward),
                   !.allocated = Moved(@, spec, forward)]

\* place_both_sides: one leg is placed, the other is its image.
PlaceBothSides(centre, bandwidth, guards, spec, enteredSide) ==
    LET entered == Place(centre, bandwidth, guards)
    IN  IF enteredSide = "UPLINK"
        THEN [UPLINK |-> entered, DOWNLINK |-> ImageOf(entered, spec, TRUE)]
        ELSE [UPLINK |-> ImageOf(entered, spec, FALSE), DOWNLINK |-> entered]
=============================================================================
