------------------------------ MODULE MCWizard ------------------------------
(***************************************************************************)
(* Instances of Wizard for TLC: one Beam direction whose uplink competes   *)
(* on two resources and whose downlink competes on one, an inverting       *)
(* transponder, and placements a few Hz wide.                              *)
(***************************************************************************)
EXTENDS Wizard, TLC

CONSTANTS p1, others, u1, u2, d1

GuardPolicy(mode, fixed, percent) ==
    [mode |-> mode, fixedLeft |-> fixed[1], fixedRight |-> fixed[2],
     percentLeft |-> percent[1], percentRight |-> percent[2]]

Assignment(start, end, period) == [bounds |-> FrequencyRange(start, end), period |-> period]

MCResourcesOf == [leg \in Leg |-> IF leg = "UPLINK" THEN {u1, u2} ELSE {d1}]
MCTranslation == [method |-> "LO_REFLECT", constant |-> 40]
Forever       == Period(0, NoEnd)
MCBeam        == Period(0, 3)

\* One assignment a leg.
OneEach ==
    [leg \in Leg |-> IF leg = "UPLINK" THEN <<Assignment(0, 10, Forever)>>
                     ELSE <<Assignment(30, 40, Forever)>>]

\* The downlink assignment is renewed at 1.
Renewed ==
    [OneEach EXCEPT !["DOWNLINK"] = <<Assignment(30, 40, Period(0, 1)),
                                      Assignment(30, 40, Period(1, NoEnd))>>]

\* At a roll-off of 20 %, 3 symbols occupy 3.6 Hz, rounded up to an even
\* bandwidth; 3 Hz, an odd one, carry 2.5 symbols, rounded down.
EvenAndOdd == {[mode |-> "SYMBOL_RATE", size |-> 3, rolloff |-> 20],
               [mode |-> "OCCUPIED_BW", size |-> 3, rolloff |-> 20]}

\* Fixed guards for the Satnet, and an override of which the right one is a
\* fraction of a Hz more than its fixed part.
FixedGuards == GuardPolicy("FIXED", <<2, 0>>, <<0, 0>>)
MaxOfGuards == {GuardPolicy("MAX_OF_FIXED_AND_PERCENT", <<0, 1>>, <<0, 30>>)}

Soon == {Period(0, 1), Period(1, 3), Period(1, NoEnd)}

OneRange ==
    [leg \in Leg |-> IF leg = "UPLINK" THEN {FrequencyRange(4, 6)} ELSE {FrequencyRange(33, 35)}]

\* A leg competes on all its resources alike.
Interchangeable == Permutations({u1, u2})
=============================================================================
