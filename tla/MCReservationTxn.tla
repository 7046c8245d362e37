-------------------------- MODULE MCReservationTxn --------------------------
(***************************************************************************)
(* Instances of ReservationTxn for TLC.  One uplink and one downlink       *)
(* resource; three placements chosen so that allocations collide on both   *)
(* legs in opposite orders (the deadlock of spectrum/services.py), meet    *)
(* edge to edge without colliding, share Hz at different times, and fall   *)
(* outside their assignment on the second leg only.                        *)
(***************************************************************************)
EXTENDS ReservationTxn

MCGrant ==
    [up      |-> [bounds |-> [start |-> 0, end |-> 8],
                  period |-> [start |-> 0, end |-> NoEnd], active |-> TRUE],
     down    |-> [bounds |-> [start |-> 10, end |-> 18],
                  period |-> [start |-> 0, end |-> NoEnd], active |-> TRUE],
     expires |-> [bounds |-> [start |-> 10, end |-> 18],
                  period |-> [start |-> 0, end |-> 5], active |-> TRUE]]

UpClaim(start, end) ==
    [resource |-> "ul", assignment |-> "up", allocated |-> FrequencyRange(start, end)]
DownClaim(start, end, assignment) ==
    [resource |-> "dl", assignment |-> assignment, allocated |-> FrequencyRange(start, end)]

\* Open-ended, uplink first.
Wide == [claims |-> <<UpClaim(0, 4), DownClaim(10, 14, "down")>>,
         period |-> Period(0, NoEnd)]
\* Collides with Wide on both legs, downlink first.
Crossing == [claims |-> <<DownClaim(12, 16, "down"), UpClaim(2, 6)>>,
             period |-> Period(1, 3)]
\* Adjacent to Wide, on the Hz of Crossing after it has ended; the downlink
\* assignment ends before the allocation does.
Outlasting == [claims |-> <<UpClaim(4, 8), DownClaim(16, 18, "expires")>>,
               period |-> Period(3, 9)]

MCPlacement == {Wide, Crossing, Outlasting}

\* Statements run, waiters look again, and circles of waiters are found.
FairSpec == Spec /\ Fairness
=============================================================================
