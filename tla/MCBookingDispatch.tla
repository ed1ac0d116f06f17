------------------------- MODULE MCBookingDispatch -------------------------
(* Small instances of BookingDispatch for TLC. *)
EXTENDS BookingDispatch, TLC

Symmetry == Permutations(Drivers) \cup Permutations(Bookings)

\* Bounds of the model: one request or a fault on a booking that grows old, or both
\* on a fresh booking; or two requests without faults, on a fresh booking, while the
\* attempt counter is 1 and no driver is switching.
AllFresh == \A b \in Bookings : age[b] = "fresh"

FewAtOnce ==
    /\ requests > 0 /\ faults > 0 => AllFresh
    /\ requests > 1 => /\ faults = 0 /\ toggling = {} /\ AllFresh
                      /\ \A b \in Bookings : attempt[b] = 1

\* Or two bookings that compete for the only driver at work, with one request of
\* customer or driver and one attempt each after the first, until he accepts.
TwoCompete ==
    Cardinality({b \in Bookings : booking[b] # "ABSENT"}) > 1 =>
        /\ requests <= 1 /\ faults = 0 /\ toggling = {}
        /\ \A c \in cancelling : c[2] # "admin"
        /\ Cardinality({d \in Drivers : driverStatus[d] # "UNAVAILABLE"}) <= 1
        /\ AllFresh
        /\ \A b \in Bookings : invoice[b] = "NONE" /\ assignJob[b][3] = "none"
=============================================================================
