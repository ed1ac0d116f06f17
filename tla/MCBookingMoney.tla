--------------------------- MODULE MCBookingMoney ---------------------------
(***************************************************************************)
(* Values for BookingMoney: a price below the charge and one above it,     *)
(* loads on both sides of a ton, balances that cover nothing, a part, or   *)
(* all of the price or add a debt, and amounts that do not divide.         *)
(***************************************************************************)
EXTENDS BookingMoney

MCVehicles ==
    {[base |-> 8000,  perKm |-> 1275, baseM |-> 2000, maxKg |-> 1000],
     [base |-> 7050,  perKm |-> 2333, baseM |-> 1000, maxKg |-> 2500],
     [base |-> 14999, perKm |-> 1901, baseM |-> 0,    maxKg |-> 9000]}

MCJobs == [metres : {800, 3217, 7345}, kg : {333, 1501}, gst : BOOLEAN]

MCBalances == {-12345, 0, 3333, 10007, 99999}
MCWaits    == {1, 3, 7, 20}
MCRequests == {1, 99, 7777, 10000, 20001}
=============================================================================
