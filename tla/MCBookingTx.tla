---------------------------- MODULE MCBookingTx -----------------------------
(* A small instance of BookingTx for TLC: one event, days of DayLength.    *)
EXTENDS BookingTx, TLC

CONSTANTS DayLength, manager

MCDayOf == [t \in 0..Horizon |-> t \div DayLength]

\* A cfg cannot write a negative number.
MCQuantities == {-2, 2, 6}

MCOpenEvent ==
    [managerId |-> manager, totalSeats |-> 4, bookedSeats |-> 0,
     price |-> 1, date |-> 0, status |-> "Active"]

Symmetry == Permutations(Users) \cup Permutations(Calls)
=============================================================================
