----------------------------- MODULE MCBookings -----------------------------
(* Small instances of Bookings for TLC.                                    *)
EXTENDS BookingsRefinement, TLC

CONSTANTS DayLength

MCDayOf == [t \in 0..Horizon |-> t \div DayLength]

\* A negative number cannot be written in a configuration file.
MCQuantities == {-1, 1, 3}

Symmetry == Permutations(Users)
=============================================================================
