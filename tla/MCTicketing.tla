----------------------------- MODULE MCTicketing ----------------------------
(* A small instance of Ticketing for TLC: one day, which Bookings divides. *)
EXTENDS SalesRefinement, TLC

MCDayOf == [t \in 0..Horizon |-> 0]

\* What a cfg cannot write: a hold of less than no tickets, and its price.
MCQuantities == {-1, 1, 2}
MCPayments   == {q * price : q \in MCQuantities, price \in Prices}

Symmetry == Permutations(Users)
=============================================================================
