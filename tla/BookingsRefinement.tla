------------------------- MODULE BookingsRefinement -------------------------
(***************************************************************************)
(* Bookings implements TicketSale: a hold is invisible there, a booking is *)
(* a sale, an edit of an event is a resize, and the clock is seen when it  *)
(* passes midnight.                                                        *)
(***************************************************************************)
EXTENDS Bookings

Sale == INSTANCE TicketSale WITH
    Limit    <- MAX_EVENT_TICKETS_PER_DAY,
    Orders   <- Quantities,
    capacity <- [e \in DOMAIN event |-> event[e].totalSeats],
    sold     <- [e \in DOMAIN event |-> event[e].bookedSeats],
    today    <- [u \in Users |-> [e \in DOMAIN event |-> TodayBooked(u, e)]],
    returned <- [u \in Users |-> [e \in DOMAIN event |-> GivenBack(u, e)]]

\* Every committed booking is a sale TicketSale allows: no seat beyond what
\* the event has when it is sold, no ticket beyond the day's allowance, and
\* nothing but a booking ever sells.
ImplementsTicketSale == Sale!SaleSpec
=============================================================================
