-------------------------- MODULE SalesRefinement ---------------------------
(* What a report sees of Ticketing: some columns of three of its tables.    *)
EXTENDS Ticketing

EventColumns ==
    [e \in DOMAIN event |->
        [managerId |-> event[e].managerId, status |-> event[e].status,
         price |-> event[e].price, totalSeats |-> event[e].totalSeats,
         bookedSeats |-> event[e].bookedSeats]]

BookingColumns ==
    [b \in DOMAIN booking |->
        [eventId |-> booking[b].eventId, quantity |-> booking[b].quantity,
         total |-> booking[b].total, status |-> booking[b].status]]

SharesOf(total) == W!AdminShares(total) \X W!ManagerShares(total)

S == INSTANCE Sales WITH
    event <- EventColumns, booking <- BookingColumns, Shares <- SharesOf

\* Bookings, payments, managers and cron jobs change what reports see only as
\* Sales says: a booking, its seats and both its splits appear together.
ImplementsSales == S!Spec
=============================================================================
