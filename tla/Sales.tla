------------------------------- MODULE Sales --------------------------------
(***************************************************************************)
(* What bookings, payments, managers and cron jobs together do to the      *)
(* three tables that reports read: "event", "booking" and "revenue_split". *)
(* SalesRefinement shows that Ticketing does nothing else to them.         *)
(***************************************************************************)
EXTENDS Integers, Sequences, FiniteSets, Totals

CONSTANTS
    Managers,
    Shares(_),     \* how a total may be split: admin's and manager's share
    \* the inputs the model offers
    SeatCounts, Prices, Quantities,
    \* bounds: rows
    MaxEvents, MaxBookings

ASSUME SalesAssumption ==
    /\ IsFiniteSet(Managers)
    /\ SeatCounts \cup Prices \subseteq Nat
    \* No part of the code looks at the sign of a quantity.
    /\ Quantities \subseteq Int
    /\ \A q \in Quantities, price \in Prices : \A s \in Shares(q * price) :
           s \in Int \X Int /\ s[1] + s[2] - q * price \in {-1, 0, 1}

VARIABLES event, booking, split

svars == <<event, booking, split>>

-----------------------------------------------------------------------------
EventStatus == {"Active", "Suspended", "Completed"}

Event ==
    [managerId : Managers, status : EventStatus, price : Nat,
     totalSeats : Nat, bookedSeats : Int]

\* A booking is never seen before it is paid and Confirmed.
Booking == [eventId : Nat, quantity : Int, total : Int, status : {"Confirmed"}]

RevenueSplit == [bookingId : Nat, amount : Int, splitType : {"Admin", "Manager"}]

\* Row types and foreign keys.
TypeOK ==
    /\ event \in Seq(Event)
    /\ booking \in Seq(Booking)
    /\ split \in Seq(RevenueSplit)
    /\ \A b \in DOMAIN booking : booking[b].eventId \in DOMAIN event
    /\ \A s \in DOMAIN split : split[s].bookingId \in DOMAIN booking

Init ==
    /\ event = <<>>
    /\ booking = <<>>
    /\ split = <<>>

-----------------------------------------------------------------------------
CreateEvent(m, seats, price) ==
    /\ Len(event) < MaxEvents
    /\ event' = Append(event, [managerId |-> m, status |-> "Active", price |-> price,
                               totalSeats |-> seats, bookedSeats |-> 0])
    /\ UNCHANGED <<booking, split>>

UpdateEvent(e, seats, price) ==
    /\ event' = [event EXCEPT ![e].totalSeats = seats, ![e].price = price]
    /\ UNCHANGED <<booking, split>>

\* A manager sets one event's status, the cron job completes all that are over.
SetStatus(es, status) ==
    /\ status = "Completed" \/ Cardinality(es) = 1
    /\ event' = [e \in DOMAIN event |->
                    IF e \in es THEN [event[e] EXCEPT !.status = status] ELSE event[e]]
    /\ UNCHANGED <<booking, split>>

\* The id under which the splits are written.
BookingId == Len(booking) + 1

\* book, paid for: seats, booking and splits in one transaction.
Sell(e, q) ==
    /\ Len(booking) < MaxBookings
    /\ event[e].bookedSeats + q <= event[e].totalSeats
    /\ event' = [event EXCEPT ![e].bookedSeats = @ + q]
    /\ booking' = Append(booking, [eventId |-> e, quantity |-> q,
                                   total |-> q * event[e].price, status |-> "Confirmed"])
    /\ \E s \in Shares(q * event[e].price) :
           split' = split \o
               <<[bookingId |-> BookingId, amount |-> s[1], splitType |-> "Admin"],
                 [bookingId |-> BookingId, amount |-> s[2], splitType |-> "Manager"]>>

Next ==
    \/ \E seats \in SeatCounts, price \in Prices :
           \/ \E m \in Managers : CreateEvent(m, seats, price)
           \/ \E e \in DOMAIN event : UpdateEvent(e, seats, price)
    \/ \E es \in SUBSET DOMAIN event, status \in EventStatus : SetStatus(es, status)
    \/ \E e \in DOMAIN event, q \in Quantities : Sell(e, q)

Spec == Init /\ [][Next]_svars
=============================================================================
