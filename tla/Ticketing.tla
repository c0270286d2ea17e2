----------------------------- MODULE Ticketing ------------------------------
(***************************************************************************)
(* Bookings and wallets together: book calls processBookingPayment inside  *)
(* its transaction, so the seats, the booking, the money and the ledgers   *)
(* change in one step or not at all.                                       *)
(***************************************************************************)
EXTENDS Integers, Sequences, FiniteSets, Totals, WalletParameters

CONSTANTS
    Users, Managers, MAX_EVENT_TICKETS_PER_DAY, HOLD_EXPIRE_TIME, BOOKING_PAYMENT_TIME,
    DayOf, SeatCounts, Prices, Dates, Quantities, MaxEvents, MaxHolds, MaxBookings, Horizon

\* What a booking may cost.
ASSUME PaymentsAssumption ==
    \A q \in Quantities, price \in Prices : q * price \in Payments

VARIABLES now, event, hold, booking, wallet, admin, txn, adminTxn, split

\* The customers and the managers of Bookings are rows of one table "user",
\* and what a payment is about is a booking.
B == INSTANCE Bookings
W == INSTANCE Wallets WITH
    Users <- Users \cup Managers,
    MaxPayments <- MaxBookings

\* The assumptions of Bookings.
ASSUME BookingsAssumption ==
    B!ParametersAssumption /\ B!InputsAssumption /\ B!CalendarAssumption

tables  == <<now, event, hold, booking>>
ledgers == <<wallet, admin, txn, adminTxn, split>>
tvars   == <<tables, ledgers>>

TypeOK == B!TypeOK /\ W!TypeOK

Init == B!Init /\ W!Init

-----------------------------------------------------------------------------
(* Slips that are easy to make in the definitions below.                   *)

\* TotalOf a single ticket.
PriceOf(h) == event[hold[h].eventId].price

\* Book that keeps its seats when the payment is refused.
BookThenPay(u, h) ==
    LET total == hold[h].quantity * event[hold[h].eventId].price
    IN  /\ B!Book(u, h)
        /\ IF W!CanPay(u, total)
           THEN W!Transfer(u, event[hold[h].eventId].managerId, total, Len(booking) + 1)
           ELSE UNCHANGED ledgers

-----------------------------------------------------------------------------

\* total = hold.quantity * event.price, with the price the event has now.
TotalOf(h) == hold[h].quantity * event[hold[h].eventId].price

\* The id the new booking gets.
NextBookingId == Len(booking) + 1

\* book, with processBookingPayment in it: refused by either, it does nothing.
Book(u, h) ==
    /\ B!Book(u, h)
    /\ W!Transfer(u, event[hold[h].eventId].managerId, TotalOf(h), NextBookingId)

\* A session belongs to a registered user, and so does a hold or an event.
HoldSeats(u, e, q) ==
    /\ u \in DOMAIN wallet
    /\ B!HoldSeats(u, e, q)
    /\ UNCHANGED ledgers

Manage(m) ==
    /\ m \in DOMAIN wallet
    /\ B!ManageBy(m)
    /\ UNCHANGED ledgers

Cron ==
    /\ B!Cron
    /\ UNCHANGED ledgers

Tick ==
    /\ B!Tick
    /\ UNCHANGED ledgers

Account ==
    /\ W!Account
    /\ UNCHANGED tables

Next ==
    \/ \E u \in Users :
           \/ \E e \in DOMAIN event, q \in Quantities : HoldSeats(u, e, q)
           \/ \E h \in DOMAIN hold : Book(u, h)
    \/ \E m \in Managers : Manage(m)
    \/ Cron
    \/ Tick
    \/ Account

Spec == Init /\ [][Next]_tvars

-----------------------------------------------------------------------------

\* The rows of the ledger that are about booking b.
RowsOf(b, purpose) == {i \in W!RowsFor(txn, purpose) : txn[i].referenceId = b}

\* Every booking is paid, and paid once: its user is debited its total, at
\* the price of the moment of booking, the event's manager is paid out once,
\* and no money moves for a booking that does not exist.  A payment that is
\* refused takes the seats, the booking and the hold back with it.
PaidAsBooked ==
    /\ \A b \in DOMAIN booking :
           /\ \E d \in DOMAIN txn :
                  /\ RowsOf(b, "BookingPayment") = {d}
                  /\ txn[d].userId = booking[b].userId
                  /\ txn[d].amount = booking[b].total
           /\ \E p \in DOMAIN txn :
                  /\ RowsOf(b, "EventManagerPayout") = {p}
                  /\ txn[p].userId = event[booking[b].eventId].managerId
    /\ \A i \in DOMAIN txn :
           txn[i].purpose # "WalletTopup" => txn[i].referenceId \in DOMAIN booking

\* What an event has brought in, the sum of its bookings' totals, is what
\* its splits hand out, within a cent for each booking.
SplitsMatchRevenue ==
    \A e \in DOMAIN event :
        LET sales  == {b \in DOMAIN booking : booking[b].eventId = e}
            shares == {i \in DOMAIN split : split[i].bookingId \in sales}
        IN  W!AmountIn(split, shares) - Total([b \in sales |-> booking[b].total])
                \in -Cardinality(sales)..Cardinality(sales)

\* No payment of its own overdraws a wallet, whoever else was paid from it or
\* took from it before, and also when the customer of one booking is the
\* manager of another's event: a wallet is below zero by what the bookings of
\* less than no tickets took from it, at most.
NoOverdraft == W!NoOverdraft

\* The ledger explains every balance while bookings are refused, retried and
\* paid: what a refused booking rolls back leaves no row behind.
LedgerMatchesBalance == W!LedgerMatchesBalance

\* Each booking is recorded in three ledgers that agree under its id, and
\* what the customer pays is what the others receive, up to a cent.
PaymentsBalance == W!PaymentsBalance

\* No money appears or disappears: all balances together are the opening
\* balances and the top-ups, up to one cent for each booking.
MoneyConserved == W!MoneyConserved

\* With the booking's id for its reference, every payment is one that
\* Wallets makes: what is checked and proved of Wallets holds here.
ImplementsWallets == W!Spec

\* And every step is one of Bookings, or none.
ImplementsBookings == B!Spec
=============================================================================
