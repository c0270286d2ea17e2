------------------------------ MODULE Bookings ------------------------------
(***************************************************************************)
(* Seat holds and bookings: bookings.service.ts, the event writes of       *)
(* event.service.ts, the seat part of payments.service.ts and the cron     *)
(* jobs of scheduling.service.ts, at the level of committed transactions.  *)
(*                                                                         *)
(* holdSeats and book run at Serializable, the other writes are single     *)
(* statements, so every action is one committed transaction.  An error     *)
(* thrown inside $transaction rolls all of it back, so a failed call is a  *)
(* step that changes nothing.  A table is a sequence of rows: ids come     *)
(* from autoincrement and no row of these tables is ever deleted.          *)
(***************************************************************************)
EXTENDS Integers, Sequences, FiniteSets, Totals

CONSTANTS
    Users,                      \* customers
    Managers,                   \* event managers
    MAX_EVENT_TICKETS_PER_DAY,  \* 5 in the code
    HOLD_EXPIRE_TIME,           \* 1 minute in the code
    BOOKING_PAYMENT_TIME,       \* 10 minutes in the code
    DayOf,                      \* the calendar day of each instant
    Null,                       \* a column without a value
    \* the inputs the model offers
    SeatCounts, Prices, Dates, Quantities,
    \* bounds: rows of each table, and the last instant of the clock
    MaxEvents, MaxHolds, MaxBookings, Horizon

ASSUME ParametersAssumption ==
    /\ MAX_EVENT_TICKETS_PER_DAY \in Nat
    /\ HOLD_EXPIRE_TIME \in Nat
    /\ BOOKING_PAYMENT_TIME \in Nat
    /\ Horizon \in Nat

\* create-booking.dto.ts asks only that ticketQuantity is present, so that a
\* request may carry zero or a negative number; the event's DTO has minima.
ASSUME InputsAssumption ==
    /\ SeatCounts \subseteq Nat
    /\ Prices \subseteq Nat
    /\ Dates \subseteq Nat
    /\ Quantities \subseteq Int

\* Days follow each other; their length is left open.
ASSUME CalendarAssumption ==
    /\ DayOf \in [0..Horizon -> Nat]
    /\ \A s, t \in 0..Horizon : s <= t => DayOf[s] <= DayOf[t]

ASSUME NullAssumption == Null \notin Nat

VARIABLES
    now,      \* the clock of the database and of the workers
    event,    \* table "event"
    hold,     \* table "seat_hold"
    booking   \* table "booking"

vars == <<now, event, hold, booking>>

-----------------------------------------------------------------------------
(* The schema.                                                             *)

EventStatus    == {"Active", "Suspended", "Completed"}
SeatHoldStatus == {"Hold", "Processing", "Completed", "Expired", "Cancelled"}
BookingStatus  == {"Pending", "Confirmed", "Cancelled", "Expired"}

\* The statuses of a hold that may still become a booking.
ActiveStatuses == {"Hold", "Processing"}

Event ==
    [managerId : Managers, totalSeats : Nat, bookedSeats : Int,
     price : Nat, date : Nat, status : EventStatus]

SeatHold ==
    [userId : Users, eventId : Nat, quantity : Int,
     status : SeatHoldStatus, createdAt : 0..Horizon, expiresAt : Nat,
     processingExpiresAt : Nat \cup {Null}, bookingId : Nat \cup {Null}]

Booking ==
    [userId : Users, eventId : Nat, quantity : Int,
     total : Int, status : BookingStatus, createdAt : 0..Horizon]

\* Table and row types, the foreign keys, and that no row is from the future.
TypeOK ==
    /\ now \in 0..Horizon
    /\ event \in Seq(Event)
    /\ hold \in Seq(SeatHold)
    /\ booking \in Seq(Booking)
    /\ \A h \in DOMAIN hold : hold[h].eventId \in DOMAIN event /\ hold[h].createdAt <= now
    /\ \A b \in DOMAIN booking :
           booking[b].eventId \in DOMAIN event /\ booking[b].createdAt <= now

Init ==
    /\ now = 0
    /\ event = <<>>
    /\ hold = <<>>
    /\ booking = <<>>

-----------------------------------------------------------------------------
(* Slips that are easy to make in the definitions below.  No action uses   *)
(* them: each stands in for the definition it names when a run is repeated *)
(* to see that a property would notice.                                    *)

\* IsExpired with the comparison reversed.
LiveHoldIsExpired(row) == row.status = "Hold" /\ row.expiresAt > now

\* IsExpired without its condition on Completed rows.
AnyRowIsExpired(row) == row.status \in {"Hold", "Completed"} /\ row.expiresAt < now

\* HasExistingHold of the holds that still run (misses expiresAt = now).
HasRunningHold(table, u, e) ==
    \E h \in DOMAIN table :
        /\ table[h].userId = u
        /\ table[h].eventId = e
        /\ table[h].status \in ActiveStatuses
        /\ table[h].expiresAt > now

\* TodayBooked without the bookings.
NothingBooked(u, e) == 0

\* EnoughSeats off by the quantity.
AlmostEnoughSeats(e, q) == event[e].bookedSeats < event[e].totalSeats

\* NewBooking with the id of the hold for the id of its event.
BookingOfHoldId(h) ==
    [userId |-> hold[h].userId, eventId |-> h, quantity |-> hold[h].quantity,
     total |-> 0, status |-> "Confirmed", createdAt |-> now]

\* CompletedHold without the second update: the row stays Processing.
ProcessingHold(h) ==
    [hold[h] EXCEPT !.status = "Processing",
                    !.processingExpiresAt = now + BOOKING_PAYMENT_TIME]

\* BookedSeatsAfter, one seat per booking whatever its quantity.
OneSeatAfter(h) == event[hold[h].eventId].bookedSeats + 1

\* IsOver, suspended events forgotten.
ActiveIsOver(row) == row.date < now /\ row.status = "Active"

-----------------------------------------------------------------------------
(* What holdSeats reads.                                                   *)

\* where: { status: Hold, expiresAt: { lt: new Date() } }
IsExpired(row) == row.status = "Hold" /\ row.expiresAt < now

\* updateMany: every hold past its expiry becomes Expired.
ExpireHolds ==
    [h \in DOMAIN hold |->
        IF IsExpired(hold[h]) THEN [hold[h] EXCEPT !.status = "Expired"] ELSE hold[h]]

\* existingHold: the user already holds seats of the event.
HasExistingHold(table, u, e) ==
    \E h \in DOMAIN table :
        /\ table[h].userId = u
        /\ table[h].eventId = e
        /\ table[h].status \in ActiveStatuses

\* createdAt between startOfDay and endOfDay
IsToday(row) == DayOf[row.createdAt] = DayOf[now]

\* The bookings that count against today's limit of a user for an event.
BookingsToday(u, e) ==
    {b \in DOMAIN booking :
        /\ booking[b].userId = u
        /\ booking[b].eventId = e
        /\ booking[b].status = "Confirmed"
        /\ IsToday(booking[b])}

\* todayBooked._sum.quantity || 0
TodayBooked(u, e) == Total([b \in BookingsToday(u, e) |-> booking[b].quantity])

\* todayHold._sum.quantity || 0: there is no condition on the status.
TodayHold(table, u, e) ==
    LET ids == {h \in DOMAIN table :
                   /\ table[h].userId = u
                   /\ table[h].eventId = e
                   /\ table[h].expiresAt > now
                   /\ IsToday(table[h])}
    IN  Total([h \in ids |-> table[h].quantity])

\* activeHolds._sum.quantity ?? 0: the seats of an event that are on hold.
HoldSeatsOf(table, e) ==
    LET ids == {h \in DOMAIN table :
                   /\ table[h].eventId = e
                   /\ table[h].status \in ActiveStatuses
                   /\ \/ table[h].expiresAt > now
                      \/ /\ table[h].processingExpiresAt # Null
                         /\ table[h].processingExpiresAt > now}
    IN  Total([h \in ids |-> table[h].quantity])

\* The columns SELECT * returns for an event: the database's names, not
\* those of the generated client.
EventRawColumns == {"id", "status", "date", "price", "total_seats", "booked_seats"}

\* availableSeats < ticketQuantity.  A property the raw row lacks is
\* undefined, the difference is then NaN, and no comparison with NaN holds.
SeatsUnavailable(table, e, q) ==
    /\ {"totalSeats", "bookedSeats"} \subseteq EventRawColumns
    /\ event[e].bookedSeats + HoldSeatsOf(table, e) + q > event[e].totalSeats

-----------------------------------------------------------------------------
(* holdSeats and book.                                                     *)

NewHold(u, e, q) ==
    [userId |-> u, eventId |-> e, quantity |-> q, status |-> "Hold",
     createdAt |-> now, expiresAt |-> now + HOLD_EXPIRE_TIME,
     processingExpiresAt |-> Null, bookingId |-> Null]

\* POST /bookings/hold
HoldSeats(u, e, q) ==
    /\ Len(hold) < MaxHolds
    /\ e \in DOMAIN event
    /\ event[e].status = "Active"
    /\ ~HasExistingHold(ExpireHolds, u, e)
    /\ TodayBooked(u, e) + TodayHold(ExpireHolds, u, e) + q <= MAX_EVENT_TICKETS_PER_DAY
    /\ ~SeatsUnavailable(ExpireHolds, e, q)
    /\ hold' = Append(ExpireHolds, NewHold(u, e, q))
    /\ UNCHANGED <<now, event, booking>>

\* The hold row is the caller's, not settled, and not past its expiry.
IsBookable(u, h) ==
    /\ hold[h].userId = u
    /\ hold[h].status \notin {"Completed", "Expired"}
    /\ ~(hold[h].expiresAt < now)

\* processBookingPayment: bookedSeats: { lte: event.totalSeats - quantity }
EnoughSeats(e, q) == event[e].bookedSeats + q <= event[e].totalSeats

NewBooking(h) ==
    [userId |-> hold[h].userId, eventId |-> hold[h].eventId,
     quantity |-> hold[h].quantity,
     total |-> hold[h].quantity * event[hold[h].eventId].price,
     status |-> "Confirmed", createdAt |-> now]

\* The row after book: Processing, then Completed, in the one transaction.
CompletedHold(h) ==
    [hold[h] EXCEPT !.status = "Completed",
                    !.processingExpiresAt = now + BOOKING_PAYMENT_TIME,
                    !.bookingId = Len(booking) + 1]

BookedSeatsAfter(h) == event[hold[h].eventId].bookedSeats + hold[h].quantity

\* POST /bookings/book/:holdId.  Whether the wallets can pay is left to the
\* modules that compose this one: a refused payment rolls everything back.
Book(u, h) ==
    /\ Len(booking) < MaxBookings
    /\ h \in DOMAIN hold
    /\ IsBookable(u, h)
    /\ EnoughSeats(hold[h].eventId, hold[h].quantity)
    /\ event' = [event EXCEPT ![hold[h].eventId].bookedSeats = BookedSeatsAfter(h)]
    /\ booking' = Append(booking, NewBooking(h))
    /\ hold' = [hold EXCEPT ![h] = CompletedHold(h)]
    /\ UNCHANGED now

-----------------------------------------------------------------------------
(* Event managers.                                                         *)

NewEvent(m, seats, price, date) ==
    [managerId |-> m, totalSeats |-> seats, bookedSeats |-> 0,
     price |-> price, date |-> date, status |-> "Active"]

CreateEvent(m, seats, price, date) ==
    /\ Len(event) < MaxEvents
    /\ event' = Append(event, NewEvent(m, seats, price, date))
    /\ UNCHANGED <<now, hold, booking>>

\* A field the request leaves out keeps its value: the current one is offered.
UpdateEvent(m, e, seats, price, date) ==
    /\ e \in DOMAIN event
    /\ event[e].managerId = m
    /\ event' = [event EXCEPT ![e].totalSeats = seats, ![e].price = price, ![e].date = date]
    /\ UNCHANGED <<now, hold, booking>>

UpdateEventStatus(m, e, status) ==
    /\ e \in DOMAIN event
    /\ event[e].managerId = m
    /\ event' = [event EXCEPT ![e].status = status]
    /\ UNCHANGED <<now, hold, booking>>

-----------------------------------------------------------------------------
(* Cron jobs.  Each is one updateMany, which may match no row.             *)

ClearExpiredHolds ==
    /\ hold' = ExpireHolds
    /\ UNCHANGED <<now, event, booking>>

\* The filter on the booking's status needs a booking: a null key never matches.
IsStuckProcessing(row) ==
    /\ row.status = "Processing"
    /\ row.processingExpiresAt # Null
    /\ row.processingExpiresAt < now
    /\ row.bookingId # Null
    /\ booking[row.bookingId].status = "Pending"

ClearExpiredProcessingHolds ==
    /\ hold' = [h \in DOMAIN hold |->
                   IF IsStuckProcessing(hold[h])
                   THEN [hold[h] EXCEPT !.status = "Expired"] ELSE hold[h]]
    /\ UNCHANGED <<now, event, booking>>

IsOver(row) == row.date < now /\ row.status # "Completed"

HandleCompletedEvents ==
    /\ event' = [e \in DOMAIN event |->
                    IF IsOver(event[e])
                    THEN [event[e] EXCEPT !.status = "Completed"] ELSE event[e]]
    /\ UNCHANGED <<now, hold, booking>>

\* Time passes.
Tick ==
    /\ now < Horizon
    /\ now' = now + 1
    /\ UNCHANGED <<event, hold, booking>>

-----------------------------------------------------------------------------

ManageBy(m) ==
    \/ \E seats \in SeatCounts, price \in Prices, date \in Dates :
           \/ CreateEvent(m, seats, price, date)
           \/ \E e \in DOMAIN event : UpdateEvent(m, e, seats, price, date)
    \/ \E e \in DOMAIN event, status \in EventStatus : UpdateEventStatus(m, e, status)

Manage == \E m \in Managers : ManageBy(m)

Cron == ClearExpiredHolds \/ ClearExpiredProcessingHolds \/ HandleCompletedEvents

Next ==
    \/ \E u \in Users :
           \/ \E e \in DOMAIN event, q \in Quantities : HoldSeats(u, e, q)
           \/ \E h \in DOMAIN hold : Book(u, h)
    \/ Manage
    \/ Cron
    \/ Tick

Spec == Init /\ [][Next]_vars

\* @nestjs/schedule runs the jobs every minute and every hour, in every
\* worker, for as long as one worker lives.
Fairness ==
    /\ WF_vars(ClearExpiredHolds)
    /\ WF_vars(HandleCompletedEvents)

FairSpec == Spec /\ Fairness

-----------------------------------------------------------------------------
(* Safety.                                                                 *)

\* A user has at most one hold of an event that is neither settled nor
\* expired: holdSeats refuses a second one, and the cron jobs, a late book
\* and the sweep inside holdSeats never bring one back.
OneActiveHold ==
    \A g, h \in DOMAIN hold :
        /\ hold[g].userId = hold[h].userId
        /\ hold[g].eventId = hold[h].eventId
        /\ hold[g].status \in ActiveStatuses
        /\ hold[h].status \in ActiveStatuses
        => g = h

\* The confirmed bookings of a user for an event on a day.
BookingsOn(u, e, day) ==
    {b \in DOMAIN booking :
        /\ booking[b].userId = u
        /\ booking[b].eventId = e
        /\ booking[b].status = "Confirmed"
        /\ DayOf[booking[b].createdAt] = day}

BookedOn(u, e, day) == Total([b \in BookingsOn(u, e, day) |-> booking[b].quantity])

Days == {DayOf[t] : t \in 0..Horizon}

\* The tickets a user's bookings of negative quantities give back.
GivenBack(u, e) ==
    LET ids == {b \in DOMAIN booking :
                   /\ booking[b].userId = u
                   /\ booking[b].eventId = e
                   /\ booking[b].quantity < 0}
    IN  Total([b \in ids |-> -booking[b].quantity])

\* What a user can have of an event on a day.  Tickets given back may be taken
\* again twice: for a minute both the booking and its hold stand in the sum.
Allowance(u, e) == MAX_EVENT_TICKETS_PER_DAY + 2 * GivenBack(u, e)

\* Nobody books more of an event on a day than MAX_EVENT_TICKETS_PER_DAY and
\* twice what they gave back, although holdSeats checks the limit and book,
\* which may run a minute and a midnight later, does not.
DailyLimit ==
    \A u \in Users, e \in DOMAIN event, day \in Days :
        BookedOn(u, e, day) <= Allowance(u, e)

\* Why the limit survives book: an active hold fits into today's allowance,
\* and by itself, for when today is no longer the day it was checked on.
AllowanceKept ==
    \A h \in DOMAIN hold :
        LET u == hold[h].userId
            e == hold[h].eventId
        IN  hold[h].status \in ActiveStatuses =>
                /\ hold[h].quantity <= Allowance(u, e)
                /\ TodayBooked(u, e) + hold[h].quantity <= Allowance(u, e)

BookingsOf(e) ==
    {b \in DOMAIN booking : booking[b].eventId = e /\ booking[b].status = "Confirmed"}

\* The counter processBookingPayment increments is the number of tickets in
\* the confirmed bookings of the event: no path confirms without counting,
\* none counts without confirming, whatever the manager edits meanwhile.
SeatsMatchBookings ==
    \A e \in DOMAIN event :
        event[e].bookedSeats = Total([b \in BookingsOf(e) |-> booking[b].quantity])

\* A booking that settles a hold.
Settles(brow, hrow) ==
    /\ brow.userId = hrow.userId
    /\ brow.eventId = hrow.eventId
    /\ brow.quantity = hrow.quantity
    /\ brow.status = "Confirmed"
    /\ hrow.createdAt <= brow.createdAt

\* Completed holds and bookings match one to one: book called again for a
\* hold confirms nothing, and no booking exists without its hold.
OneBookingPerHold ==
    /\ \A h \in DOMAIN hold :
           hold[h].status = "Completed" =>
               /\ hold[h].bookingId \in DOMAIN booking
               /\ Settles(booking[hold[h].bookingId], hold[h])
    /\ \A b \in DOMAIN booking :
           \E h \in DOMAIN hold : hold[h].status = "Completed" /\ hold[h].bookingId = b
    /\ \A g, h \in DOMAIN hold :
           hold[g].status = "Completed" /\ hold[h].status = "Completed"
               /\ hold[g].bookingId = hold[h].bookingId => g = h

\* A row that is Completed or Expired is final, and so is a booking: a sweep
\* that runs beside book never takes a settled hold back.
SettledIsFinal ==
    [][ /\ \A h \in DOMAIN hold :
               hold[h].status \in {"Completed", "Expired"} => hold'[h] = hold[h]
        /\ \A b \in DOMAIN booking : booking'[b] = booking[b] ]_vars

-----------------------------------------------------------------------------
(* Liveness, under the fairness of the cron jobs.                          *)

\* A hold that ran out is marked Expired, also when its user never calls
\* again: it does not stay in the user's way for ever.
ExpiredHoldsReleased ==
    \A h \in 1..MaxHolds :
        (h \in DOMAIN hold /\ hold[h].status = "Hold" /\ hold[h].expiresAt < now)
            ~> (h \in DOMAIN hold /\ hold[h].status = "Expired")

\* An event whose date has passed is completed, unless its manager moves the
\* date, whatever status the manager keeps giving it.
PastEventsComplete ==
    \A e \in 1..MaxEvents :
        (e \in DOMAIN event /\ event[e].date < now)
            ~> (e \in DOMAIN event /\ (event[e].status = "Completed" \/ event[e].date >= now))

-----------------------------------------------------------------------------
(* What the error message of holdSeats promises and its code does not do.   *)

\* "Maximum 5 tickets allowed per event per day", whatever was given back.
MaximumPerDay ==
    \A u \in Users, e \in DOMAIN event, day \in Days :
        BookedOn(u, e, day) <= MAX_EVENT_TICKETS_PER_DAY
=============================================================================
