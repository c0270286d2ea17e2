--------------------------- MODULE BookingsProofs ---------------------------
(* Proofs about Bookings for every value of its constants.                 *)
EXTENDS BookingsRefinement, TotalsProofs

-----------------------------------------------------------------------------
(* Tables.                                                                 *)

\* Rewriting rows one by one keeps a table a table.
LEMMA RewriteRows ==
    ASSUME NEW S, NEW t \in Seq(S),
           NEW f, f = [i \in DOMAIN t |-> f[i]],
           \A i \in DOMAIN t : f[i] \in S
    PROVE  f \in Seq(S) /\ Len(f) = Len(t) /\ DOMAIN f = DOMAIN t
BY LenProperties, SMT

\* What the sweep does to the table of holds.
LEMMA SweepShape ==
    ASSUME TypeOK
    PROVE  /\ ExpireHolds \in Seq(SeatHold)
           /\ Len(ExpireHolds) = Len(hold)
           /\ DOMAIN ExpireHolds = DOMAIN hold
           /\ \A h \in DOMAIN hold :
                 /\ ExpireHolds[h].userId = hold[h].userId
                 /\ ExpireHolds[h].eventId = hold[h].eventId
                 /\ ExpireHolds[h].quantity = hold[h].quantity
                 /\ ExpireHolds[h].createdAt = hold[h].createdAt
                 /\ ExpireHolds[h].expiresAt = hold[h].expiresAt
                 /\ ExpireHolds[h].processingExpiresAt = hold[h].processingExpiresAt
                 /\ ExpireHolds[h].bookingId = hold[h].bookingId
                 /\ \/ ExpireHolds[h] = hold[h]
                    \/ hold[h].status = "Hold" /\ ExpireHolds[h].status = "Expired"
<1>1. hold \in Seq(SeatHold)
  BY DEF TypeOK
<1>2. \A h \in DOMAIN hold : hold[h] \in SeatHold
  BY <1>1, TableShape
<1>3. \A h \in DOMAIN hold : ExpireHolds[h] \in SeatHold
  BY <1>2 DEF ExpireHolds, SeatHold, SeatHoldStatus
<1>4. ExpireHolds = [h \in DOMAIN hold |-> ExpireHolds[h]]
  BY DEF ExpireHolds
<1>5. /\ ExpireHolds \in Seq(SeatHold)
      /\ Len(ExpireHolds) = Len(hold)
      /\ DOMAIN ExpireHolds = DOMAIN hold
  BY <1>1, <1>3, <1>4, RewriteRows
<1>6. ASSUME NEW h \in DOMAIN hold
      PROVE  /\ ExpireHolds[h].userId = hold[h].userId
             /\ ExpireHolds[h].eventId = hold[h].eventId
             /\ ExpireHolds[h].quantity = hold[h].quantity
             /\ ExpireHolds[h].createdAt = hold[h].createdAt
             /\ ExpireHolds[h].expiresAt = hold[h].expiresAt
             /\ ExpireHolds[h].processingExpiresAt = hold[h].processingExpiresAt
             /\ ExpireHolds[h].bookingId = hold[h].bookingId
             /\ \/ ExpireHolds[h] = hold[h]
                \/ hold[h].status = "Hold" /\ ExpireHolds[h].status = "Expired"
  <2>1. hold[h] \in SeatHold
    BY <1>2
  <2>2. ExpireHolds[h] = IF IsExpired(hold[h])
                         THEN [hold[h] EXCEPT !.status = "Expired"] ELSE hold[h]
    BY DEF ExpireHolds
  <2>3. QED BY <2>1, <2>2 DEF IsExpired, SeatHold
<1>7. QED BY <1>5, <1>6

\* The sums holdSeats compares with the limit are integers.
LEMMA SumsAreInt ==
    ASSUME TypeOK, NEW u, NEW e
    PROVE  /\ TodayBooked(u, e) \in Int
           /\ \A table \in Seq(SeatHold) : TodayHold(table, u, e) \in Int
<1>1. TodayBooked(u, e) \in Int
  <2> DEFINE ids == BookingsToday(u, e)
             c == [b \in ids |-> booking[b].quantity]
  <2>1. booking \in Seq(Booking)
    BY DEF TypeOK
  <2>2. Len(booking) \in Nat /\ ids \in SUBSET (1..Len(booking))
    BY <2>1, TableShape DEF BookingsToday
  <2>3. \A b \in ids : booking[b].quantity \in Int
    <3> HIDE DEF ids
    <3>1. \A b \in ids : booking[b] \in Booking
      BY <2>1, <2>2, TableShape
    <3>2. QED BY <3>1 DEF Booking
  <2> HIDE DEF ids
  <2>4. Total(c) \in Int
    BY <2>2, <2>3, SumOfRows
  <2>5. QED BY <2>4 DEF TodayBooked, c, ids
<1>2. ASSUME NEW table \in Seq(SeatHold)
      PROVE  TodayHold(table, u, e) \in Int
  <2> DEFINE ids == {h \in DOMAIN table :
                        /\ table[h].userId = u
                        /\ table[h].eventId = e
                        /\ table[h].expiresAt > now
                        /\ IsToday(table[h])}
             c == [h \in ids |-> table[h].quantity]
  <2>1. Len(table) \in Nat /\ ids \in SUBSET (1..Len(table))
    BY TableShape
  <2>2. \A h \in ids : table[h].quantity \in Int
    <3> HIDE DEF ids
    <3>1. \A h \in ids : table[h] \in SeatHold
      BY <2>1, TableShape
    <3>2. QED BY <3>1 DEF SeatHold
  <2> HIDE DEF ids
  <2>3. Total(c) \in Int
    BY <2>1, <2>2, SumOfRows
  <2>4. QED BY <2>3 DEF TodayHold, c, ids
<1>3. QED BY <1>1, <1>2

-----------------------------------------------------------------------------
(* Type correctness.                                                       *)

\* What holdSeats does to the tables.
LEMMA HoldSeatsStep ==
    ASSUME TypeOK, NEW u \in Users, NEW e \in DOMAIN event, NEW q \in Quantities,
           HoldSeats(u, e, q)
    PROVE  /\ TypeOK'
           /\ DOMAIN hold' = 1..(Len(hold) + 1)
           /\ \A h \in DOMAIN hold : hold'[h] = ExpireHolds[h]
           /\ hold'[Len(hold) + 1] = NewHold(u, e, q)
<1>1. q \in Int
  BY InputsAssumption
<1>2. NewHold(u, e, q) \in SeatHold
  <2>1. e \in Nat
    BY TableShape DEF TypeOK
  <2>2. QED BY <1>1, <2>1, ParametersAssumption DEF NewHold, SeatHold, SeatHoldStatus, TypeOK
<1>3. hold' = Append(ExpireHolds, NewHold(u, e, q))
  BY DEF HoldSeats
<1>4. /\ hold' \in Seq(SeatHold)
      /\ Len(hold') = Len(hold) + 1
      /\ \A h \in 1..Len(hold) : hold'[h] = ExpireHolds[h]
      /\ hold'[Len(hold) + 1] = NewHold(u, e, q)
  BY <1>2, <1>3, SweepShape, AppendProperties
<1>5. \A h \in DOMAIN hold' : hold'[h].eventId \in DOMAIN event /\ hold'[h].createdAt <= now
  <2> SUFFICES ASSUME NEW h \in DOMAIN hold'
               PROVE  hold'[h].eventId \in DOMAIN event /\ hold'[h].createdAt <= now
    OBVIOUS
  <2>1. Len(hold) \in Nat /\ DOMAIN hold = 1..Len(hold)
    BY TableShape DEF TypeOK
  <2>2. DOMAIN hold' = 1..(Len(hold) + 1)
    BY <1>4, TableShape
  <2>3. CASE h \in 1..Len(hold)
    <3>1. h \in DOMAIN hold /\ hold'[h] = ExpireHolds[h]
      BY <1>4, <2>1, <2>3
    <3>2. hold'[h].eventId = hold[h].eventId /\ hold'[h].createdAt = hold[h].createdAt
      BY <3>1, SweepShape
    <3>3. QED BY <3>1, <3>2 DEF TypeOK
  <2>4. CASE h = Len(hold) + 1
    BY <2>4, <1>4 DEF NewHold, TypeOK
  <2>5. QED BY <2>1, <2>2, <2>3, <2>4
<1>6. UNCHANGED <<now, event, booking>>
  BY DEF HoldSeats
<1>7. TypeOK'
  BY <1>4, <1>5, <1>6 DEF TypeOK
<1>8. DOMAIN hold = 1..Len(hold) /\ DOMAIN hold' = 1..(Len(hold) + 1)
  BY <1>4, TableShape DEF TypeOK
<1>9. QED BY <1>4, <1>7, <1>8

\* The rows of a booking made at an instant, of a hold taken for processing
\* until another one.
BookingAt(h, at)     == [NewBooking(h) EXCEPT !.createdAt = at]
SettledRow(h, until) == [CompletedHold(h) EXCEPT !.processingExpiresAt = until]

\* What a booking at an instant does to the tables, which book does in one step and
\* BookingTx statement by statement.
Sells(h, at, until) ==
    /\ event' = [event EXCEPT ![hold[h].eventId].bookedSeats = BookedSeatsAfter(h)]
    /\ booking' = Append(booking, BookingAt(h, at))
    /\ hold' = [hold EXCEPT ![h] = SettledRow(h, until)]
    /\ now' = now

LEMMA SellStep ==
    ASSUME TypeOK, NEW h \in DOMAIN hold, NEW at \in 0..Horizon, at <= now,
           NEW until \in Nat, Sells(h, at, until)
    PROVE  /\ TypeOK'
           /\ hold[h].eventId \in DOMAIN event
           /\ event' = [event EXCEPT ![hold[h].eventId] =
                           [event[hold[h].eventId] EXCEPT !.bookedSeats = BookedSeatsAfter(h)]]
           /\ DOMAIN hold' = DOMAIN hold
           /\ \A g \in DOMAIN hold : g # h => hold'[g] = hold[g]
           /\ hold'[h] = SettledRow(h, until)
           /\ DOMAIN booking' = 1..(Len(booking) + 1)
           /\ \A b \in DOMAIN booking : booking'[b] = booking[b]
           /\ booking'[Len(booking) + 1] = BookingAt(h, at)
<1> DEFINE e == hold[h].eventId
           brow == BookingAt(h, at)
           hrow == SettledRow(h, until)
<1>1. /\ Len(hold) \in Nat /\ DOMAIN hold = 1..Len(hold) /\ hold[h] \in SeatHold
      /\ Len(event) \in Nat /\ DOMAIN event = 1..Len(event)
      /\ Len(booking) \in Nat /\ DOMAIN booking = 1..Len(booking)
  BY TableShape DEF TypeOK
<1>2. e \in DOMAIN event /\ event[e] \in Event /\ now \in 0..Horizon
  BY <1>1, TableShape DEF TypeOK
<1>3. brow \in Booking /\ brow.eventId = e /\ brow.createdAt = at
  <2>1. hold[h].quantity * event[e].price \in Int
    BY <1>1, <1>2 DEF SeatHold, Event
  <2>2. QED BY <1>1, <1>2, <2>1 DEF BookingAt, NewBooking, Booking, SeatHold, BookingStatus
<1>4. hrow \in SeatHold /\ hrow.eventId = e /\ hrow.createdAt = hold[h].createdAt
  <2>1. Len(booking) + 1 \in Nat
    BY <1>1
  <2>2. QED BY <1>1, <2>1 DEF SettledRow, CompletedHold, SeatHold, SeatHoldStatus
<1>5. [event[e] EXCEPT !.bookedSeats = BookedSeatsAfter(h)] \in Event
  <2>1. hold[h].quantity \in Int
    BY <1>1 DEF SeatHold
  <2>2. event[e].bookedSeats \in Int
    BY <1>2 DEF Event
  <2>3. BookedSeatsAfter(h) \in Int
    BY <2>1, <2>2 DEF BookedSeatsAfter
  <2>4. QED BY <1>2, <2>3 DEF Event
<1>6. /\ event' = [event EXCEPT ![e] = [event[e] EXCEPT !.bookedSeats = BookedSeatsAfter(h)]]
      /\ hold' = [hold EXCEPT ![h] = hrow]
      /\ booking' = Append(booking, brow)
      /\ now' = now
  BY DEF Sells
<1>7. event' \in Seq(Event) /\ DOMAIN event' = DOMAIN event
  <2> HIDE DEF e
  <2> QED BY <1>1, <1>2, <1>5, <1>6, ExceptSeq DEF TypeOK
<1> HIDE DEF hrow, brow
<1>8. hold' \in Seq(SeatHold) /\ DOMAIN hold' = DOMAIN hold
  BY <1>1, <1>4, <1>6, ExceptSeq DEF TypeOK
<1>9. /\ booking' \in Seq(Booking)
      /\ Len(booking') = Len(booking) + 1
      /\ \A b \in 1..Len(booking) : booking'[b] = booking[b]
      /\ booking'[Len(booking) + 1] = brow
  BY <1>3, <1>6, AppendProperties DEF TypeOK
<1>10. \A g \in DOMAIN hold' : hold'[g].eventId \in DOMAIN event /\ hold'[g].createdAt <= now
  BY <1>1, <1>2, <1>4, <1>6, <1>8 DEF TypeOK
<1>11. \A b \in DOMAIN booking' :
          booking'[b].eventId \in DOMAIN event /\ booking'[b].createdAt <= now
  <2> SUFFICES ASSUME NEW b \in DOMAIN booking'
               PROVE  booking'[b].eventId \in DOMAIN event /\ booking'[b].createdAt <= now
    OBVIOUS
  <2>1. DOMAIN booking' = 1..(Len(booking) + 1)
    BY <1>9, TableShape
  <2>2. CASE b \in 1..Len(booking)
    BY <1>1, <1>9, <2>2 DEF TypeOK
  <2>3. CASE b = Len(booking) + 1
    BY <1>2, <1>3, <1>9, <2>3
  <2>4. QED BY <1>1, <2>1, <2>2, <2>3
<1>12. TypeOK'
  BY <1>6, <1>7, <1>8, <1>9, <1>10, <1>11 DEF TypeOK
<1>13. DOMAIN booking' = 1..(Len(booking) + 1)
  BY <1>9, TableShape
<1>14. hold'[h] = hrow /\ \A g \in DOMAIN hold : g # h => hold'[g] = hold[g]
  BY <1>1, <1>6
<1>15. QED BY <1>1, <1>2, <1>6, <1>8, <1>9, <1>12, <1>13, <1>14 DEF brow, hrow

\* A row that is sold is Completed, points to its booking, and is otherwise
\* what it was.
LEMMA SoldRow ==
    ASSUME TypeOK, NEW h \in DOMAIN hold, NEW at \in 0..Horizon, at <= now,
           NEW until \in Nat, Sells(h, at, until)
    PROVE  /\ hold'[h].status = "Completed"
           /\ hold'[h].bookingId = Len(booking) + 1
           /\ hold'[h].userId = hold[h].userId
           /\ hold'[h].eventId = hold[h].eventId
           /\ hold'[h].quantity = hold[h].quantity
           /\ hold'[h].createdAt = hold[h].createdAt
           /\ hold'[h].expiresAt = hold[h].expiresAt
<1>1. hold[h] \in SeatHold
  BY TableShape DEF TypeOK
<1>2. hold'[h] = SettledRow(h, until)
  BY SellStep
<1>3. QED BY <1>1, <1>2 DEF SettledRow, CompletedHold, SeatHold

\* book is a sale at this instant.
LEMMA BookSells ==
    ASSUME TypeOK, NEW u, NEW h \in DOMAIN hold, Book(u, h)
    PROVE  /\ now \in 0..Horizon /\ now <= now /\ now + BOOKING_PAYMENT_TIME \in Nat
           /\ Sells(h, now, now + BOOKING_PAYMENT_TIME)
           /\ BookingAt(h, now) = NewBooking(h)
           /\ SettledRow(h, now + BOOKING_PAYMENT_TIME) = CompletedHold(h)
<1>1. hold[h] \in SeatHold /\ now \in 0..Horizon
  BY TableShape DEF TypeOK
<1>2. now \in 0..Horizon /\ now <= now /\ now + BOOKING_PAYMENT_TIME \in Nat
  BY <1>1, ParametersAssumption
<1>3. BookingAt(h, now) = NewBooking(h)
  BY DEF BookingAt, NewBooking
<1>4. SettledRow(h, now + BOOKING_PAYMENT_TIME) = CompletedHold(h)
  BY <1>1 DEF SettledRow, CompletedHold, SeatHold
<1>5. Sells(h, now, now + BOOKING_PAYMENT_TIME)
  BY <1>3, <1>4 DEF Book, Sells
<1>6. QED BY <1>2, <1>3, <1>4, <1>5

\* What book does to the tables.
LEMMA BookStep ==
    ASSUME TypeOK, NEW u \in Users, NEW h \in DOMAIN hold, Book(u, h)
    PROVE  /\ TypeOK'
           /\ hold[h].eventId \in DOMAIN event
           /\ event' = [event EXCEPT ![hold[h].eventId] =
                           [event[hold[h].eventId] EXCEPT !.bookedSeats = BookedSeatsAfter(h)]]
           /\ DOMAIN hold' = DOMAIN hold
           /\ \A g \in DOMAIN hold : g # h => hold'[g] = hold[g]
           /\ hold'[h] = CompletedHold(h)
           /\ DOMAIN booking' = 1..(Len(booking) + 1)
           /\ \A b \in DOMAIN booking : booking'[b] = booking[b]
           /\ booking'[Len(booking) + 1] = NewBooking(h)
<1>1. PICK at \in 0..Horizon, until \in Nat :
         /\ at <= now
         /\ Sells(h, at, until)
         /\ BookingAt(h, at) = NewBooking(h)
         /\ SettledRow(h, until) = CompletedHold(h)
  BY BookSells
<1>2. QED BY <1>1, SellStep

\* The cron jobs on holds and the sweep only take rows out of ActiveStatuses.
LEMMA CronHoldsStep ==
    ASSUME TypeOK, ClearExpiredHolds \/ ClearExpiredProcessingHolds
    PROVE  /\ TypeOK'
           /\ DOMAIN hold' = DOMAIN hold
           /\ \A h \in DOMAIN hold :
                 \/ hold'[h] = hold[h]
                 \/ /\ hold[h].status \in ActiveStatuses
                    /\ hold'[h] = [hold[h] EXCEPT !.status = "Expired"]
<1>1. hold \in Seq(SeatHold) /\ \A h \in DOMAIN hold : hold[h] \in SeatHold
  BY TableShape DEF TypeOK
<1>2. /\ DOMAIN hold' = DOMAIN hold
      /\ hold' = [h \in DOMAIN hold |-> hold'[h]]
      /\ \A h \in DOMAIN hold :
            \/ hold'[h] = hold[h]
            \/ /\ hold[h].status \in ActiveStatuses
               /\ hold'[h] = [hold[h] EXCEPT !.status = "Expired"]
  <2>1. CASE ClearExpiredHolds
    BY <2>1 DEF ClearExpiredHolds, ExpireHolds, IsExpired, ActiveStatuses
  <2>2. CASE ClearExpiredProcessingHolds
    BY <2>2 DEF ClearExpiredProcessingHolds, IsStuckProcessing, ActiveStatuses
  <2>3. QED BY <2>1, <2>2
<1>3. \A h \in DOMAIN hold :
         /\ hold'[h] \in SeatHold
         /\ hold'[h].eventId = hold[h].eventId
         /\ hold'[h].createdAt = hold[h].createdAt
  <2> SUFFICES ASSUME NEW h \in DOMAIN hold
               PROVE  /\ hold'[h] \in SeatHold
                      /\ hold'[h].eventId = hold[h].eventId
                      /\ hold'[h].createdAt = hold[h].createdAt
    OBVIOUS
  <2>1. hold[h] \in SeatHold
    BY <1>1
  <2>2. CASE hold'[h] = hold[h]
    BY <2>1, <2>2
  <2>3. CASE hold'[h] = [hold[h] EXCEPT !.status = "Expired"]
    BY <2>1, <2>3 DEF SeatHold, SeatHoldStatus
  <2>4. QED BY <1>2, <2>2, <2>3
<1>4. hold' \in Seq(SeatHold)
  BY <1>1, <1>2, <1>3, RewriteRows
<1>5. UNCHANGED <<now, event, booking>>
  BY DEF ClearExpiredHolds, ClearExpiredProcessingHolds
<1>6. TypeOK'
  BY <1>2, <1>3, <1>4, <1>5 DEF TypeOK
<1>7. QED BY <1>2, <1>6

\* What managers, the hourly job and the clock do to the tables: no event
\* changes its counter, a new one starts at zero.
LEMMA EventStep ==
    ASSUME TypeOK, Manage \/ HandleCompletedEvents \/ Tick
    PROVE  /\ TypeOK'
           /\ UNCHANGED <<hold, booking>>
           /\ DOMAIN event \subseteq DOMAIN event'
           /\ \A e \in DOMAIN event : event'[e].bookedSeats = event[e].bookedSeats
           /\ \A e \in DOMAIN event' \ DOMAIN event : event'[e].bookedSeats = 0
<1>1. /\ event \in Seq(Event) /\ now \in 0..Horizon
      /\ Len(event) \in Nat /\ DOMAIN event = 1..Len(event)
      /\ \A e \in DOMAIN event : event[e] \in Event
  BY TableShape DEF TypeOK
<1> DEFINE Effect ==
        /\ event' \in Seq(Event)
        /\ now' \in 0..Horizon /\ now <= now'
        /\ UNCHANGED <<hold, booking>>
        /\ DOMAIN event \subseteq DOMAIN event'
        /\ \A e \in DOMAIN event : event'[e].bookedSeats = event[e].bookedSeats
        /\ \A e \in DOMAIN event' \ DOMAIN event : event'[e].bookedSeats = 0
<1>2. ASSUME NEW m \in Managers, NEW seats \in SeatCounts, NEW price \in Prices,
             NEW date \in Dates, CreateEvent(m, seats, price, date)
      PROVE  Effect
  <2>1. NewEvent(m, seats, price, date) \in Event /\ NewEvent(m, seats, price, date).bookedSeats = 0
    BY InputsAssumption DEF NewEvent, Event, EventStatus
  <2>2. /\ event' \in Seq(Event)
        /\ Len(event') = Len(event) + 1
        /\ \A e \in 1..Len(event) : event'[e] = event[e]
        /\ event'[Len(event) + 1] = NewEvent(m, seats, price, date)
    BY <1>1, <1>2, <2>1, AppendProperties DEF CreateEvent
  <2>3. DOMAIN event' = 1..(Len(event) + 1)
    BY <2>2, TableShape
  <2>4. now' = now /\ UNCHANGED <<hold, booking>>
    BY <1>2 DEF CreateEvent
  <2>5. QED BY <1>1, <2>1, <2>2, <2>3, <2>4
<1>3. ASSUME NEW m \in Managers, NEW seats \in SeatCounts, NEW price \in Prices,
             NEW date \in Dates, NEW e \in DOMAIN event, UpdateEvent(m, e, seats, price, date)
      PROVE  Effect
  <2> DEFINE row == [event[e] EXCEPT !.totalSeats = seats, !.price = price, !.date = date]
  <2>1. row \in Event /\ row.bookedSeats = event[e].bookedSeats
    BY <1>1, InputsAssumption DEF Event
  <2>2. event' = [event EXCEPT ![e] = row]
    BY <1>1, <1>3 DEF UpdateEvent
  <2> HIDE DEF row
  <2>3. event' \in Seq(Event) /\ DOMAIN event' = DOMAIN event
    BY <1>1, <2>1, <2>2, ExceptSeq
  <2>4. now' = now /\ UNCHANGED <<hold, booking>>
    BY <1>3 DEF UpdateEvent
  <2>5. QED BY <1>1, <2>1, <2>2, <2>3, <2>4
<1>4. ASSUME NEW m \in Managers, NEW status \in EventStatus, NEW e \in DOMAIN event,
             UpdateEventStatus(m, e, status)
      PROVE  Effect
  <2> DEFINE row == [event[e] EXCEPT !.status = status]
  <2>1. row \in Event /\ row.bookedSeats = event[e].bookedSeats
    BY <1>1 DEF Event
  <2>2. event' = [event EXCEPT ![e] = row]
    BY <1>1, <1>4 DEF UpdateEventStatus
  <2> HIDE DEF row
  <2>3. event' \in Seq(Event) /\ DOMAIN event' = DOMAIN event
    BY <1>1, <2>1, <2>2, ExceptSeq
  <2>4. now' = now /\ UNCHANGED <<hold, booking>>
    BY <1>4 DEF UpdateEventStatus
  <2>5. QED BY <1>1, <2>1, <2>2, <2>3, <2>4
<1>5. ASSUME HandleCompletedEvents
      PROVE  Effect
  <2>1. event' = [e \in DOMAIN event |-> event'[e]]
    BY <1>5 DEF HandleCompletedEvents
  <2>2. \A e \in DOMAIN event :
           event'[e] \in Event /\ event'[e].bookedSeats = event[e].bookedSeats
    BY <1>1, <1>5 DEF HandleCompletedEvents, Event, EventStatus
  <2>3. event' \in Seq(Event) /\ DOMAIN event' = DOMAIN event
    BY <1>1, <2>1, <2>2, RewriteRows
  <2>4. now' = now /\ UNCHANGED <<hold, booking>>
    BY <1>5 DEF HandleCompletedEvents
  <2>5. QED BY <1>1, <2>2, <2>3, <2>4
<1>6. ASSUME Tick
      PROVE  Effect
  BY <1>1, <1>6, ParametersAssumption DEF Tick
<1>7. Effect
  BY <1>2, <1>3, <1>4, <1>5, <1>6 DEF Manage, ManageBy
<1>8. TypeOK'
  <2>1. \A h \in DOMAIN hold : hold[h].createdAt \in Nat /\ hold[h].eventId \in DOMAIN event
                               /\ hold[h].createdAt <= now
    <3>1. \A h \in DOMAIN hold : hold[h] \in SeatHold
      BY TableShape DEF TypeOK
    <3>2. QED BY <3>1, <1>1 DEF TypeOK, SeatHold
  <2>2. \A b \in DOMAIN booking : booking[b].createdAt \in Nat /\ booking[b].eventId \in DOMAIN event
                                  /\ booking[b].createdAt <= now
    <3>1. \A b \in DOMAIN booking : booking[b] \in Booking
      BY TableShape DEF TypeOK
    <3>2. QED BY <3>1, <1>1 DEF TypeOK, Booking
  <2>3. QED BY <1>1, <1>7, <2>1, <2>2 DEF TypeOK
<1>9. QED BY <1>7, <1>8

LEMMA TypeInit == Init => TypeOK
BY ParametersAssumption, EmptySeq DEF Init, TypeOK

LEMMA TypeNext == TypeOK /\ [Next]_vars => TypeOK'
<1> SUFFICES ASSUME TypeOK, [Next]_vars PROVE TypeOK'
  OBVIOUS
<1>1. CASE \E u \in Users, e \in DOMAIN event, q \in Quantities : HoldSeats(u, e, q)
  BY <1>1, HoldSeatsStep
<1>2. CASE \E u \in Users, h \in DOMAIN hold : Book(u, h)
  BY <1>2, BookStep
<1>3. CASE ClearExpiredHolds \/ ClearExpiredProcessingHolds
  BY <1>3, CronHoldsStep
<1>4. CASE Manage \/ HandleCompletedEvents \/ Tick
  BY <1>4, EventStep
<1>5. CASE UNCHANGED vars
  BY <1>5 DEF vars, TypeOK
<1>6. QED BY <1>1, <1>2, <1>3, <1>4, <1>5 DEF Next, Cron

\* Every table keeps its type and its foreign keys, and no row is from the
\* future: whatever committed transactions run in whatever order.
THEOREM TypeCorrect == Spec => []TypeOK
BY TypeInit, TypeNext, PTL DEF Spec

-----------------------------------------------------------------------------
(* One active hold.                                                        *)

LEMMA OneActiveHoldNext ==
    TypeOK /\ OneActiveHold /\ [Next]_vars => OneActiveHold'
<1> SUFFICES ASSUME TypeOK, OneActiveHold, [Next]_vars PROVE OneActiveHold'
  OBVIOUS
<1>1. ASSUME NEW u \in Users, NEW e \in DOMAIN event, NEW q \in Quantities, HoldSeats(u, e, q)
      PROVE  OneActiveHold'
  <2>1. /\ Len(hold) \in Nat /\ DOMAIN hold = 1..Len(hold)
        /\ DOMAIN hold' = 1..(Len(hold) + 1)
    BY <1>1, HoldSeatsStep, TableShape DEF TypeOK
  <2>2. \A h \in DOMAIN hold :
           /\ hold'[h].userId = hold[h].userId
           /\ hold'[h].eventId = hold[h].eventId
           /\ hold'[h].status \in ActiveStatuses => hold[h].status \in ActiveStatuses
    BY <1>1, HoldSeatsStep, SweepShape DEF ActiveStatuses
  <2>3. \A h \in DOMAIN hold :
           ~ /\ hold'[h].userId = u
             /\ hold'[h].eventId = e
             /\ hold'[h].status \in ActiveStatuses
    <3>1. ~HasExistingHold(ExpireHolds, u, e)
      BY <1>1 DEF HoldSeats
    <3>2. QED BY <1>1, <3>1, HoldSeatsStep, SweepShape DEF HasExistingHold
  <2>4. hold'[Len(hold) + 1].userId = u /\ hold'[Len(hold) + 1].eventId = e
    <3>1. hold'[Len(hold) + 1] = NewHold(u, e, q)
      BY <1>1, HoldSeatsStep
    <3>2. QED BY <3>1 DEF NewHold
  <2> SUFFICES ASSUME NEW g \in DOMAIN hold', NEW h \in DOMAIN hold',
                      hold'[g].userId = hold'[h].userId,
                      hold'[g].eventId = hold'[h].eventId,
                      hold'[g].status \in ActiveStatuses,
                      hold'[h].status \in ActiveStatuses
               PROVE  g = h
    BY DEF OneActiveHold
  <2>5. CASE g \in DOMAIN hold /\ h \in DOMAIN hold
    BY <2>2, <2>5 DEF OneActiveHold
  <2>6. CASE g \notin DOMAIN hold \/ h \notin DOMAIN hold
    <3>1. \A x \in DOMAIN hold' \ DOMAIN hold : x = Len(hold) + 1
      BY <2>1
    <3>2. QED BY <2>3, <2>4, <2>6, <3>1
  <2>7. QED BY <2>5, <2>6
<1>2. ASSUME NEW u \in Users, NEW h \in DOMAIN hold, Book(u, h)
      PROVE  OneActiveHold'
  <2>1. hold'[h].status \notin ActiveStatuses
    <3>1. hold[h] \in SeatHold
      BY TableShape DEF TypeOK
    <3>2. CompletedHold(h).status = "Completed"
      BY <3>1 DEF CompletedHold, SeatHold
    <3>3. QED BY <1>2, <3>2, BookStep DEF ActiveStatuses
  <2>2. QED BY <1>2, <2>1, BookStep DEF OneActiveHold
<1>3. CASE ClearExpiredHolds \/ ClearExpiredProcessingHolds
  <2>1. \A h \in DOMAIN hold :
           /\ hold'[h].userId = hold[h].userId
           /\ hold'[h].eventId = hold[h].eventId
           /\ hold'[h].status \in ActiveStatuses => hold[h].status \in ActiveStatuses
    <3> SUFFICES ASSUME NEW h \in DOMAIN hold
                 PROVE  /\ hold'[h].userId = hold[h].userId
                        /\ hold'[h].eventId = hold[h].eventId
                        /\ hold'[h].status \in ActiveStatuses => hold[h].status \in ActiveStatuses
      OBVIOUS
    <3>1. hold[h] \in SeatHold
      BY TableShape DEF TypeOK
    <3>2. CASE hold'[h] = hold[h]
      BY <3>2
    <3>3. CASE hold'[h] = [hold[h] EXCEPT !.status = "Expired"]
      BY <3>1, <3>3 DEF SeatHold, ActiveStatuses
    <3>4. QED BY <1>3, <3>2, <3>3, CronHoldsStep
  <2>2. QED BY <1>3, <2>1, CronHoldsStep DEF OneActiveHold
<1>4. CASE Manage \/ HandleCompletedEvents \/ Tick
  BY <1>4, EventStep DEF OneActiveHold
<1>5. CASE UNCHANGED vars
  BY <1>5 DEF vars, OneActiveHold
<1>6. QED BY <1>1, <1>2, <1>3, <1>4, <1>5 DEF Next, Cron

\* No order of calls, sweeps and clock ticks gives a user two active holds of
\* one event.
THEOREM OneActiveHoldHolds == Spec => []OneActiveHold
<1>1. Init => OneActiveHold
  BY DEF Init, OneActiveHold
<1>2. QED BY <1>1, TypeCorrect, OneActiveHoldNext, PTL DEF Spec

-----------------------------------------------------------------------------
(* The seats of a hold.                                                    *)

\* A hold keeps the quantity its request asked for.
HeldAsAsked == \A h \in DOMAIN hold : hold[h].quantity \in Quantities

LEMMA HeldAsAskedNext == TypeOK /\ HeldAsAsked /\ [Next]_vars => HeldAsAsked'
<1> SUFFICES ASSUME TypeOK, HeldAsAsked, [Next]_vars PROVE HeldAsAsked'
  OBVIOUS
<1>1. Len(hold) \in Nat /\ DOMAIN hold = 1..Len(hold) /\ \A h \in DOMAIN hold : hold[h] \in SeatHold
  BY TableShape DEF TypeOK
<1>2. ASSUME NEW u \in Users, NEW e \in DOMAIN event, NEW q \in Quantities, HoldSeats(u, e, q)
      PROVE  HeldAsAsked'
  <2>1. \A h \in DOMAIN hold : hold'[h].quantity = hold[h].quantity
    BY <1>2, HoldSeatsStep, SweepShape
  <2>2. DOMAIN hold' = DOMAIN hold \cup {Len(hold) + 1}
    <3>1. DOMAIN hold' = 1..(Len(hold) + 1)
      BY <1>2, HoldSeatsStep
    <3>2. QED BY <1>1, <3>1
  <2>3. hold'[Len(hold) + 1].quantity = q
    <3>1. hold'[Len(hold) + 1] = NewHold(u, e, q)
      BY <1>2, HoldSeatsStep
    <3>2. QED BY <3>1 DEF NewHold
  <2>4. QED BY <2>1, <2>2, <2>3 DEF HeldAsAsked
<1>3. ASSUME NEW u \in Users, NEW h \in DOMAIN hold, Book(u, h)
      PROVE  HeldAsAsked'
  <2>1. hold'[h].quantity = hold[h].quantity
    BY <1>1, <1>3, BookStep DEF CompletedHold, SeatHold
  <2>2. QED BY <1>3, <2>1, BookStep DEF HeldAsAsked
<1>4. CASE ClearExpiredHolds \/ ClearExpiredProcessingHolds
  <2>1. ASSUME NEW h \in DOMAIN hold
        PROVE  hold'[h].quantity = hold[h].quantity
    <3>1. \/ hold'[h] = hold[h]
          \/ hold'[h] = [hold[h] EXCEPT !.status = "Expired"]
      BY <1>4, CronHoldsStep
    <3>2. QED BY <1>1, <3>1 DEF SeatHold
  <2>2. QED BY <1>4, <2>1, CronHoldsStep DEF HeldAsAsked
<1>5. CASE Manage \/ HandleCompletedEvents \/ Tick
  BY <1>5, EventStep DEF HeldAsAsked
<1>6. CASE UNCHANGED vars
  BY <1>6 DEF vars, HeldAsAsked
<1>7. QED BY <1>2, <1>3, <1>4, <1>5, <1>6 DEF Next, Cron

LEMMA HeldAsAskedHolds == Spec => []HeldAsAsked
<1>1. Init => HeldAsAsked
  BY EmptySeq DEF Init, HeldAsAsked
<1>2. QED BY <1>1, TypeCorrect, HeldAsAskedNext, PTL DEF Spec

-----------------------------------------------------------------------------
(* Sums over bookings.                                                     *)

\* What a confirmed booking adds to the sums of its user and of its event.
LEMMA SellSums ==
    ASSUME TypeOK, NEW h \in DOMAIN hold, NEW at \in 0..Horizon, at <= now,
           NEW until \in Nat, Sells(h, at, until)
    PROVE  /\ \A v, f, day :
                 BookedOn(v, f, day)' =
                    IF v = hold[h].userId /\ f = hold[h].eventId /\ day = DayOf[at]
                    THEN BookedOn(v, f, day) + hold[h].quantity ELSE BookedOn(v, f, day)
           /\ \A f :
                 Total([b \in BookingsOf(f) |-> booking[b].quantity])' =
                    IF f = hold[h].eventId
                    THEN Total([b \in BookingsOf(f) |-> booking[b].quantity]) + hold[h].quantity
                    ELSE Total([b \in BookingsOf(f) |-> booking[b].quantity])
           /\ \A v, f :
                 GivenBack(v, f)' =
                    IF v = hold[h].userId /\ f = hold[h].eventId /\ hold[h].quantity < 0
                    THEN GivenBack(v, f) + (-hold[h].quantity) ELSE GivenBack(v, f)
<1> DEFINE n == Len(booking)
           k == hold[h].quantity
<1>1. /\ n \in Nat /\ DOMAIN booking = 1..n /\ DOMAIN booking' = 1..(n + 1)
      /\ \A b \in 1..n : booking'[b] = booking[b] /\ booking[b].quantity \in Int
  <2>1. \A b \in DOMAIN booking : booking[b] \in Booking
    BY TableShape DEF TypeOK
  <2>2. \A b \in DOMAIN booking : booking[b].quantity \in Int
    BY <2>1 DEF Booking
  <2>3. n \in Nat /\ DOMAIN booking = 1..n
    BY TableShape DEF TypeOK
  <2>4. DOMAIN booking' = 1..(n + 1) /\ \A b \in DOMAIN booking : booking'[b] = booking[b]
    BY SellStep
  <2>5. QED BY <2>2, <2>3, <2>4
<1>2. k \in Int
  <2>1. hold[h] \in SeatHold
    BY TableShape DEF TypeOK
  <2>2. QED BY <2>1 DEF SeatHold
<1>3. /\ booking'[n + 1].userId = hold[h].userId
      /\ booking'[n + 1].eventId = hold[h].eventId
      /\ booking'[n + 1].quantity = k
      /\ booking'[n + 1].status = "Confirmed"
      /\ booking'[n + 1].createdAt = at
  <2>1. booking'[n + 1] = BookingAt(h, at)
    BY SellStep
  <2>2. QED BY <2>1 DEF BookingAt, NewBooking
<1>4. ASSUME NEW v, NEW f, NEW day
      PROVE  BookedOn(v, f, day)' =
                IF v = hold[h].userId /\ f = hold[h].eventId /\ day = DayOf[at]
                THEN BookedOn(v, f, day) + k ELSE BookedOn(v, f, day)
  <2> DEFINE ids == BookingsOn(v, f, day)
             c == [b \in ids |-> booking[b].quantity]
             d == [b \in ids' |-> booking'[b].quantity]
  <2>1. ids \in SUBSET (1..n)
    BY <1>1 DEF BookingsOn
  <2>2. c \in [ids -> Int]
    <3> HIDE DEF ids
    <3> QED BY <1>1, <2>1
  <2>3. BookedOn(v, f, day) = Total(c) /\ BookedOn(v, f, day)' = Total(d)
    BY DEF BookedOn
  <2>4. CASE v = hold[h].userId /\ f = hold[h].eventId /\ day = DayOf[at]
    <3>1. ids' = ids \cup {n + 1}
      BY <1>1, <1>3, <2>4 DEF BookingsOn
    <3> HIDE DEF ids
    <3>2. d \in [ids \cup {n + 1} -> Int] /\ d[n + 1] = k /\ \A i \in ids : d[i] = c[i]
      BY <1>1, <1>2, <1>3, <2>1, <3>1
    <3> HIDE DEF c, d
    <3>3. Total(d) = Total(c) + k
      BY <1>1, <1>2, <2>1, <2>2, <3>2, SumAfterAppend
    <3>4. QED BY <2>3, <2>4, <3>3
  <2>5. CASE ~(v = hold[h].userId /\ f = hold[h].eventId /\ day = DayOf[at])
    <3>1. ids' = ids
      BY <1>1, <1>3, <2>5 DEF BookingsOn
    <3> HIDE DEF ids
    <3>2. d = c
      BY <1>1, <2>1, <3>1
    <3>3. QED BY <2>3, <2>5, <3>2
  <2>6. QED BY <2>4, <2>5
<1>5. ASSUME NEW f
      PROVE  Total([b \in BookingsOf(f) |-> booking[b].quantity])' =
                IF f = hold[h].eventId
                THEN Total([b \in BookingsOf(f) |-> booking[b].quantity]) + k
                ELSE Total([b \in BookingsOf(f) |-> booking[b].quantity])
  <2> DEFINE ids == BookingsOf(f)
             c == [b \in ids |-> booking[b].quantity]
             d == [b \in ids' |-> booking'[b].quantity]
  <2>1. ids \in SUBSET (1..n)
    BY <1>1 DEF BookingsOf
  <2>2. c \in [ids -> Int]
    <3> HIDE DEF ids
    <3> QED BY <1>1, <2>1
  <2>3. CASE f = hold[h].eventId
    <3>1. ids' = ids \cup {n + 1}
      BY <1>1, <1>3, <2>3 DEF BookingsOf
    <3> HIDE DEF ids
    <3>2. d \in [ids \cup {n + 1} -> Int] /\ d[n + 1] = k /\ \A i \in ids : d[i] = c[i]
      BY <1>1, <1>2, <1>3, <2>1, <3>1
    <3>3. Total(d) = Total(c) + k
      <4> HIDE DEF c, d
      <4> QED BY <1>1, <1>2, <2>1, <2>2, <3>2, SumAfterAppend
    <3>4. QED BY <2>3, <3>3 DEF ids
  <2>4. CASE f # hold[h].eventId
    <3>1. ids' = ids
      BY <1>1, <1>3, <2>4 DEF BookingsOf
    <3> HIDE DEF ids
    <3>2. d = c
      BY <1>1, <2>1, <3>1
    <3>3. QED BY <2>4, <3>2 DEF ids
  <2>5. QED BY <2>3, <2>4
<1>6. ASSUME NEW v, NEW f
      PROVE  GivenBack(v, f)' =
                IF v = hold[h].userId /\ f = hold[h].eventId /\ k < 0
                THEN GivenBack(v, f) + (-k) ELSE GivenBack(v, f)
  <2> DEFINE ids == {b \in DOMAIN booking : /\ booking[b].userId = v
                                            /\ booking[b].eventId = f
                                            /\ booking[b].quantity < 0}
             c == [b \in ids |-> -booking[b].quantity]
             d == [b \in ids' |-> -booking'[b].quantity]
  <2>1. ids \in SUBSET (1..n)
    BY <1>1
  <2>2. c \in [ids -> Int]
    <3> HIDE DEF ids
    <3> QED BY <1>1, <2>1
  <2>3. GivenBack(v, f) = Total(c) /\ GivenBack(v, f)' = Total(d)
    BY DEF GivenBack
  <2>4. CASE v = hold[h].userId /\ f = hold[h].eventId /\ k < 0
    <3>1. ids' = ids \cup {n + 1}
      BY <1>1, <1>3, <2>4
    <3> HIDE DEF ids
    <3>2. PICK m : m = -k
      OBVIOUS
    <3>3. booking'[n + 1].quantity = k /\ m \in Int
      BY <1>2, <1>3, <3>2
    <3> HIDE DEF k
    <3>4. d[n + 1] = m /\ \A i \in ids : d[i] = c[i]
      BY <1>1, <2>1, <3>1, <3>2, <3>3
    <3>5. \A i \in ids : c[i] \in Int
      BY <2>2
    <3>6. d = [i \in ids \cup {n + 1} |-> d[i]]
      BY <3>1
    <3> HIDE DEF c, d
    <3>7. d \in [ids \cup {n + 1} -> Int]
      BY <3>3, <3>4, <3>5, <3>6
    <3>8. Total(d) = Total(c) + m
      <4>1. n \in Nat /\ m \in Int
        BY <1>1, <3>3
      <4> HIDE DEF n
      <4>2. QED BY <2>1, <2>2, <3>4, <3>7, <4>1, SumAfterAppend
    <3>9. QED BY <2>3, <2>4, <3>2, <3>8 DEF k
  <2>5. CASE ~(v = hold[h].userId /\ f = hold[h].eventId /\ k < 0)
    <3>1. ids' = ids
      BY <1>1, <1>3, <2>5
    <3> HIDE DEF ids
    <3>2. d = c
      BY <1>1, <2>1, <3>1
    <3>3. QED BY <2>3, <2>5, <3>2
  <2>6. QED BY <2>4, <2>5
<1>7. QED BY <1>4, <1>5, <1>6

LEMMA BookSums ==
    ASSUME TypeOK, NEW u \in Users, NEW h \in DOMAIN hold, Book(u, h)
    PROVE  /\ \A v, f, day :
              BookedOn(v, f, day)' =
                 IF v = u /\ f = hold[h].eventId /\ day = DayOf[now]
                 THEN BookedOn(v, f, day) + hold[h].quantity ELSE BookedOn(v, f, day)
           /\ \A v, f :
                 GivenBack(v, f)' =
                    IF v = u /\ f = hold[h].eventId /\ hold[h].quantity < 0
                    THEN GivenBack(v, f) + (-hold[h].quantity) ELSE GivenBack(v, f)
<1>1. PICK at, until : at = now /\ until = now + BOOKING_PAYMENT_TIME
  OBVIOUS
<1>2. at \in 0..Horizon /\ at <= now /\ until \in Nat /\ Sells(h, at, until)
  BY <1>1, BookSells
<1>3. hold[h].userId = u
  BY DEF Book, IsBookable
<1>4. QED BY <1>1, <1>2, <1>3, SellSums

-----------------------------------------------------------------------------
(* The life of a hold.                                                     *)

\* No commit leaves a hold Processing and nothing cancels one; what is marked
\* Expired has expired.
HoldsLive ==
    \A h \in DOMAIN hold :
        /\ hold[h].status \in {"Hold", "Completed", "Expired"}
        /\ hold[h].status = "Expired" => hold[h].expiresAt < now

LEMMA HoldsLiveNext == TypeOK /\ HoldsLive /\ [Next]_vars => HoldsLive'
<1> SUFFICES ASSUME TypeOK, HoldsLive, [Next]_vars PROVE HoldsLive'
  OBVIOUS
<1>1. ASSUME NEW u \in Users, NEW e \in DOMAIN event, NEW q \in Quantities, HoldSeats(u, e, q)
      PROVE  HoldsLive'
  <2>1. \A h \in DOMAIN hold : /\ ExpireHolds[h].status \in {"Hold", "Completed", "Expired"}
                               /\ ExpireHolds[h].status = "Expired" => ExpireHolds[h].expiresAt < now
    <3> SUFFICES ASSUME NEW h \in DOMAIN hold
                 PROVE  /\ ExpireHolds[h].status \in {"Hold", "Completed", "Expired"}
                        /\ ExpireHolds[h].status = "Expired" => ExpireHolds[h].expiresAt < now
      OBVIOUS
    <3>1. hold[h] \in SeatHold
      BY TableShape DEF TypeOK
    <3>2. ExpireHolds[h] = IF IsExpired(hold[h])
                           THEN [hold[h] EXCEPT !.status = "Expired"] ELSE hold[h]
      BY DEF ExpireHolds
    <3>3. QED BY <3>1, <3>2 DEF HoldsLive, IsExpired, SeatHold
  <2>2. now' = now /\ \A h \in DOMAIN hold : hold'[h] = ExpireHolds[h]
    BY <1>1, HoldSeatsStep DEF HoldSeats
  <2>3. hold'[Len(hold) + 1].status = "Hold"
    <3>1. hold'[Len(hold) + 1] = NewHold(u, e, q)
      BY <1>1, HoldSeatsStep
    <3>2. QED BY <3>1 DEF NewHold
  <2>4. \A h \in DOMAIN hold' : h \in DOMAIN hold \/ h = Len(hold) + 1
    <3>1. DOMAIN hold' = 1..(Len(hold) + 1)
      BY <1>1, HoldSeatsStep
    <3>2. Len(hold) \in Nat /\ DOMAIN hold = 1..Len(hold)
      BY TableShape DEF TypeOK
    <3>3. QED BY <3>1, <3>2
  <2>5. QED BY <2>1, <2>2, <2>3, <2>4 DEF HoldsLive
<1>2. ASSUME NEW u \in Users, NEW h \in DOMAIN hold, Book(u, h)
      PROVE  HoldsLive'
  <2>1. CompletedHold(h).status = "Completed"
    <3>1. hold[h] \in SeatHold
      BY TableShape DEF TypeOK
    <3>2. QED BY <3>1 DEF CompletedHold, SeatHold
  <2>2. /\ DOMAIN hold' = DOMAIN hold
        /\ hold'[h] = CompletedHold(h)
        /\ \A g \in DOMAIN hold : g # h => hold'[g] = hold[g]
        /\ now' = now
    BY <1>2, BookStep DEF Book
  <2>3. QED BY <2>1, <2>2 DEF HoldsLive
<1>3. CASE ClearExpiredHolds
  <2>1. now' = now /\ DOMAIN hold' = DOMAIN hold
    BY <1>3, CronHoldsStep DEF ClearExpiredHolds
  <2>2. ASSUME NEW h \in DOMAIN hold
        PROVE  /\ hold'[h].status \in {"Hold", "Completed", "Expired"}
               /\ hold'[h].status = "Expired" => hold'[h].expiresAt < now
    <3>1. hold[h] \in SeatHold
      BY TableShape DEF TypeOK
    <3>2. hold'[h] = IF IsExpired(hold[h])
                     THEN [hold[h] EXCEPT !.status = "Expired"] ELSE hold[h]
      BY <1>3 DEF ClearExpiredHolds, ExpireHolds
    <3>3. QED BY <3>1, <3>2 DEF HoldsLive, IsExpired, SeatHold
  <2>3. QED BY <2>1, <2>2 DEF HoldsLive
<1>4. CASE ClearExpiredProcessingHolds
  <2>1. \A h \in DOMAIN hold : hold'[h] = hold[h]
    BY <1>4 DEF ClearExpiredProcessingHolds, IsStuckProcessing, HoldsLive
  <2>2. now' = now /\ DOMAIN hold' = DOMAIN hold
    BY <1>4, CronHoldsStep DEF ClearExpiredProcessingHolds
  <2>3. QED BY <2>1, <2>2 DEF HoldsLive
<1>5. CASE Manage \/ HandleCompletedEvents \/ Tick
  <2>1. hold' = hold /\ now \in 0..Horizon /\ now' \in 0..Horizon /\ now <= now'
    <3>1. hold' = hold
      BY <1>5, EventStep
    <3>2. now' = now \/ now' = now + 1
      BY <1>5 DEF Manage, ManageBy, CreateEvent, UpdateEvent, UpdateEventStatus,
                  HandleCompletedEvents, Tick
    <3>3. now' \in 0..Horizon
      BY <1>5, EventStep DEF TypeOK
    <3>4. QED BY <3>1, <3>2, <3>3, ParametersAssumption DEF TypeOK
  <2>2. \A h \in DOMAIN hold : hold[h].expiresAt \in Nat
    <3>1. \A h \in DOMAIN hold : hold[h] \in SeatHold
      BY TableShape DEF TypeOK
    <3>2. QED BY <3>1 DEF SeatHold
  <2>3. QED BY <2>1, <2>2 DEF HoldsLive
<1>6. CASE UNCHANGED vars
  BY <1>6 DEF vars, HoldsLive
<1>7. QED BY <1>1, <1>2, <1>3, <1>4, <1>5, <1>6 DEF Next, Cron

LEMMA HoldsLiveHolds == Spec => [](TypeOK /\ HoldsLive)
<1>1. Init => TypeOK /\ HoldsLive
  <2> SUFFICES ASSUME Init PROVE TypeOK /\ HoldsLive
    OBVIOUS
  <2>1. DOMAIN hold = {}
    BY EmptySeq DEF Init
  <2>2. QED BY <2>1, TypeInit DEF HoldsLive
<1>2. QED BY <1>1, TypeNext, HoldsLiveNext, PTL DEF Spec

-----------------------------------------------------------------------------
(* Bookings and the holds they settle.                                     *)

\* What a step may do to a hold and to a booking that is already there.
LEMMA RowsEvolve ==
    ASSUME TypeOK, HoldsLive, [Next]_vars
    PROVE  /\ \A h \in DOMAIN hold :
                 /\ h \in DOMAIN hold'
                 /\ \/ hold'[h] = hold[h]
                    \/ /\ hold[h].status \in ActiveStatuses
                       /\ hold'[h] = [hold[h] EXCEPT !.status = "Expired"]
                    \/ /\ hold[h].status \in ActiveStatuses
                       /\ hold'[h] = CompletedHold(h)
                       /\ \E u \in Users : Book(u, h)
           /\ \A b \in DOMAIN booking : b \in DOMAIN booking' /\ booking'[b] = booking[b]
<1>1. ASSUME NEW u \in Users, NEW e \in DOMAIN event, NEW q \in Quantities, HoldSeats(u, e, q)
      PROVE  /\ booking' = booking
             /\ \A h \in DOMAIN hold :
                   /\ h \in DOMAIN hold'
                   /\ \/ hold'[h] = hold[h]
                      \/ /\ hold[h].status \in ActiveStatuses
                         /\ hold'[h] = [hold[h] EXCEPT !.status = "Expired"]
  <2>1. \A h \in DOMAIN hold : h \in DOMAIN hold' /\ hold'[h] = ExpireHolds[h]
    <3>1. DOMAIN hold = 1..Len(hold) /\ Len(hold) \in Nat
      BY TableShape DEF TypeOK
    <3>2. QED BY <1>1, <3>1, HoldSeatsStep
  <2>2. \A h \in DOMAIN hold :
           \/ ExpireHolds[h] = hold[h]
           \/ /\ hold[h].status \in ActiveStatuses
              /\ ExpireHolds[h] = [hold[h] EXCEPT !.status = "Expired"]
    BY DEF ExpireHolds, IsExpired, ActiveStatuses
  <2>3. QED BY <1>1, <2>1, <2>2 DEF HoldSeats
<1>2. ASSUME NEW u \in Users, NEW h \in DOMAIN hold, Book(u, h)
      PROVE  /\ \A g \in DOMAIN hold :
                   /\ g \in DOMAIN hold'
                   /\ \/ hold'[g] = hold[g]
                      \/ /\ hold[g].status \in ActiveStatuses
                         /\ hold'[g] = CompletedHold(g)
                         /\ \E v \in Users : Book(v, g)
             /\ \A b \in DOMAIN booking : b \in DOMAIN booking' /\ booking'[b] = booking[b]
  <2>1. hold[h].status \in ActiveStatuses
    <3>1. hold[h] \in SeatHold
      BY TableShape DEF TypeOK
    <3>2. hold[h].status \notin {"Completed", "Expired"}
      BY <1>2 DEF Book, IsBookable
    <3>3. QED BY <3>1, <3>2 DEF HoldsLive, SeatHold, SeatHoldStatus, ActiveStatuses
  <2>2. /\ DOMAIN hold' = DOMAIN hold
        /\ hold'[h] = CompletedHold(h)
        /\ \A g \in DOMAIN hold : g # h => hold'[g] = hold[g]
    BY <1>2, BookStep
  <2>3. \A b \in DOMAIN booking : b \in DOMAIN booking' /\ booking'[b] = booking[b]
    <3>1. DOMAIN booking = 1..Len(booking) /\ Len(booking) \in Nat
      BY TableShape DEF TypeOK
    <3>2. DOMAIN booking' = 1..(Len(booking) + 1)
      BY <1>2, BookStep
    <3>3. \A b \in DOMAIN booking : booking'[b] = booking[b]
      BY <1>2, BookStep
    <3>4. QED BY <3>1, <3>2, <3>3
  <2>4. QED BY <1>2, <2>1, <2>2, <2>3
<1>3. ASSUME ClearExpiredHolds \/ ClearExpiredProcessingHolds
      PROVE  /\ booking' = booking
             /\ \A h \in DOMAIN hold :
                   /\ h \in DOMAIN hold'
                   /\ \/ hold'[h] = hold[h]
                      \/ /\ hold[h].status \in ActiveStatuses
                         /\ hold'[h] = [hold[h] EXCEPT !.status = "Expired"]
  BY <1>3, CronHoldsStep DEF ClearExpiredHolds, ClearExpiredProcessingHolds
<1>4. CASE hold' = hold /\ booking' = booking
  BY <1>4
<1>5. ASSUME Manage \/ HandleCompletedEvents \/ Tick \/ UNCHANGED vars
      PROVE  hold' = hold /\ booking' = booking
  BY <1>5, EventStep DEF vars
<1>6. CASE \E u \in Users, e \in DOMAIN event, q \in Quantities : HoldSeats(u, e, q)
  BY <1>1, <1>6
<1>7. CASE \E u \in Users, h \in DOMAIN hold : Book(u, h)
  BY <1>2, <1>7
<1>8. CASE ClearExpiredHolds \/ ClearExpiredProcessingHolds
  BY <1>3, <1>8
<1>9. QED BY <1>4, <1>5, <1>6, <1>7, <1>8 DEF Next, Cron

\* Rows that are Completed or Expired, and bookings, never change again: the
\* sweeps, a second call of book and the managers leave them alone.
THEOREM SettledIsFinalHolds == Spec => SettledIsFinal
<1>1. TypeOK /\ HoldsLive /\ [Next]_vars
         => [ /\ \A h \in DOMAIN hold :
                    hold[h].status \in {"Completed", "Expired"} => hold'[h] = hold[h]
              /\ \A b \in DOMAIN booking : booking'[b] = booking[b] ]_vars
  BY RowsEvolve DEF ActiveStatuses
<1>2. QED BY <1>1, HoldsLiveHolds, PTL DEF Spec, SettledIsFinal

IsCompleted(h) == h \in DOMAIN hold /\ hold[h].status = "Completed"

LEMMA SellKeepsLinks ==
    ASSUME TypeOK, OneBookingPerHold, NEW h \in DOMAIN hold, hold[h].status # "Completed",
           NEW at \in 0..Horizon, at <= now, hold[h].createdAt <= at,
           NEW until \in Nat, Sells(h, at, until)
    PROVE  OneBookingPerHold'
<1> DEFINE n == Len(booking) + 1
<1>1. /\ Len(booking) \in Nat /\ DOMAIN booking = 1..Len(booking)
      /\ hold[h] \in SeatHold
  BY TableShape DEF TypeOK
<1>2. /\ DOMAIN booking' = 1..n
      /\ DOMAIN hold' = DOMAIN hold
  BY SellStep
<1>3. \A b \in DOMAIN booking : booking'[b] = booking[b] /\ b \in DOMAIN booking' /\ b # n
  <2>1. \A b \in DOMAIN booking : booking'[b] = booking[b]
    BY SellStep
  <2>2. QED BY <1>1, <1>2, <2>1
<1>4. \A g \in DOMAIN hold : g # h => hold'[g] = hold[g]
  BY SellStep
<1>5. /\ hold'[h].status = "Completed"
      /\ hold'[h].bookingId = n
      /\ hold'[h].userId = hold[h].userId
      /\ hold'[h].eventId = hold[h].eventId
      /\ hold'[h].quantity = hold[h].quantity
      /\ hold'[h].createdAt = hold[h].createdAt
  BY SoldRow
<1>6. Settles(booking'[n], hold'[h])
  <2>1. booking'[n] = BookingAt(h, at)
    BY SellStep
  <2>2. QED BY <1>5, <2>1 DEF Settles, BookingAt, NewBooking
<1> HIDE DEF n
<1>7. n \in DOMAIN booking'
  BY <1>1, <1>2 DEF n
<1>8. ASSUME NEW g \in DOMAIN hold', hold'[g].status = "Completed"
      PROVE  hold'[g].bookingId \in DOMAIN booking' /\ Settles(booking'[hold'[g].bookingId], hold'[g])
  <2>1. CASE g = h
    BY <1>5, <1>6, <1>7, <2>1
  <2>2. CASE g # h
    <3>1. hold'[g] = hold[g] /\ hold[g].bookingId \in DOMAIN booking
          /\ Settles(booking[hold[g].bookingId], hold[g])
      BY <1>2, <1>4, <1>8, <2>2 DEF OneBookingPerHold
    <3>2. booking'[hold[g].bookingId] = booking[hold[g].bookingId]
      BY <1>3, <3>1
    <3>3. QED BY <1>3, <3>1, <3>2
  <2>3. QED BY <2>1, <2>2
<1>9. ASSUME NEW b \in DOMAIN booking'
       PROVE  \E g \in DOMAIN hold' : hold'[g].status = "Completed" /\ hold'[g].bookingId = b
  <2>1. CASE b = n
    BY <1>2, <1>5, <2>1
  <2>2. CASE b # n
    <3>1. b \in DOMAIN booking
      BY <1>1, <1>2, <2>2 DEF n
    <3>2. PICK g \in DOMAIN hold : hold[g].status = "Completed" /\ hold[g].bookingId = b
      BY <3>1 DEF OneBookingPerHold
    <3>3. QED BY <1>2, <1>4, <3>2
  <2>3. QED BY <2>1, <2>2
<1>10. ASSUME NEW f \in DOMAIN hold', NEW g \in DOMAIN hold',
              hold'[f].status = "Completed", hold'[g].status = "Completed",
              hold'[f].bookingId = hold'[g].bookingId
       PROVE  f = g
  <2>1. \A x \in DOMAIN hold :
           x # h /\ hold'[x].status = "Completed" => hold'[x].bookingId # n
    BY <1>3, <1>4 DEF OneBookingPerHold
  <2>2. CASE f # h /\ g # h
    BY <1>2, <1>4, <1>10, <2>2 DEF OneBookingPerHold
  <2>3. CASE f = h \/ g = h
    BY <1>2, <1>5, <1>10, <2>1, <2>3
  <2>4. QED BY <2>2, <2>3
<1>11. QED BY <1>8, <1>9, <1>10 DEF OneBookingPerHold

LEMMA BookKeepsLinks ==
    ASSUME TypeOK, OneBookingPerHold, NEW u \in Users, NEW h \in DOMAIN hold, Book(u, h)
    PROVE  OneBookingPerHold'
<1>1. PICK at, until : at = now /\ until = now + BOOKING_PAYMENT_TIME
  OBVIOUS
<1>2. at \in 0..Horizon /\ at <= now /\ until \in Nat /\ Sells(h, at, until)
  BY <1>1, BookSells
<1>3. hold[h].status # "Completed" /\ hold[h].createdAt <= at
  BY <1>1 DEF Book, IsBookable, TypeOK
<1>4. QED BY <1>2, <1>3, SellKeepsLinks

\* A commit without a booking that completes no hold.
LEMMA LinksKept ==
    ASSUME OneBookingPerHold, booking' = booking,
           \A h \in DOMAIN hold :
              /\ h \in DOMAIN hold'
              /\ hold[h].status = "Completed" => hold'[h] = hold[h]
              /\ hold'[h].status = "Completed" => hold'[h] = hold[h],
           \A h \in DOMAIN hold' \ DOMAIN hold : hold'[h].status = "Hold"
    PROVE  OneBookingPerHold'
<1>1. \A h : IsCompleted(h)' <=> IsCompleted(h)
  BY DEF IsCompleted
<1>2. \A h : IsCompleted(h) => h \in DOMAIN hold /\ hold'[h] = hold[h]
  BY DEF IsCompleted
<1>3. ASSUME NEW h, IsCompleted(h)
      PROVE  hold'[h].bookingId \in DOMAIN booking' /\ Settles(booking'[hold'[h].bookingId], hold'[h])
  <2>1. hold[h].bookingId \in DOMAIN booking /\ Settles(booking[hold[h].bookingId], hold[h])
    BY <1>3 DEF OneBookingPerHold, IsCompleted
  <2>2. hold'[h] = hold[h]
    BY <1>2, <1>3
  <2>3. QED BY <2>1, <2>2
<1>4. QED BY <1>1, <1>2, <1>3 DEF OneBookingPerHold, IsCompleted

\* A step that books nothing completes no hold.
LEMMA OthersKeepLinks ==
    ASSUME TypeOK, HoldsLive, OneBookingPerHold, [Next]_vars,
           ~ \E u \in Users, h \in DOMAIN hold : Book(u, h)
    PROVE  OneBookingPerHold'
<1>1. booking' = booking
  <2>1. CASE Manage \/ HandleCompletedEvents \/ Tick
    BY <2>1, EventStep
  <2>2. QED
    BY <2>1 DEF Next, Cron, HoldSeats, ClearExpiredHolds, ClearExpiredProcessingHolds, vars
<1>2. \A h \in DOMAIN hold :
         /\ h \in DOMAIN hold'
         /\ hold[h].status = "Completed" => hold'[h] = hold[h]
         /\ hold'[h].status = "Completed" => hold'[h] = hold[h]
  <2> SUFFICES ASSUME NEW h \in DOMAIN hold
               PROVE  /\ h \in DOMAIN hold'
                      /\ hold[h].status = "Completed" => hold'[h] = hold[h]
                      /\ hold'[h].status = "Completed" => hold'[h] = hold[h]
    OBVIOUS
  <2>1. hold[h] \in SeatHold
    BY TableShape DEF TypeOK
  <2>2. [hold[h] EXCEPT !.status = "Expired"].status # "Completed"
    BY <2>1 DEF SeatHold
  <2>3. QED BY <2>2, RowsEvolve DEF ActiveStatuses
<1>3. ASSUME NEW h \in DOMAIN hold' \ DOMAIN hold
      PROVE  hold'[h].status = "Hold"
  <2>1. CASE \E u \in Users, e \in DOMAIN event, q \in Quantities : HoldSeats(u, e, q)
    <3>1. PICK u \in Users, e \in DOMAIN event, q \in Quantities : HoldSeats(u, e, q)
      BY <2>1
    <3>2. DOMAIN hold' = 1..(Len(hold) + 1) /\ hold'[Len(hold) + 1] = NewHold(u, e, q)
      BY <3>1, HoldSeatsStep
    <3>3. DOMAIN hold = 1..Len(hold) /\ Len(hold) \in Nat
      BY TableShape DEF TypeOK
    <3>4. h = Len(hold) + 1
      BY <1>3, <3>2, <3>3
    <3>5. QED BY <3>2, <3>4 DEF NewHold
  <2>2. CASE ClearExpiredHolds \/ ClearExpiredProcessingHolds
    BY <1>3, <2>2, CronHoldsStep
  <2>3. CASE Manage \/ HandleCompletedEvents \/ Tick
    BY <1>3, <2>3, EventStep
  <2>4. CASE UNCHANGED vars
    BY <1>3, <2>4 DEF vars
  <2>5. QED BY <2>1, <2>2, <2>3, <2>4 DEF Next, Cron
<1>4. QED BY <1>1, <1>2, <1>3, LinksKept

LEMMA LinksNext ==
    TypeOK /\ HoldsLive /\ OneBookingPerHold /\ [Next]_vars => OneBookingPerHold'
BY BookKeepsLinks, OthersKeepLinks

\* Completed holds and bookings match one to one, and agree on the user, the
\* event and the quantity: book called twice, late, or beside a sweep makes none.
THEOREM OneBookingPerHoldHolds == Spec => []OneBookingPerHold
<1>1. Init => OneBookingPerHold
  <2> SUFFICES ASSUME Init PROVE OneBookingPerHold
    OBVIOUS
  <2>1. DOMAIN hold = {} /\ DOMAIN booking = {}
    BY EmptySeq DEF Init
  <2>2. QED BY <2>1 DEF OneBookingPerHold
<1>2. QED BY <1>1, LinksNext, HoldsLiveHolds, PTL DEF Spec

-----------------------------------------------------------------------------
(* What negative quantities can take off a sum.                            *)

\* The rows of a column, each with a booking of its own by the user for the
\* event, of the quantity the column has.
AreBookedBy(c, f, u, e) ==
    /\ f \in [DOMAIN c -> DOMAIN booking]
    /\ \A r, s \in DOMAIN c : f[r] = f[s] => r = s
    /\ \A s \in DOMAIN c : /\ booking[f[s]].userId = u
                           /\ booking[f[s]].eventId = e
                           /\ booking[f[s]].quantity = c[s]

\* Quantities that were booked sum up to no less than what was given back.
LEMMA NoLessThanGivenBack ==
    ASSUME TypeOK, NEW u, NEW e, NEW S, IsFiniteSet(S), NEW c \in [S -> Int],
           NEW f, AreBookedBy(c, f, u, e)
    PROVE  Total(c) \in Int /\ GivenBack(u, e) \in Nat /\ Total(c) + GivenBack(u, e) >= 0
<1> DEFINE T == DOMAIN booking
           back == {b \in T : /\ booking[b].userId = u
                              /\ booking[b].eventId = e
                              /\ booking[b].quantity < 0}
           loss == [b \in back |-> -booking[b].quantity]
           d == [b \in T |-> IF b \in back THEN -booking[b].quantity ELSE 0]
<1>1. /\ IsFiniteSet(T)
      /\ \A b \in T : booking[b].quantity \in Int
  <2>1. T = 1..Len(booking) /\ Len(booking) \in Nat /\ \A b \in T : booking[b] \in Booking
    BY TableShape DEF TypeOK
  <2>2. IsFiniteSet(1..Len(booking))
    BY <2>1, FS_Interval
  <2>3. QED BY <2>1, <2>2 DEF Booking
<1>2. GivenBack(u, e) = Total(loss)
  BY DEF GivenBack
<1>3. /\ back \in SUBSET T
      /\ \A b \in T : b \in back <=> /\ booking[b].userId = u
                                     /\ booking[b].eventId = e
                                     /\ booking[b].quantity < 0
  OBVIOUS
<1> HIDE DEF back, T
<1>4. /\ loss \in [back -> Int] /\ d \in [T -> Int] /\ d \in [T -> Nat]
      /\ \A b \in back : d[b] = loss[b]
      /\ \A b \in T \ back : d[b] = 0
  BY <1>1, <1>3
<1>5. /\ f \in [S -> T]
      /\ \A r, s \in S : f[r] = f[s] => r = s
  BY DEF AreBookedBy, T
<1>6. \A s \in S : c[s] + d[f[s]] >= 0
  <2> SUFFICES ASSUME NEW s \in S PROVE c[s] + d[f[s]] >= 0
    OBVIOUS
  <2>1. PICK b : b = f[s]
    OBVIOUS
  <2>2. b \in T /\ booking[b].userId = u /\ booking[b].eventId = e /\ booking[b].quantity = c[s]
    BY <1>5, <2>1 DEF AreBookedBy
  <2>3. CASE c[s] < 0
    <3>1. d[b] = -c[s]
      BY <1>3, <2>2, <2>3
    <3> HIDE DEF d
    <3>2. QED BY <2>1, <2>3, <3>1
  <2>4. CASE c[s] >= 0
    <3>1. d[b] \in Nat
      BY <1>4, <2>2
    <3> HIDE DEF d
    <3>2. QED BY <2>1, <2>4, <3>1
  <2>5. QED BY <2>3, <2>4
<1> HIDE DEF loss, d
<1>7. Total(d) = Total(loss)
  BY <1>1, <1>3, <1>4, TotalOfExtension
<1>8. Total(c) \in Int /\ Total(d) \in Nat /\ Total(c) + Total(d) >= 0
  BY <1>1, <1>4, <1>5, <1>6, TotalFloor
<1>9. QED BY <1>2, <1>7, <1>8

\* The bookings of a day themselves.
LEMMA BookedFloor ==
    ASSUME TypeOK, NEW u, NEW e, NEW day
    PROVE  /\ BookedOn(u, e, day) \in Int /\ GivenBack(u, e) \in Nat
           /\ BookedOn(u, e, day) + GivenBack(u, e) >= 0
<1> DEFINE ids == BookingsOn(u, e, day)
           c == [b \in ids |-> booking[b].quantity]
           f == [b \in ids |-> b]
<1>1. IsFiniteSet(ids) /\ ids \subseteq DOMAIN booking
  <2>1. DOMAIN booking = 1..Len(booking) /\ Len(booking) \in Nat
    BY TableShape DEF TypeOK
  <2>2. ids \in SUBSET (1..Len(booking)) /\ IsFiniteSet(1..Len(booking))
    BY <2>1, FS_Interval DEF BookingsOn
  <2>3. QED BY <2>1, <2>2, FS_Subset
<1>2. AreBookedBy(c, f, u, e)
  BY <1>1 DEF AreBookedBy, BookingsOn
<1>3. c \in [ids -> Int]
  <2>1. \A b \in DOMAIN booking : booking[b] \in Booking
    BY TableShape DEF TypeOK
  <2>2. \A b \in DOMAIN booking : booking[b].quantity \in Int
    BY <2>1 DEF Booking
  <2> HIDE DEF ids
  <2>3. QED BY <1>1, <2>2
<1>4. BookedOn(u, e, day) = Total(c)
  BY DEF BookedOn
<1> HIDE DEF ids, c, f
<1>5. QED BY <1>1, <1>2, <1>3, <1>4, NoLessThanGivenBack

\* A booking widens the allowance of its user or leaves it.
LEMMA SaleWidens ==
    ASSUME TypeOK, NEW h \in DOMAIN hold, NEW at \in 0..Horizon, at <= now,
           NEW until \in Nat, Sells(h, at, until)
    PROVE  \A v, f : /\ Allowance(v, f) \in Int /\ Allowance(v, f)' \in Int
                     /\ Allowance(v, f) <= Allowance(v, f)'
<1> SUFFICES ASSUME NEW v, NEW f
             PROVE  /\ Allowance(v, f) \in Int /\ Allowance(v, f)' \in Int
                    /\ Allowance(v, f) <= Allowance(v, f)'
  OBVIOUS
<1>1. GivenBack(v, f) \in Nat
  BY BookedFloor
<1>2. PICK q : q = hold[h].quantity
  OBVIOUS
<1>3. q \in Int
  <2>1. hold[h] \in SeatHold
    BY TableShape DEF TypeOK
  <2>2. QED BY <1>2, <2>1 DEF SeatHold
<1>4. \/ GivenBack(v, f)' = GivenBack(v, f)
      \/ q < 0 /\ GivenBack(v, f)' = GivenBack(v, f) + (-q)
  <2>1. GivenBack(v, f)' = IF v = hold[h].userId /\ f = hold[h].eventId /\ hold[h].quantity < 0
                           THEN GivenBack(v, f) + (-hold[h].quantity) ELSE GivenBack(v, f)
    BY SellSums
  <2>2. QED BY <1>2, <2>1
<1>5. GivenBack(v, f)' \in Nat /\ GivenBack(v, f) <= GivenBack(v, f)'
  BY <1>1, <1>3, <1>4
<1>6. QED BY <1>1, <1>5, ParametersAssumption DEF Allowance

LEMMA AllowanceGrows ==
    ASSUME TypeOK, NEW u \in Users, NEW h \in DOMAIN hold, Book(u, h)
    PROVE  \A v, f : /\ Allowance(v, f) \in Int /\ Allowance(v, f)' \in Int
                     /\ Allowance(v, f) <= Allowance(v, f)'
<1>1. PICK at \in 0..Horizon, until \in Nat : at <= now /\ Sells(h, at, until)
  BY BookSells
<1>2. QED BY <1>1, SaleWidens

-----------------------------------------------------------------------------
(* The daily limit.                                                        *)

\* The limit is checked when seats are held and consumed when they are
\* booked.  DailyLimit alone is not inductive: AllowanceKept carries the
\* check to the booking, OneActiveHold makes the hold the only one that can
\* use it, HoldsLive says that a bookable hold is an active one and that a
\* hold the check counts is active or booked, and OneBookingPerHold that what
\* is booked is in GivenBack.
LimitInv ==
    TypeOK /\ OneActiveHold /\ HoldsLive /\ OneBookingPerHold /\ AllowanceKept /\ DailyLimit

\* A hold that still runs when the user has no active one was booked, so that
\* those a check counts take no more off its sum than was given back.
LEMMA HeldFloor ==
    ASSUME TypeOK, OneBookingPerHold, NEW u, NEW e, NEW table \in Seq(SeatHold),
           \A h \in DOMAIN table :
              table[h].userId = u /\ table[h].eventId = e /\ table[h].expiresAt > now =>
                 h \in DOMAIN hold /\ hold[h] = table[h] /\ hold[h].status = "Completed"
    PROVE  TodayHold(table, u, e) \in Int /\ TodayHold(table, u, e) + GivenBack(u, e) >= 0
<1> DEFINE ids == {h \in DOMAIN table :
                      /\ table[h].userId = u
                      /\ table[h].eventId = e
                      /\ table[h].expiresAt > now
                      /\ IsToday(table[h])}
           c == [h \in ids |-> table[h].quantity]
           f == [h \in ids |-> hold[h].bookingId]
<1>1. IsFiniteSet(ids) /\ ids \subseteq DOMAIN table
  <2>1. DOMAIN table = 1..Len(table) /\ Len(table) \in Nat
    BY TableShape
  <2>2. ids \in SUBSET (1..Len(table)) /\ IsFiniteSet(1..Len(table))
    BY <2>1, FS_Interval
  <2>3. QED BY <2>1, <2>2, FS_Subset
<1>2. \A h \in ids : /\ h \in DOMAIN hold /\ hold[h].status = "Completed"
                     /\ hold[h].userId = u /\ hold[h].eventId = e
                     /\ hold[h].quantity = table[h].quantity
  OBVIOUS
<1>3. c \in [ids -> Int]
  <2>1. \A h \in DOMAIN table : table[h] \in SeatHold
    BY TableShape
  <2>2. \A h \in DOMAIN table : table[h].quantity \in Int
    BY <2>1 DEF SeatHold
  <2> HIDE DEF ids
  <2>3. QED BY <1>1, <2>2
<1>4. TodayHold(table, u, e) = Total(c)
  BY DEF TodayHold
<1>5. AreBookedBy(c, f, u, e)
  <2> HIDE DEF ids
  <2>1. \A h \in ids : /\ hold[h].bookingId \in DOMAIN booking
                       /\ Settles(booking[hold[h].bookingId], hold[h])
    BY <1>2 DEF OneBookingPerHold
  <2>2. f \in [ids -> DOMAIN booking]
    BY <2>1
  <2>3. \A g, h \in ids : f[g] = f[h] => g = h
    BY <1>2 DEF OneBookingPerHold
  <2>4. \A h \in ids : /\ booking[f[h]].userId = u
                       /\ booking[f[h]].eventId = e
                       /\ booking[f[h]].quantity = c[h]
    BY <1>2, <2>1 DEF Settles
  <2>5. DOMAIN c = ids
    OBVIOUS
  <2> HIDE DEF c, f
  <2>6. QED BY <2>2, <2>3, <2>4, <2>5 DEF AreBookedBy
<1> HIDE DEF ids, c, f
<1>6. QED BY <1>1, <1>3, <1>4, <1>5, NoLessThanGivenBack

\* Why holdSeats may grant a hold: the tickets fit into the allowance, today's
\* bookings or not.
LEMMA CheckFitsAllowance ==
    ASSUME NEW booked \in Int, NEW held \in Int, NEW back \in Nat, NEW q \in Int,
           booked + back >= 0, held + back >= 0,
           booked + held + q <= MAX_EVENT_TICKETS_PER_DAY
    PROVE  /\ q <= MAX_EVENT_TICKETS_PER_DAY + 2 * back
           /\ booked + q <= MAX_EVENT_TICKETS_PER_DAY + 2 * back
BY ParametersAssumption

\* Today's sum is the day's sum of today.
LEMMA TodayIsADay ==
    ASSUME NEW day
    PROVE  /\ DayOf[now] = day => \A u, e : TodayBooked(u, e) = BookedOn(u, e, day)
           /\ DayOf[now'] = day => \A u, e : TodayBooked(u, e)' = BookedOn(u, e, day)'
BY DEF TodayBooked, BookedOn, BookingsToday, BookingsOn, IsToday

\* Without a new booking the sums of a day stay what they are.
LEMMA SumsStay ==
    ASSUME booking' = booking
    PROVE  /\ \A v, f, day : BookedOn(v, f, day)' = BookedOn(v, f, day)
           /\ now' = now => \A v, f : TodayBooked(v, f)' = TodayBooked(v, f)
           /\ \A v, f : /\ GivenBack(v, f)' = GivenBack(v, f)
                        /\ Allowance(v, f)' = Allowance(v, f)
<1>1. \A v, f, day : BookedOn(v, f, day)' = BookedOn(v, f, day)
  BY DEF BookedOn, BookingsOn
<1>2. now' = now => \A v, f : TodayBooked(v, f)' = TodayBooked(v, f)
  BY DEF TodayBooked, BookingsToday, IsToday
<1>3. \A v, f : GivenBack(v, f)' = GivenBack(v, f)
  BY DEF GivenBack
<1>4. \A v, f : Allowance(v, f)' = Allowance(v, f)
  BY <1>3 DEF Allowance
<1>5. QED BY <1>1, <1>2, <1>3, <1>4

\* After the sweep, a hold of a user without an active one is running only
\* when it is Completed.
LEMMA RunningWasBooked ==
    ASSUME TypeOK, HoldsLive, NEW u, NEW e, ~HasExistingHold(ExpireHolds, u, e)
    PROVE  \A g \in DOMAIN ExpireHolds :
              ExpireHolds[g].userId = u /\ ExpireHolds[g].eventId = e /\ ExpireHolds[g].expiresAt > now
              => g \in DOMAIN hold /\ hold[g] = ExpireHolds[g] /\ hold[g].status = "Completed"
<1> SUFFICES ASSUME NEW g \in DOMAIN ExpireHolds,
                    ExpireHolds[g].userId = u, ExpireHolds[g].eventId = e,
                    ExpireHolds[g].expiresAt > now
             PROVE  g \in DOMAIN hold /\ hold[g] = ExpireHolds[g] /\ hold[g].status = "Completed"
  OBVIOUS
<1>1. /\ g \in DOMAIN hold /\ hold[g] \in SeatHold /\ now \in Int
      /\ ExpireHolds[g].expiresAt = hold[g].expiresAt
  BY SweepShape, TableShape DEF TypeOK
<1>2. hold[g].expiresAt > now /\ ~(hold[g].expiresAt < now)
  BY <1>1 DEF SeatHold
<1>3. ExpireHolds[g] = hold[g]
  BY <1>1, <1>2 DEF ExpireHolds, IsExpired
<1>4. hold[g].status \notin ActiveStatuses
  BY <1>3 DEF HasExistingHold
<1>5. QED BY <1>1, <1>2, <1>3, <1>4 DEF HoldsLive, ActiveStatuses

LEMMA HoldSeatsKeepsLimit ==
    ASSUME LimitInv, NEW u \in Users, NEW e \in DOMAIN event, NEW q \in Quantities,
           HoldSeats(u, e, q)
    PROVE  AllowanceKept' /\ DailyLimit'
<1> USE DEF LimitInv
<1>1. now' = now /\ event' = event /\ booking' = booking
  BY DEF HoldSeats
<1>2. DailyLimit'
  BY <1>1, SumsStay DEF DailyLimit
<1>3. ASSUME NEW h \in DOMAIN hold', hold'[h].status \in ActiveStatuses
      PROVE  /\ hold'[h].quantity <= Allowance(hold'[h].userId, hold'[h].eventId)
             /\ TodayBooked(hold'[h].userId, hold'[h].eventId) + hold'[h].quantity
                   <= Allowance(hold'[h].userId, hold'[h].eventId)
  <2>1. /\ Len(hold) \in Nat /\ DOMAIN hold = 1..Len(hold)
        /\ DOMAIN hold' = 1..(Len(hold) + 1)
    <3>1. DOMAIN hold' = 1..(Len(hold) + 1)
      BY HoldSeatsStep
    <3>2. QED BY <3>1, TableShape DEF TypeOK
  <2>2. CASE h \in DOMAIN hold
    <3>1. /\ hold[h].status \in ActiveStatuses
          /\ hold'[h].userId = hold[h].userId
          /\ hold'[h].eventId = hold[h].eventId
          /\ hold'[h].quantity = hold[h].quantity
      BY <1>3, <2>2, HoldSeatsStep, SweepShape DEF ActiveStatuses
    <3>2. QED BY <2>2, <3>1 DEF AllowanceKept
  <2>3. CASE h = Len(hold) + 1
    <3>1. hold'[h].userId = u /\ hold'[h].eventId = e /\ hold'[h].quantity = q
      <4>1. hold'[h] = NewHold(u, e, q)
        BY <2>3, HoldSeatsStep
      <4>2. QED BY <4>1 DEF NewHold
    <3>2. \A g \in DOMAIN ExpireHolds :
             ExpireHolds[g].userId = u /\ ExpireHolds[g].eventId = e /\ ExpireHolds[g].expiresAt > now
             => g \in DOMAIN hold /\ hold[g] = ExpireHolds[g] /\ hold[g].status = "Completed"
      BY RunningWasBooked DEF HoldSeats
    <3>3. PICK booked, held, back :
             /\ booked = TodayBooked(u, e)
             /\ held = TodayHold(ExpireHolds, u, e)
             /\ back = GivenBack(u, e)
      OBVIOUS
    <3>4. booked \in Int /\ back \in Nat /\ booked + back >= 0
      <4>1. PICK day : day = DayOf[now]
        OBVIOUS
      <4>2. QED BY <3>3, <4>1, BookedFloor, TodayIsADay
    <3>5. held \in Int /\ held + back >= 0
      BY <3>2, <3>3, HeldFloor, SweepShape
    <3>6. booked + held + q <= MAX_EVENT_TICKETS_PER_DAY /\ q \in Int
      BY <3>3, InputsAssumption DEF HoldSeats
    <3>7. q <= Allowance(u, e) /\ TodayBooked(u, e) + q <= Allowance(u, e)
      BY <3>3, <3>4, <3>5, <3>6, CheckFitsAllowance DEF Allowance
    <3>8. QED BY <3>1, <3>7
  <2>4. QED BY <2>1, <2>2, <2>3
<1>4. AllowanceKept'
  BY <1>1, <1>3, SumsStay DEF AllowanceKept
<1>5. QED BY <1>2, <1>4

LEMMA BookKeepsLimit ==
    ASSUME LimitInv, NEW u \in Users, NEW h \in DOMAIN hold, Book(u, h)
    PROVE  AllowanceKept' /\ DailyLimit'
<1> USE DEF LimitInv
<1> DEFINE e == hold[h].eventId
<1>1. hold[h].userId = u /\ hold[h].status \in ActiveStatuses
  <2>1. hold[h] \in SeatHold
    BY TableShape DEF TypeOK
  <2>2. hold[h].userId = u /\ hold[h].status \notin {"Completed", "Expired"}
    BY DEF Book, IsBookable
  <2>3. QED BY <2>1, <2>2 DEF HoldsLive, SeatHold, SeatHoldStatus, ActiveStatuses
<1>2. now' = now /\ DOMAIN event' = DOMAIN event
  BY BookStep DEF Book
<1>3. BookedOn(u, e, DayOf[now]) + hold[h].quantity <= Allowance(u, e)
  <2>1. PICK day : day = DayOf[now]
    OBVIOUS
  <2>2. TodayBooked(u, e) + hold[h].quantity <= Allowance(u, e)
    BY <1>1 DEF AllowanceKept
  <2>3. TodayBooked(u, e) = BookedOn(u, e, day)
    BY <2>1, TodayIsADay
  <2>4. QED BY <2>1, <2>2, <2>3
<1>4. DailyLimit'
  <2> SUFFICES ASSUME NEW v \in Users, NEW f \in DOMAIN event, NEW day \in Days
               PROVE  BookedOn(v, f, day)' <= Allowance(v, f)'
    BY <1>2 DEF DailyLimit, Days
  <2>1. /\ Allowance(v, f) \in Int /\ Allowance(v, f)' \in Int
        /\ Allowance(v, f) <= Allowance(v, f)'
    BY AllowanceGrows
  <2>2. BookedOn(v, f, day) \in Int /\ BookedOn(u, e, DayOf[now]) \in Int /\ hold[h].quantity \in Int
    <3>1. hold[h] \in SeatHold
      BY TableShape DEF TypeOK
    <3>2. PICK d : d = DayOf[now]
      OBVIOUS
    <3>3. QED BY <3>1, <3>2, BookedFloor DEF SeatHold
  <2>3. CASE v = u /\ f = e /\ day = DayOf[now]
    <3>1. BookedOn(v, f, day)' = BookedOn(v, f, day) + hold[h].quantity
      BY <2>3, BookSums
    <3>2. QED BY <1>3, <2>1, <2>2, <2>3, <3>1
  <2>4. CASE ~(v = u /\ f = e /\ day = DayOf[now])
    <3>1. BookedOn(v, f, day)' = BookedOn(v, f, day)
      BY <2>4, BookSums
    <3>2. BookedOn(v, f, day) <= Allowance(v, f)
      BY DEF DailyLimit
    <3>3. QED BY <2>1, <2>2, <3>1, <3>2
  <2>5. QED BY <2>3, <2>4
<1>5. \A v, f : ~(v = u /\ f = e) => /\ TodayBooked(v, f)' = TodayBooked(v, f)
                                     /\ Allowance(v, f)' = Allowance(v, f)
  <2>1. PICK day : day = DayOf[now]
    OBVIOUS
  <2>2. \A v, f : ~(v = u /\ f = e) => BookedOn(v, f, day)' = BookedOn(v, f, day)
    BY BookSums
  <2>3. \A v, f : ~(v = u /\ f = e) => GivenBack(v, f)' = GivenBack(v, f)
    BY BookSums
  <2>4. \A v, f : ~(v = u /\ f = e) => Allowance(v, f)' = Allowance(v, f)
    BY <2>3 DEF Allowance
  <2>5. QED BY <1>2, <2>1, <2>2, <2>4, TodayIsADay
<1>6. /\ DOMAIN hold' = DOMAIN hold
      /\ hold'[h].status = "Completed"
      /\ \A g \in DOMAIN hold : g # h => hold'[g] = hold[g]
  <2>1. hold[h] \in SeatHold
    BY TableShape DEF TypeOK
  <2>2. hold'[h] = CompletedHold(h)
    BY BookStep
  <2>3. hold'[h].status = "Completed"
    BY <2>1, <2>2 DEF CompletedHold, SeatHold
  <2>4. QED BY <2>3, BookStep
<1>7. ASSUME NEW g \in DOMAIN hold', hold'[g].status \in ActiveStatuses
      PROVE  /\ g \in DOMAIN hold /\ hold'[g] = hold[g]
             /\ ~(hold[g].userId = u /\ hold[g].eventId = e)
  <2>1. g # h
    BY <1>6, <1>7 DEF ActiveStatuses
  <2>2. g \in DOMAIN hold /\ hold'[g] = hold[g]
    BY <1>6, <2>1
  <2>3. QED BY <1>1, <1>7, <2>1, <2>2 DEF OneActiveHold
<1>8. AllowanceKept'
  BY <1>5, <1>7 DEF AllowanceKept
<1>9. QED BY <1>4, <1>8

\* No rows, no tickets.
LEMMA NothingBookedYet ==
    ASSUME NEW v, NEW f, NEW day, BookingsOn(v, f, day) = {}
    PROVE  BookedOn(v, f, day) = 0
<1> DEFINE c == [b \in BookingsOn(v, f, day) |-> booking[b].quantity]
<1>1. DOMAIN c = {}
  OBVIOUS
<1> HIDE DEF c
<1>2. Total(c) = 0
  BY <1>1, TotalEmpty
<1>3. QED BY <1>2 DEF BookedOn, c

\* Midnight: what is left of the allowance is all of it, and no hold is larger.
LEMMA TickKeepsLimit ==
    ASSUME LimitInv, Tick
    PROVE  AllowanceKept' /\ DailyLimit'
<1> USE DEF LimitInv
<1>1. /\ UNCHANGED <<event, hold, booking>>
      /\ now \in 0..Horizon /\ now' \in 0..Horizon /\ now <= now'
  BY ParametersAssumption DEF Tick, TypeOK
<1>2. DailyLimit'
  BY <1>1, SumsStay DEF DailyLimit
<1>3. PICK day : day = DayOf[now']
  OBVIOUS
<1>4. ASSUME NEW h \in DOMAIN hold, hold[h].status \in ActiveStatuses
      PROVE  BookedOn(hold[h].userId, hold[h].eventId, day) + hold[h].quantity
                <= Allowance(hold[h].userId, hold[h].eventId)
  <2> DEFINE v == hold[h].userId
             f == hold[h].eventId
  <2>1. CASE DayOf[now] = day
    <3>1. TodayBooked(v, f) = BookedOn(v, f, day)
      BY <2>1, TodayIsADay
    <3>2. QED BY <1>4, <3>1 DEF AllowanceKept
  <2>2. CASE DayOf[now] # day
    <3>1. \A t \in 0..Horizon : t <= now => DayOf[t] # day
      BY <1>1, <1>3, <2>2, CalendarAssumption
    <3>2. \A b \in DOMAIN booking : DayOf[booking[b].createdAt] # day
      <4>1. \A b \in DOMAIN booking :
               booking[b].createdAt \in 0..Horizon /\ booking[b].createdAt <= now
        <5>1. \A b \in DOMAIN booking : booking[b] \in Booking
          BY TableShape DEF TypeOK
        <5>2. QED BY <5>1 DEF TypeOK, Booking
      <4>2. QED BY <3>1, <4>1
    <3>3. BookingsOn(v, f, day) = {}
      BY <3>2 DEF BookingsOn
    <3>4. BookedOn(v, f, day) = 0
      BY <3>3, NothingBookedYet
    <3>5. hold[h].quantity \in Int
      <4>1. hold[h] \in SeatHold
        BY TableShape DEF TypeOK
      <4>2. QED BY <4>1 DEF SeatHold
    <3>6. hold[h].quantity <= Allowance(v, f)
      BY <1>4 DEF AllowanceKept
    <3>7. QED BY <3>4, <3>5, <3>6
  <2>3. QED BY <2>1, <2>2
<1>5. \A v, f : TodayBooked(v, f)' = BookedOn(v, f, day)
  <2>1. \A v, f : TodayBooked(v, f)' = BookedOn(v, f, day)'
    BY <1>3, TodayIsADay
  <2>2. QED BY <1>1, <2>1, SumsStay
<1>6. AllowanceKept'
  <2>1. \A h \in DOMAIN hold : hold[h].status \in ActiveStatuses =>
            hold[h].quantity <= Allowance(hold[h].userId, hold[h].eventId)
    BY DEF AllowanceKept
  <2>2. QED BY <1>1, <1>4, <1>5, <2>1, SumsStay DEF AllowanceKept
<1>7. QED BY <1>2, <1>6

\* A new event has no bookings, and nothing else a manager does touches a row
\* the limit reads.
LEMMA ManageKeepsLimit ==
    ASSUME LimitInv, Manage \/ HandleCompletedEvents
    PROVE  AllowanceKept' /\ DailyLimit'
<1> USE DEF LimitInv
<1>1. now' = now /\ hold' = hold /\ booking' = booking
  BY DEF Manage, ManageBy, CreateEvent, UpdateEvent, UpdateEventStatus, HandleCompletedEvents
<1>2. AllowanceKept'
  BY <1>1, SumsStay DEF AllowanceKept
<1>3. ASSUME NEW v \in Users, NEW f \in DOMAIN event', NEW day \in Days
      PROVE  BookedOn(v, f, day) <= Allowance(v, f)
  <2>1. CASE f \in DOMAIN event
    BY <2>1 DEF DailyLimit
  <2>2. CASE f \notin DOMAIN event
    <3>1. BookingsOn(v, f, day) = {}
      BY <2>2 DEF BookingsOn, TypeOK
    <3>2. BookedOn(v, f, day) = 0
      BY <3>1, NothingBookedYet
    <3>3. GivenBack(v, f) \in Nat
      BY BookedFloor
    <3>4. QED BY <3>2, <3>3, ParametersAssumption DEF Allowance
  <2>3. QED BY <2>1, <2>2
<1>4. DailyLimit'
  BY <1>1, <1>3, SumsStay DEF DailyLimit, Days
<1>5. QED BY <1>2, <1>4

LEMMA LimitNext == LimitInv /\ [Next]_vars => LimitInv'
<1> SUFFICES ASSUME LimitInv, [Next]_vars PROVE LimitInv'
  OBVIOUS
<1>1. TypeOK' /\ OneActiveHold' /\ HoldsLive' /\ OneBookingPerHold'
  BY TypeNext, OneActiveHoldNext, HoldsLiveNext, LinksNext DEF LimitInv
<1>2. AllowanceKept' /\ DailyLimit'
  <2>1. CASE \E u \in Users, e \in DOMAIN event, q \in Quantities : HoldSeats(u, e, q)
    BY <2>1, HoldSeatsKeepsLimit
  <2>2. CASE \E u \in Users, h \in DOMAIN hold : Book(u, h)
    BY <2>2, BookKeepsLimit
  <2>3. CASE ClearExpiredHolds \/ ClearExpiredProcessingHolds
    <3>1. now' = now /\ event' = event /\ booking' = booking
      BY <2>3 DEF ClearExpiredHolds, ClearExpiredProcessingHolds
    <3>2. DailyLimit'
      BY <3>1, SumsStay DEF LimitInv, DailyLimit
    <3>3. ASSUME NEW h \in DOMAIN hold', hold'[h].status \in ActiveStatuses
          PROVE  h \in DOMAIN hold /\ hold'[h] = hold[h]
      <4>1. hold[h] \in SeatHold /\ h \in DOMAIN hold
        BY <2>3, <3>3, CronHoldsStep, TableShape DEF LimitInv, TypeOK
      <4>2. [hold[h] EXCEPT !.status = "Expired"].status \notin ActiveStatuses
        BY <4>1 DEF SeatHold, ActiveStatuses
      <4>3. QED BY <2>3, <3>3, <4>1, <4>2, CronHoldsStep DEF LimitInv
    <3>4. AllowanceKept'
      BY <3>1, <3>3, SumsStay DEF LimitInv, AllowanceKept
    <3>5. QED BY <3>2, <3>4
  <2>4. CASE Manage \/ HandleCompletedEvents
    BY <2>4, ManageKeepsLimit
  <2>5. CASE Tick
    BY <2>5, TickKeepsLimit
  <2>6. CASE UNCHANGED vars
    <3>1. now' = now /\ event' = event /\ booking' = booking /\ hold' = hold
      BY <2>6 DEF vars
    <3>2. QED BY <3>1, SumsStay DEF LimitInv, AllowanceKept, DailyLimit
  <2>7. QED BY <2>1, <2>2, <2>3, <2>4, <2>5, <2>6 DEF Next, Cron
<1>3. QED BY <1>1, <1>2 DEF LimitInv

LEMMA LimitInit == Init => LimitInv
<1> SUFFICES ASSUME Init PROVE LimitInv
  OBVIOUS
<1>1. DOMAIN event = {} /\ DOMAIN hold = {} /\ DOMAIN booking = {}
  BY EmptySeq DEF Init
<1>2. QED BY <1>1, TypeInit
          DEF LimitInv, OneActiveHold, HoldsLive, OneBookingPerHold, AllowanceKept, DailyLimit

\* At most MAX_EVENT_TICKETS_PER_DAY tickets of an event per user and day, and
\* twice what the user gave back, for every quantity a request may carry, every
\* limit, length of a hold and calendar, although book never looks at the limit.
THEOREM DailyLimitHolds == Spec => []DailyLimit
<1>1. LimitInv => DailyLimit
  BY DEF LimitInv
<1>2. QED BY <1>1, LimitInit, LimitNext, PTL DEF Spec

\* An active hold always fits into what is left of today's allowance, and into
\* a whole one.
THEOREM AllowanceKeptHolds == Spec => []AllowanceKept
<1>1. LimitInv => AllowanceKept
  BY DEF LimitInv
<1>2. QED BY <1>1, LimitInit, LimitNext, PTL DEF Spec

-----------------------------------------------------------------------------
(* The counter of booked seats.                                            *)

LEMMA SellKeepsSeats ==
    ASSUME TypeOK, SeatsMatchBookings, NEW h \in DOMAIN hold, NEW at \in 0..Horizon,
           at <= now, NEW until \in Nat, Sells(h, at, until)
    PROVE  SeatsMatchBookings'
<1> DEFINE Booked(f) == Total([b \in BookingsOf(f) |-> booking[b].quantity])
           e == hold[h].eventId
<1>1. /\ e \in DOMAIN event /\ event[e] \in Event
      /\ event' = [event EXCEPT ![e] = [event[e] EXCEPT !.bookedSeats = BookedSeatsAfter(h)]]
  BY SellStep, TableShape DEF TypeOK
<1>2. /\ event'[e].bookedSeats = event[e].bookedSeats + hold[h].quantity
      /\ \A f \in DOMAIN event : f # e => event'[f] = event[f]
      /\ DOMAIN event' = DOMAIN event
  BY <1>1 DEF BookedSeatsAfter, Event
<1>3. \A f : Booked(f)' = IF f = e THEN Booked(f) + hold[h].quantity ELSE Booked(f)
  BY SellSums
<1> HIDE DEF e, Booked
<1>4. \A f \in DOMAIN event : event[f].bookedSeats = Booked(f)
  BY DEF SeatsMatchBookings, Booked
<1>5. \A f \in DOMAIN event' : event'[f].bookedSeats = Booked(f)'
  BY <1>1, <1>2, <1>3, <1>4
<1>6. QED BY <1>5 DEF SeatsMatchBookings, Booked

LEMMA SeatsNext == TypeOK /\ SeatsMatchBookings /\ [Next]_vars => SeatsMatchBookings'
<1> SUFFICES ASSUME TypeOK, SeatsMatchBookings, [Next]_vars PROVE SeatsMatchBookings'
  OBVIOUS
<1> DEFINE Booked(f) == Total([b \in BookingsOf(f) |-> booking[b].quantity])
<1>1. ASSUME booking' = booking
      PROVE  \A f : Booked(f)' = Booked(f)
  BY <1>1 DEF BookingsOf
<1>2. ASSUME NEW u \in Users, NEW h \in DOMAIN hold, Book(u, h)
      PROVE  SeatsMatchBookings'
  <2>1. PICK at \in 0..Horizon, until \in Nat : at <= now /\ Sells(h, at, until)
    BY <1>2, BookSells
  <2>2. QED BY <2>1, SellKeepsSeats
<1>3. CASE Manage \/ HandleCompletedEvents \/ Tick
  <2>1. /\ booking' = booking
        /\ \A f \in DOMAIN event : event'[f].bookedSeats = event[f].bookedSeats
        /\ \A f \in DOMAIN event' \ DOMAIN event : event'[f].bookedSeats = 0
    BY <1>3, EventStep
  <2>2. ASSUME NEW f, f \notin DOMAIN event
        PROVE  Booked(f) = 0
    <3>1. BookingsOf(f) = {}
      BY <2>2 DEF BookingsOf, TypeOK
    <3> DEFINE c == [b \in BookingsOf(f) |-> booking[b].quantity]
    <3>2. DOMAIN c = {}
      BY <3>1
    <3> HIDE DEF c
    <3>3. Total(c) = 0
      BY <3>2, TotalEmpty
    <3>4. QED BY <3>3 DEF c
  <2>3. \A f \in DOMAIN event : event[f].bookedSeats = Booked(f)
    BY DEF SeatsMatchBookings
  <2>4. \A f \in DOMAIN event' : event'[f].bookedSeats = Booked(f)'
    <3>1. \A f : Booked(f)' = Booked(f)
      BY <1>1, <2>1
    <3> HIDE DEF Booked
    <3>2. QED BY <2>1, <2>2, <2>3, <3>1
  <2>5. QED BY <2>4 DEF SeatsMatchBookings
<1>4. CASE event' = event /\ booking' = booking
  BY <1>1, <1>4 DEF SeatsMatchBookings
<1>5. QED
  BY <1>2, <1>3, <1>4
  DEF Next, Cron, HoldSeats, ClearExpiredHolds, ClearExpiredProcessingHolds, vars

\* bookedSeats is the sum of the confirmed bookings, whatever managers edit
\* and whenever the sweeps run.
THEOREM SeatsMatchBookingsHolds == Spec => []SeatsMatchBookings
<1>1. Init => SeatsMatchBookings
  <2> SUFFICES ASSUME Init PROVE SeatsMatchBookings
    OBVIOUS
  <2>1. DOMAIN event = {}
    BY EmptySeq DEF Init
  <2>2. QED BY <2>1 DEF SeatsMatchBookings
<1>2. QED BY <1>1, TypeCorrect, SeatsNext, PTL DEF Spec

-----------------------------------------------------------------------------
(* Bookings implements TicketSale.                                         *)

\* The refinement mapping: what TicketSale sees of the tables.
Capacity == [e \in DOMAIN event |-> event[e].totalSeats]
Sold     == [e \in DOMAIN event |-> event[e].bookedSeats]
Today(u) == [e \in DOMAIN event |-> TodayBooked(u, e)]
Back(u)  == [e \in DOMAIN event |-> GivenBack(u, e)]

LEMMA NoEvents ==
    ASSUME NEW f, DOMAIN f = {}, f = [i \in DOMAIN f |-> f[i]]
    PROVE  f = <<>>
OBVIOUS

LEMMA SaleInitial == Init => Sale!SaleInit
<1> SUFFICES ASSUME Init PROVE Sale!SaleInit
  OBVIOUS
<1>1. DOMAIN event = {}
  BY EmptySeq DEF Init
<1>2. Capacity = <<>> /\ Sold = <<>> /\ \A u : Today(u) = <<>> /\ Back(u) = <<>>
  BY <1>1, NoEvents DEF Capacity, Sold, Today, Back
<1>3. QED BY <1>2 DEF Sale!SaleInit, Capacity, Sold, Today, Back

\* TicketSale's steps in terms of the mapping.
SaleStutter ==
    /\ Capacity' = Capacity
    /\ Sold' = Sold
    /\ \A u \in Users : Today(u)' = Today(u) /\ Back(u)' = Back(u)

LEMMA StutterIsStep == SaleStutter => [Sale!SaleNext]_Sale!svars
<1> SUFFICES ASSUME SaleStutter PROVE UNCHANGED Sale!svars
  OBVIOUS
<1>1. /\ [u \in Users |-> Today(u)]' = [u \in Users |-> Today(u)]
      /\ [u \in Users |-> Back(u)]' = [u \in Users |-> Back(u)]
  BY DEF SaleStutter
<1>2. QED BY <1>1 DEF SaleStutter, Sale!svars, Capacity, Sold, Today, Back

\* Steps that touch neither the columns TicketSale sees nor bookings or time.
LEMMA UnseenStep ==
    ASSUME booking' = booking, DOMAIN event' = DOMAIN event,
           \A e \in DOMAIN event : /\ event'[e].totalSeats = event[e].totalSeats
                                   /\ event'[e].bookedSeats = event[e].bookedSeats,
           DayOf[now'] = DayOf[now]
    PROVE  [Sale!SaleNext]_Sale!svars
<1>1. \A u, e : TodayBooked(u, e)' = TodayBooked(u, e)
  BY DEF TodayBooked, BookingsToday, IsToday
<1>2. \A u, e : GivenBack(u, e)' = GivenBack(u, e)
  BY SumsStay
<1>3. SaleStutter
  BY <1>1, <1>2 DEF SaleStutter, Capacity, Sold, Today, Back
<1>4. QED BY <1>3, StutterIsStep

\* book is a sale.
LEMMA BookIsSale ==
    ASSUME LimitInv, HeldAsAsked, NEW u \in Users, NEW h \in DOMAIN hold, Book(u, h)
    PROVE  Sale!SaleNext
<1> USE DEF LimitInv
<1>0. PICK e, q : e = hold[h].eventId /\ q = hold[h].quantity
  OBVIOUS
<1>1. /\ e \in DOMAIN event /\ event[e] \in Event /\ hold[h] \in SeatHold
      /\ event' = [event EXCEPT ![e] = [event[e] EXCEPT !.bookedSeats = BookedSeatsAfter(h)]]
  BY <1>0, BookStep, TableShape DEF TypeOK
<1>2. /\ DOMAIN event' = DOMAIN event
      /\ \A f \in DOMAIN event : event'[f].totalSeats = event[f].totalSeats
      /\ \A f \in DOMAIN event : f # e => event'[f].bookedSeats = event[f].bookedSeats
      /\ event'[e].bookedSeats = event[e].bookedSeats + q
  BY <1>0, <1>1 DEF BookedSeatsAfter, Event
<1>3. q \in Quantities /\ q \in Int
  BY <1>0, InputsAssumption DEF HeldAsAsked
<1>4. event[e].bookedSeats + q <= event[e].totalSeats
  BY <1>0 DEF Book, EnoughSeats
<1>5. hold[h].userId = u /\ hold[h].status \in ActiveStatuses
  <2>1. hold[h].userId = u /\ hold[h].status \notin {"Completed", "Expired"}
    BY DEF Book, IsBookable
  <2>2. QED BY <1>1, <2>1 DEF HoldsLive, SeatHold, SeatHoldStatus, ActiveStatuses
<1>6. TodayBooked(u, e) + q <= MAX_EVENT_TICKETS_PER_DAY + 2 * GivenBack(u, e)
  BY <1>0, <1>5 DEF AllowanceKept, Allowance
<1>7. \A v, f : TodayBooked(v, f)' = IF v = u /\ f = e THEN TodayBooked(v, f) + q
                                                     ELSE TodayBooked(v, f)
  <2>1. PICK day : day = DayOf[now]
    OBVIOUS
  <2>2. now' = now
    BY DEF Book
  <2>3. \A v, f : BookedOn(v, f, day)' = IF v = u /\ f = e THEN BookedOn(v, f, day) + q
                                                         ELSE BookedOn(v, f, day)
    BY <1>0, <2>1, BookSums
  <2>4. /\ \A v, f : TodayBooked(v, f) = BookedOn(v, f, day)
        /\ \A v, f : TodayBooked(v, f)' = BookedOn(v, f, day)'
    BY <2>1, <2>2, TodayIsADay
  <2>5. QED BY <2>3, <2>4
<1>8. Capacity' = Capacity
  BY <1>2 DEF Capacity
<1>9. Sold' = [Sold EXCEPT ![e] = @ + q]
  BY <1>1, <1>2 DEF Sold
<1>10. [v \in Users |-> Today(v)]' = [[v \in Users |-> Today(v)] EXCEPT ![u][e] = @ + q]
  BY <1>1, <1>2, <1>7 DEF Today
<1>11. [v \in Users |-> Back(v)]'
          = [[v \in Users |-> Back(v)] EXCEPT ![u][e] = @ + (IF q < 0 THEN -q ELSE 0)]
  <2>1. PICK k : k = IF q < 0 THEN -q ELSE 0
    OBVIOUS
  <2>2. \A v, f : GivenBack(v, f) \in Nat
    BY BookedFloor
  <2>3. \A v, f : GivenBack(v, f)' = IF v = u /\ f = e /\ q < 0 THEN GivenBack(v, f) + (-q)
                                                               ELSE GivenBack(v, f)
    BY <1>0, BookSums
  <2>4. \A v, f : GivenBack(v, f)' = IF v = u /\ f = e THEN GivenBack(v, f) + k
                                                      ELSE GivenBack(v, f)
    BY <2>1, <2>2, <2>3
  <2>5. [v \in Users |-> Back(v)]' = [[v \in Users |-> Back(v)] EXCEPT ![u][e] = @ + k]
    BY <1>1, <1>2, <2>4 DEF Back
  <2>6. QED BY <2>1, <2>5
<1>12. Sale!Sell(u, e, q)
  BY <1>1, <1>4, <1>6, <1>8, <1>9, <1>10, <1>11 DEF Sale!Sell, Capacity, Sold, Today, Back
<1>13. e \in DOMAIN Capacity
  BY <1>1 DEF Capacity
<1>14. \E v \in Users, f \in DOMAIN Capacity, n \in Quantities : Sale!Sell(v, f, n)
  BY <1>3, <1>12, <1>13
<1>15. QED BY <1>14 DEF Sale!SaleNext, Capacity

\* An event that does not exist has no bookings.
LEMMA NothingGivenBackYet ==
    ASSUME TypeOK, NEW f, f \notin DOMAIN event, NEW u
    PROVE  GivenBack(u, f) = 0
<1> DEFINE ids == {b \in DOMAIN booking : /\ booking[b].userId = u
                                          /\ booking[b].eventId = f
                                          /\ booking[b].quantity < 0}
           c == [b \in ids |-> -booking[b].quantity]
<1>1. DOMAIN c = {}
  BY DEF TypeOK
<1>2. GivenBack(u, f) = Total(c)
  BY DEF GivenBack
<1> HIDE DEF c
<1>3. QED BY <1>1, <1>2, TotalEmpty

\* createEvent opens an event, updateEvent resizes one.
LEMMA CreateEventIsOpen ==
    ASSUME TypeOK, NEW m \in Managers, NEW seats \in SeatCounts, NEW price \in Prices,
           NEW date \in Dates, CreateEvent(m, seats, price, date)
    PROVE  Sale!SaleNext
<1> DEFINE n == Len(event)
<1>1. /\ n \in Nat /\ DOMAIN event = 1..n
      /\ \A e \in 1..n : event[e] \in Event
  BY TableShape DEF TypeOK
<1>2. NewEvent(m, seats, price, date) \in Event
  BY InputsAssumption DEF NewEvent, Event, EventStatus
<1>3. /\ \A e \in 1..n : event'[e] = event[e]
      /\ event'[n + 1] = NewEvent(m, seats, price, date)
      /\ DOMAIN event' = 1..(n + 1)
  <2>1. event \in Seq(Event) /\ event' = Append(event, NewEvent(m, seats, price, date))
    BY DEF TypeOK, CreateEvent
  <2>2. QED BY <1>2, <2>1, AppendProperties, TableShape
<1>4. seats \in Nat
  BY InputsAssumption
<1>5. booking' = booking /\ now' = now
  BY DEF CreateEvent
<1>6. \A u, e : TodayBooked(u, e)' = TodayBooked(u, e)
  BY <1>5, SumsStay
<1>7. \A u : TodayBooked(u, n + 1) = 0
  <2> SUFFICES ASSUME NEW u PROVE TodayBooked(u, n + 1) = 0
    OBVIOUS
  <2>1. PICK day : day = DayOf[now]
    OBVIOUS
  <2>2. BookingsOn(u, n + 1, day) = {}
    BY <1>1 DEF BookingsOn, TypeOK
  <2>3. QED BY <2>1, <2>2, NothingBookedYet, TodayIsADay
<1>8. /\ \A u, e : TodayBooked(u, e) \in Int
      /\ \A u, e : GivenBack(u, e) \in Int /\ GivenBack(u, e)' = GivenBack(u, e)
  BY <1>5, SumsAreInt, BookedFloor, SumsStay
<1>8a. \A u : GivenBack(u, n + 1) = 0
  BY <1>1, NothingGivenBackYet
<1> HIDE DEF n
<1>9. Capacity' = Append(Capacity, seats)
  <2>1. \A e \in 1..n : Capacity[e] \in Nat /\ Capacity'[e] = Capacity[e]
    BY <1>1, <1>3 DEF Capacity, Event
  <2>2. Capacity'[n + 1] = seats
    BY <1>1, <1>3 DEF Capacity, NewEvent
  <2>3. /\ DOMAIN Capacity = 1..n /\ Capacity = [i \in DOMAIN Capacity |-> Capacity[i]]
        /\ DOMAIN Capacity' = 1..(n + 1) /\ Capacity' = [i \in DOMAIN Capacity' |-> Capacity'[i]]
    BY <1>1, <1>3 DEF Capacity
  <2>4. PICK f, g : f = Capacity /\ g = Capacity'
    OBVIOUS
  <2>5. g = Append(f, g[n + 1]) /\ Len(f) = n
    <3>1. /\ f = [e \in 1..n |-> f[e]] /\ g = [e \in 1..(n + 1) |-> g[e]]
          /\ \A e \in 1..n : g[e] = f[e]
      BY <2>1, <2>3, <2>4
    <3>2. n \in Nat
      BY <1>1
    <3>3. QED BY <3>1, <3>2, TableWithRow
  <2>6. QED BY <2>2, <2>4, <2>5
<1>10. Sold' = Append(Sold, 0)
  <2>1. \A e \in 1..n : Sold[e] \in Int /\ Sold'[e] = Sold[e]
    BY <1>1, <1>3 DEF Sold, Event
  <2>2. Sold'[n + 1] = 0
    BY <1>1, <1>3 DEF Sold, NewEvent
  <2>3. /\ DOMAIN Sold = 1..n /\ Sold = [i \in DOMAIN Sold |-> Sold[i]]
        /\ DOMAIN Sold' = 1..(n + 1) /\ Sold' = [i \in DOMAIN Sold' |-> Sold'[i]]
    BY <1>1, <1>3 DEF Sold
  <2>4. PICK f, g : f = Sold /\ g = Sold'
    OBVIOUS
  <2>5. g = Append(f, g[n + 1]) /\ Len(f) = n
    <3>1. /\ f = [e \in 1..n |-> f[e]] /\ g = [e \in 1..(n + 1) |-> g[e]]
          /\ \A e \in 1..n : g[e] = f[e]
      BY <2>1, <2>3, <2>4
    <3>2. n \in Nat
      BY <1>1
    <3>3. QED BY <3>1, <3>2, TableWithRow
  <2>6. QED BY <2>2, <2>4, <2>5
<1>11. \A u \in Users : Today(u)' = Append(Today(u), 0)
  <2> SUFFICES ASSUME NEW u \in Users PROVE Today(u)' = Append(Today(u), 0)
    OBVIOUS
  <2>1. \A e \in 1..n : Today(u)[e] \in Int /\ Today(u)'[e] = Today(u)[e]
    BY <1>1, <1>3, <1>6, <1>8 DEF Today
  <2>2. Today(u)'[n + 1] = 0
    BY <1>1, <1>3, <1>6, <1>7 DEF Today
  <2>3. /\ DOMAIN Today(u) = 1..n /\ Today(u) = [i \in DOMAIN Today(u) |-> Today(u)[i]]
        /\ DOMAIN Today(u)' = 1..(n + 1) /\ Today(u)' = [i \in DOMAIN Today(u)' |-> Today(u)'[i]]
    BY <1>1, <1>3 DEF Today
  <2>4. PICK f, g : f = Today(u) /\ g = Today(u)'
    OBVIOUS
  <2>5. g = Append(f, g[n + 1]) /\ Len(f) = n
    <3>1. /\ f = [e \in 1..n |-> f[e]] /\ g = [e \in 1..(n + 1) |-> g[e]]
          /\ \A e \in 1..n : g[e] = f[e]
      BY <2>1, <2>3, <2>4
    <3>2. n \in Nat
      BY <1>1
    <3>3. QED BY <3>1, <3>2, TableWithRow
  <2>6. QED BY <2>2, <2>4, <2>5
<1>12. \A u \in Users : Back(u)' = Append(Back(u), 0)
  <2> SUFFICES ASSUME NEW u \in Users PROVE Back(u)' = Append(Back(u), 0)
    OBVIOUS
  <2>1. \A e \in 1..n : Back(u)[e] \in Int /\ Back(u)'[e] = Back(u)[e]
    BY <1>1, <1>3, <1>8 DEF Back
  <2>2. Back(u)'[n + 1] = 0
    BY <1>1, <1>3, <1>8, <1>8a DEF Back
  <2>3. /\ DOMAIN Back(u) = 1..n /\ Back(u) = [i \in DOMAIN Back(u) |-> Back(u)[i]]
        /\ DOMAIN Back(u)' = 1..(n + 1) /\ Back(u)' = [i \in DOMAIN Back(u)' |-> Back(u)'[i]]
    BY <1>1, <1>3 DEF Back
  <2>4. PICK f, g : f = Back(u) /\ g = Back(u)'
    OBVIOUS
  <2>5. g = Append(f, g[n + 1]) /\ Len(f) = n
    <3>1. /\ f = [e \in 1..n |-> f[e]] /\ g = [e \in 1..(n + 1) |-> g[e]]
          /\ \A e \in 1..n : g[e] = f[e]
      BY <2>1, <2>3, <2>4
    <3>2. n \in Nat
      BY <1>1
    <3>3. QED BY <3>1, <3>2, TableWithRow
  <2>6. QED BY <2>2, <2>4, <2>5
<1>13. Sale!Open(seats)
  BY <1>9, <1>10, <1>11, <1>12 DEF Sale!Open, Capacity, Sold, Today, Back
<1>14. QED BY <1>13 DEF Sale!SaleNext

LEMMA UpdateEventIsResize ==
    ASSUME TypeOK, NEW m \in Managers, NEW seats \in SeatCounts, NEW price \in Prices,
           NEW date \in Dates, NEW e \in DOMAIN event, UpdateEvent(m, e, seats, price, date)
    PROVE  Sale!SaleNext
<1>1. event[e] \in Event
  BY TableShape DEF TypeOK
<1>2. /\ DOMAIN event' = DOMAIN event
      /\ event'[e].totalSeats = seats
      /\ event'[e].bookedSeats = event[e].bookedSeats
      /\ \A f \in DOMAIN event : f # e => event'[f] = event[f]
      /\ booking' = booking /\ now' = now
  BY <1>1 DEF UpdateEvent, Event
<1>3. Capacity' = [Capacity EXCEPT ![e] = seats] /\ Sold' = Sold
  BY <1>2 DEF Capacity, Sold
<1>4. \A u : Today(u)' = Today(u) /\ Back(u)' = Back(u)
  BY <1>2, SumsStay DEF Today, Back
<1>5. /\ [u \in Users |-> Today(u)]' = [u \in Users |-> Today(u)]
      /\ [u \in Users |-> Back(u)]' = [u \in Users |-> Back(u)]
  BY <1>4
<1>6. Sale!Resize(e, seats)
  BY <1>3, <1>5 DEF Sale!Resize, Capacity, Sold, Today, Back
<1>7. e \in DOMAIN Capacity
  BY DEF Capacity
<1>8. QED BY <1>6, <1>7 DEF Sale!SaleNext, Capacity

\* Midnight is a new day, any other tick is not seen.
LEMMA TickIsNewDay ==
    ASSUME LimitInv, Tick
    PROVE  [Sale!SaleNext]_Sale!svars
<1> USE DEF LimitInv
<1>1. /\ event' = event /\ booking' = booking
      /\ now \in 0..Horizon /\ now' \in 0..Horizon /\ now <= now'
  BY ParametersAssumption DEF Tick, TypeOK
<1>2. CASE DayOf[now'] = DayOf[now]
  BY <1>1, <1>2, UnseenStep
<1>3. CASE DayOf[now'] # DayOf[now]
  <2>1. PICK day : day = DayOf[now']
    OBVIOUS
  <2>2. \A b \in DOMAIN booking : DayOf[booking[b].createdAt] # day
    <3>1. \A b \in DOMAIN booking : booking[b] \in Booking /\ booking[b].createdAt <= now
      BY TableShape DEF TypeOK
    <3>2. \A b \in DOMAIN booking : booking[b].createdAt \in 0..Horizon
      BY <3>1 DEF Booking
    <3>3. \A t \in 0..Horizon : t <= now => DayOf[t] # day
      BY <1>1, <1>3, <2>1, CalendarAssumption
    <3>4. QED BY <3>1, <3>2, <3>3
  <2>3. \A v, f : BookingsOn(v, f, day) = {}
    BY <2>2 DEF BookingsOn
  <2>4. \A v, f : BookedOn(v, f, day) = 0
    BY <2>3, NothingBookedYet
  <2>5. \A v, f : TodayBooked(v, f)' = 0
    <3>1. \A v, f : TodayBooked(v, f)' = BookedOn(v, f, day)'
      BY <2>1, TodayIsADay
    <3>2. QED BY <1>1, <2>4, <3>1, SumsStay
  <2>6. Capacity' = Capacity /\ Sold' = Sold
    BY <1>1 DEF Capacity, Sold
  <2>7. [u \in Users |-> Today(u)]' = [u \in Users |-> [e \in DOMAIN Capacity |-> 0]]
    BY <1>1, <2>5 DEF Today, Capacity
  <2>8. [u \in Users |-> Back(u)]' = [u \in Users |-> Back(u)]
    BY <1>1, SumsStay DEF Back
  <2>9. Sale!NewDay
    BY <2>6, <2>7, <2>8 DEF Sale!NewDay, Capacity, Sold, Today, Back
  <2>10. QED BY <2>9 DEF Sale!SaleNext
<1>4. QED BY <1>2, <1>3

LEMMA StepIsSaleStep == LimitInv /\ HeldAsAsked /\ [Next]_vars => [Sale!SaleNext]_Sale!svars
<1> SUFFICES ASSUME LimitInv, HeldAsAsked, [Next]_vars PROVE [Sale!SaleNext]_Sale!svars
  OBVIOUS
<1> USE DEF LimitInv
<1>1. \A e \in DOMAIN event : event[e] \in Event
  BY TableShape DEF TypeOK
<1>2. CASE event' = event /\ booking' = booking /\ now' = now
  BY <1>2, UnseenStep
<1>3. CASE \E u \in Users, h \in DOMAIN hold : Book(u, h)
  BY <1>3, BookIsSale
<1>4. ASSUME NEW m \in Managers, NEW e \in DOMAIN event, NEW status \in EventStatus,
             UpdateEventStatus(m, e, status)
      PROVE  [Sale!SaleNext]_Sale!svars
  <2>1. \A f \in DOMAIN event : /\ event'[f].totalSeats = event[f].totalSeats
                                /\ event'[f].bookedSeats = event[f].bookedSeats
    BY <1>1, <1>4 DEF UpdateEventStatus, Event
  <2>2. booking' = booking /\ now' = now /\ DOMAIN event' = DOMAIN event
    BY <1>4 DEF UpdateEventStatus
  <2>3. QED BY <2>1, <2>2, UnseenStep
<1>5. CASE HandleCompletedEvents
  <2>1. \A f \in DOMAIN event : /\ event'[f].totalSeats = event[f].totalSeats
                                /\ event'[f].bookedSeats = event[f].bookedSeats
    BY <1>1, <1>5 DEF HandleCompletedEvents, Event
  <2>2. booking' = booking /\ now' = now /\ DOMAIN event' = DOMAIN event
    BY <1>5 DEF HandleCompletedEvents
  <2>3. QED BY <2>1, <2>2, UnseenStep
<1>6. CASE Manage
  BY <1>4, <1>6, CreateEventIsOpen, UpdateEventIsResize DEF Manage, ManageBy
<1>7. CASE Tick
  BY <1>7, TickIsNewDay
<1>8. QED
  BY <1>2, <1>3, <1>5, <1>6, <1>7
  DEF Next, Cron, HoldSeats, ClearExpiredHolds, ClearExpiredProcessingHolds, vars

\* Every run of the booking service is a run of TicketSale: tickets are sold
\* one order at a time, within the seats of the event and the allowance of the
\* day, and nothing else ever sells or takes back a ticket.
THEOREM Refinement == Spec => ImplementsTicketSale
BY SaleInitial, LimitInit, LimitNext, HeldAsAskedHolds, StepIsSaleStep, PTL DEF Spec, ImplementsTicketSale, Sale!SaleSpec
=============================================================================
