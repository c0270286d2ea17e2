--------------------------- MODULE ReportingProofs --------------------------
(* Proofs about Reporting for every value of its constants.                *)
EXTENDS Reporting, TotalsProofs

-----------------------------------------------------------------------------
(* The inductive invariant: what is true of the tables at every moment a   *)
(* query of the report may see, and between two such moments.              *)

Tables == [event : Seq(Event), booking : Seq(Booking), split : Seq(RevenueSplit)]

\* Every booking has its two splits, in the order they are written.
SharesWritten(t, b) ==
    /\ t.split[2 * b - 1].bookingId = b /\ t.split[2 * b - 1].splitType = "Admin"
    /\ t.split[2 * b].bookingId = b /\ t.split[2 * b].splitType = "Manager"
    /\ t.split[2 * b - 1].amount + t.split[2 * b].amount - t.booking[b].total \in {-1, 0, 1}

Consistent(t) ==
    /\ \A e \in DOMAIN t.event :
           /\ t.event[e].price \in Prices
           /\ t.event[e].bookedSeats = Tickets(t, BookingsOf(t, {e}, "Confirmed"))
    /\ \A b \in DOMAIN t.booking : t.booking[b].eventId \in DOMAIN t.event
    /\ Len(t.split) = 2 * Len(t.booking)
    /\ \A b \in DOMAIN t.booking : SharesWritten(t, b)

\* The later state u has every row of t: bookings and splits as they were.
Continues(t, u) ==
    /\ Len(t.event) <= Len(u.event)
    /\ Len(t.booking) <= Len(u.booking)
    /\ \A b \in DOMAIN t.booking : u.booking[b] = t.booking[b]
    /\ Len(t.split) <= Len(u.split)
    /\ \A s \in DOMAIN t.split : u.split[s] = t.split[s]

ReportingInv ==
    /\ past \in Seq(Tables)
    /\ Len(past) >= 1
    /\ past[Len(past)] = Now
    /\ \A i \in DOMAIN past : Consistent(past[i])
    /\ \A i, j \in DOMAIN past : i <= j => Continues(past[i], past[j])

-----------------------------------------------------------------------------
(* The tables.                                                             *)

\* Row types of the three tables.
LEMMA TablesShape ==
    ASSUME NEW t \in Tables
    PROVE  /\ Len(t.event) \in Nat /\ DOMAIN t.event = 1..Len(t.event)
           /\ \A e \in DOMAIN t.event : t.event[e] \in Event
           /\ Len(t.booking) \in Nat /\ DOMAIN t.booking = 1..Len(t.booking)
           /\ \A b \in DOMAIN t.booking : t.booking[b] \in Booking
           /\ Len(t.split) \in Nat /\ DOMAIN t.split = 1..Len(t.split)
           /\ \A s \in DOMAIN t.split : t.split[s] \in RevenueSplit
<1>1. t.event \in Seq(Event) /\ t.booking \in Seq(Booking) /\ t.split \in Seq(RevenueSplit)
  BY DEF Tables
<1>2. QED BY <1>1, TableShape

\* Columns of the rows.
LEMMA ColumnTypes ==
    ASSUME NEW t \in Tables
    PROVE  /\ \A e \in DOMAIN t.event :
                  /\ t.event[e].totalSeats \in Nat /\ t.event[e].bookedSeats \in Int
                  /\ t.event[e].price \in Nat /\ t.event[e].managerId \in Managers
                  /\ t.event[e].status \in EventStatus
           /\ \A b \in DOMAIN t.booking :
                  /\ t.booking[b].quantity \in Int /\ t.booking[b].total \in Int
                  /\ t.booking[b].status = "Confirmed"
           /\ \A s \in DOMAIN t.split :
                  t.split[s].amount \in Int /\ t.split[s].splitType \in {"Admin", "Manager"}
BY TablesShape DEF Event, Booking, RevenueSplit

\* The row ids of a table are finitely many.
LEMMA FiniteTables ==
    ASSUME NEW t \in Tables
    PROVE  /\ IsFiniteSet(DOMAIN t.event) /\ IsFiniteSet(DOMAIN t.booking)
           /\ IsFiniteSet(DOMAIN t.split)
<1>1. \A n \in Nat : IsFiniteSet(1..n)
  BY FS_Interval
<1>2. QED BY <1>1, TablesShape

\* Every booking is Confirmed.
LEMMA AllConfirmed ==
    ASSUME NEW t \in Tables, NEW es
    PROVE  /\ BookingsOf(t, es, "Confirmed") =
                  {b \in DOMAIN t.booking : t.booking[b].eventId \in es}
           /\ BookingsOf(t, es, "Pending") = {}
BY ColumnTypes DEF BookingsOf

\* Every booking is one of the events there are.
LEMMA AllAreOfEvents ==
    ASSUME NEW t \in Tables, Consistent(t)
    PROVE  BookingsOf(t, DOMAIN t.event, "Confirmed") = DOMAIN t.booking
<1>1. BookingsOf(t, DOMAIN t.event, "Confirmed") =
          {b \in DOMAIN t.booking : t.booking[b].eventId \in DOMAIN t.event}
  BY AllConfirmed
<1>2. QED BY <1>1 DEF Consistent

\* Continues is an order.
LEMMA ContinuesTransitive ==
    ASSUME NEW t \in Tables, NEW u \in Tables, NEW v \in Tables,
           Continues(t, u), Continues(u, v)
    PROVE  Continues(t, v)
BY TablesShape DEF Continues
LEMMA ContinuesReflexive ==
    ASSUME NEW t \in Tables
    PROVE  Continues(t, t)
BY TablesShape DEF Continues

-----------------------------------------------------------------------------
(* Steps of Sales keep the tables consistent.                              *)

\* Empty tables are consistent.
LEMMA EmptyConsistent == Init => Now \in Tables /\ Consistent(Now)
<1> SUFFICES ASSUME Init PROVE Now \in Tables /\ Consistent(Now)
  OBVIOUS
<1>1. Now = [event |-> <<>>, booking |-> <<>>, split |-> <<>>]
  BY DEF Now, Init
<1>2. Now \in Tables
  BY <1>1, EmptySeq DEF Tables
<1>3. DOMAIN Now.event = {} /\ DOMAIN Now.booking = {} /\ Len(Now.split) = 0 /\ Len(Now.booking) = 0
  BY <1>1, EmptySeq
<1>4. QED BY <1>2, <1>3 DEF Consistent

\* Changes to events alone: counters stay, prices are the requests' prices.
LEMMA EventsChange ==
    ASSUME NEW t \in Tables, Consistent(t), NEW u \in Tables,
           u.booking = t.booking, u.split = t.split, Len(t.event) <= Len(u.event),
           \A e \in DOMAIN u.event :
               /\ u.event[e].price \in Prices
               /\ u.event[e].bookedSeats =
                      IF e \in DOMAIN t.event THEN t.event[e].bookedSeats ELSE 0
    PROVE  Consistent(u) /\ Continues(t, u)
<1>1. Continues(t, u)
  BY TablesShape DEF Continues
<1>2. \A b \in DOMAIN u.booking : u.booking[b].eventId \in DOMAIN u.event
  BY TablesShape DEF Consistent
<1>3. /\ Len(u.split) = 2 * Len(u.booking)
      /\ \A b \in DOMAIN u.booking : SharesWritten(u, b)
  BY DEF Consistent, SharesWritten
<1>4. ASSUME NEW e \in DOMAIN u.event
      PROVE  u.event[e].bookedSeats = Tickets(u, BookingsOf(u, {e}, "Confirmed"))
  <2>1. BookingsOf(u, {e}, "Confirmed") = BookingsOf(t, {e}, "Confirmed")
    BY DEF BookingsOf
  <2>2. Tickets(u, BookingsOf(u, {e}, "Confirmed")) = Tickets(t, BookingsOf(t, {e}, "Confirmed"))
    BY <2>1 DEF Tickets
  <2>3. CASE e \in DOMAIN t.event
    BY <2>2, <2>3 DEF Consistent
  <2>4. CASE e \notin DOMAIN t.event
    <3>1. BookingsOf(t, {e}, "Confirmed") = {}
      BY <2>4, AllConfirmed DEF Consistent
    <3>2. Tickets(t, {}) = 0
      BY TotalEmpty DEF Tickets
    <3>3. QED BY <2>2, <2>4, <3>1, <3>2
  <2>5. QED BY <2>3, <2>4
<1>5. QED BY <1>1, <1>2, <1>3, <1>4 DEF Consistent

\* Tickets of some bookings of a consistent state.
LEMMA TicketsType ==
    ASSUME NEW t \in Tables, NEW bs \in SUBSET DOMAIN t.booking
    PROVE  Tickets(t, bs) \in Int
<1> DEFINE c == [b \in bs |-> t.booking[b].quantity]
<1>1. IsFiniteSet(bs)
  BY FiniteTables, FS_Subset
<1>2. c \in [bs -> Int]
  BY ColumnTypes
<1> HIDE DEF c
<1>3. Total(c) \in Int
  BY <1>1, <1>2, TotalType
<1>4. QED BY <1>3 DEF Tickets, c

\* One booking more: the tickets of its event are more by its quantity, those
\* of the others the same.
LEMMA TicketsAfterSale ==
    ASSUME NEW t \in Tables, NEW u \in Tables, NEW row \in Booking, NEW e,
           u.booking = Append(t.booking, row)
    PROVE  /\ row.eventId = e =>
                  Tickets(u, BookingsOf(u, {e}, "Confirmed")) =
                      Tickets(t, BookingsOf(t, {e}, "Confirmed")) + row.quantity
           /\ row.eventId # e =>
                  Tickets(u, BookingsOf(u, {e}, "Confirmed")) =
                      Tickets(t, BookingsOf(t, {e}, "Confirmed"))
<1> DEFINE n  == Len(t.booking)
           bs == BookingsOf(t, {e}, "Confirmed")
           cs == BookingsOf(u, {e}, "Confirmed")
           c  == [b \in bs |-> t.booking[b].quantity]
           d  == [b \in cs |-> u.booking[b].quantity]
<1>1. /\ n \in Nat /\ DOMAIN t.booking = 1..n /\ DOMAIN u.booking = 1..(n + 1)
      /\ \A b \in 1..n : u.booking[b] = t.booking[b]
      /\ u.booking[n + 1] = row
  BY TablesShape, AppendProperties DEF Tables
<1>2. row.status = "Confirmed" /\ row.quantity \in Int
  BY DEF Booking
<1>3. bs = {b \in 1..n : t.booking[b].eventId = e}
  BY <1>1, AllConfirmed
<1>4. cs = {b \in 1..(n + 1) : u.booking[b].eventId = e}
  BY <1>1, AllConfirmed
<1>5. cs = IF row.eventId = e THEN bs \cup {n + 1} ELSE bs
  <2>1. \A b \in 1..(n + 1) : b \in 1..n \/ b = n + 1
    BY <1>1
  <2>2. n + 1 \in 1..(n + 1) /\ \A b \in 1..n : b \in 1..(n + 1)
    BY <1>1
  <2> HIDE DEF n, bs, cs
  <2>3. QED BY <1>1, <1>3, <1>4, <2>1, <2>2
<1>6. bs \in SUBSET (1..n) /\ IsFiniteSet(bs) /\ c \in [bs -> Int]
  <2>1. bs \in SUBSET DOMAIN t.booking
    BY <1>1, <1>3
  <2>2. IsFiniteSet(bs)
    BY <2>1, FiniteTables, FS_Subset
  <2>3. c \in [bs -> Int]
    BY <2>1, ColumnTypes
  <2>4. QED BY <1>1, <2>1, <2>2, <2>3
<1>7. Total(c) \in Int
  BY <1>6, TotalType
<1>8. \A b \in bs : u.booking[b].quantity = c[b]
  BY <1>1, <1>6
<1>9. Total(d) = Total(c) + (IF row.eventId = e THEN row.quantity ELSE 0)
  <2>1. CASE row.eventId # e
    <3>1. d = c
      BY <1>5, <1>8, <2>1
    <3> HIDE DEF c, d
    <3>2. QED BY <1>7, <2>1, <3>1
  <2>2. CASE row.eventId = e
    <3>1. /\ d \in [bs \cup {n + 1} -> Int]
          /\ d[n + 1] = row.quantity
          /\ \A b \in bs : d[b] = c[b]
      BY <1>1, <1>2, <1>5, <1>6, <1>8, <2>2
    <3> HIDE DEF n, bs, cs, c, d
    <3>2. Total(d) = Total(c) + row.quantity
      BY <1>1, <1>2, <1>6, <3>1, SumAfterAppend
    <3>3. QED BY <2>2, <3>2
  <2>3. QED BY <2>1, <2>2
<1>10. Tickets(t, bs) = Total(c) /\ Tickets(u, cs) = Total(d)
  BY DEF Tickets
<1> HIDE DEF bs, cs, c, d
<1>11. QED BY <1>7, <1>9, <1>10 DEF bs, cs

\* A sale: the booking, its two splits and the counter of its event.
LEMMA SaleChange ==
    ASSUME NEW t \in Tables, Consistent(t), NEW u \in Tables,
           NEW e \in DOMAIN t.event, NEW row \in Booking, row.eventId = e,
           NEW admin \in RevenueSplit, NEW manager \in RevenueSplit,
           admin.bookingId = Len(t.booking) + 1, admin.splitType = "Admin",
           manager.bookingId = Len(t.booking) + 1, manager.splitType = "Manager",
           admin.amount + manager.amount - row.total \in {-1, 0, 1},
           u.booking = Append(t.booking, row),
           u.split = t.split \o <<admin, manager>>,
           Len(u.event) = Len(t.event),
           \A d \in DOMAIN t.event :
               /\ u.event[d].price = t.event[d].price
               /\ d = e => u.event[d].bookedSeats = t.event[d].bookedSeats + row.quantity
               /\ d # e => u.event[d].bookedSeats = t.event[d].bookedSeats
    PROVE  Consistent(u) /\ Continues(t, u)
<1> DEFINE n == Len(t.booking)
           k == Len(t.split)
<1>1. /\ n \in Nat /\ DOMAIN t.booking = 1..n /\ DOMAIN u.booking = 1..(n + 1)
      /\ Len(u.booking) = n + 1
      /\ \A b \in 1..n : u.booking[b] = t.booking[b]
      /\ u.booking[n + 1] = row
  BY TablesShape, AppendProperties DEF Tables
<1>2. /\ k \in Nat /\ k = 2 * n /\ DOMAIN t.split = 1..k
      /\ Len(u.split) = k + 2 /\ DOMAIN u.split = 1..(k + 2)
      /\ \A s \in 1..k : u.split[s] = t.split[s]
      /\ u.split[k + 1] = admin /\ u.split[k + 2] = manager
  <2> DEFINE part == Append(t.split, admin)
  <2>1. t.split \in Seq(RevenueSplit) /\ k \in Nat /\ k = 2 * n /\ DOMAIN t.split = 1..k
    BY TablesShape DEF Tables, Consistent
  <2>2. u.split = Append(part, manager)
    <3>1. Append(Append(t.split, admin), manager) = t.split \o <<admin, manager>>
      BY <2>1, TwoRows
    <3>2. QED BY <3>1
  <2>3. /\ part \in Seq(RevenueSplit) /\ Len(part) = k + 1
        /\ \A s \in 1..k : part[s] = t.split[s]
        /\ part[k + 1] = admin
    BY <2>1, AppendProperties
  <2> HIDE DEF part
  <2>4. /\ Len(u.split) = k + 2
        /\ \A s \in 1..(k + 1) : u.split[s] = part[s]
        /\ u.split[k + 2] = manager
    <3>1. /\ Len(u.split) = Len(part) + 1
          /\ \A s \in 1..Len(part) : u.split[s] = part[s]
          /\ u.split[Len(part) + 1] = manager
      BY <2>2, <2>3, AppendProperties
    <3>2. k + 1 + 1 = k + 2
      BY <2>1
    <3>3. QED BY <2>3, <3>1, <3>2
  <2>5. DOMAIN u.split = 1..(k + 2)
    BY <2>4, TablesShape
  <2> HIDE DEF n, k
  <2>6. k + 1 \in 1..(k + 1) /\ \A s \in 1..k : s \in 1..(k + 1)
    BY <2>1
  <2>7. QED BY <2>1, <2>3, <2>4, <2>5, <2>6
<1>3. DOMAIN u.event = DOMAIN t.event
  BY TablesShape
<1>4. Continues(t, u)
  BY <1>1, <1>2, TablesShape DEF Continues
<1>5. ASSUME NEW d \in DOMAIN u.event
      PROVE  /\ u.event[d].price \in Prices
             /\ u.event[d].bookedSeats = Tickets(u, BookingsOf(u, {d}, "Confirmed"))
  <2>1. /\ t.event[d].price \in Prices
        /\ t.event[d].bookedSeats = Tickets(t, BookingsOf(t, {d}, "Confirmed"))
    BY <1>3 DEF Consistent
  <2>2. /\ d = e => Tickets(u, BookingsOf(u, {d}, "Confirmed")) =
                        Tickets(t, BookingsOf(t, {d}, "Confirmed")) + row.quantity
        /\ d # e => Tickets(u, BookingsOf(u, {d}, "Confirmed")) =
                        Tickets(t, BookingsOf(t, {d}, "Confirmed"))
    BY TicketsAfterSale
  <2>3. t.event[d].bookedSeats \in Int
    BY <1>3, ColumnTypes
  <2>4. QED BY <1>3, <2>1, <2>2, <2>3
<1>6. \A b \in DOMAIN u.booking : u.booking[b].eventId \in DOMAIN u.event
  <2>1. \A b \in 1..n : t.booking[b].eventId \in DOMAIN t.event
    BY <1>1 DEF Consistent
  <2>2. \A b \in 1..(n + 1) : b \in 1..n \/ b = n + 1
    BY <1>1
  <2> HIDE DEF n
  <2>3. QED BY <1>1, <1>3, <2>1, <2>2
<1>7. Len(u.split) = 2 * Len(u.booking)
  BY <1>1, <1>2
<1>8. ASSUME NEW b \in DOMAIN u.booking PROVE SharesWritten(u, b)
  <2>1. CASE b \in 1..n
    <3>1. SharesWritten(t, b)
      BY <1>1, <2>1 DEF Consistent
    <3>2. 2 * b - 1 \in 1..k /\ 2 * b \in 1..k
      BY <1>1, <1>2, <2>1
    <3> HIDE DEF n, k
    <3>3. QED BY <1>1, <1>2, <2>1, <3>1, <3>2 DEF SharesWritten
  <2>2. CASE b = n + 1
    <3>1. 2 * b - 1 = k + 1 /\ 2 * b = k + 2
      BY <1>1, <1>2, <2>2
    <3> HIDE DEF k
    <3>2. QED BY <1>1, <1>2, <2>2, <3>1 DEF SharesWritten
  <2>3. QED BY <1>1, <2>1, <2>2
<1>9. QED BY <1>4, <1>5, <1>6, <1>7, <1>8 DEF Consistent

\* What a step may do to the tables.
LEMMA TablesNext ==
    ASSUME Now \in Tables, Consistent(Now), Next
    PROVE  Now' \in Tables /\ Consistent(Now') /\ Continues(Now, Now')
<1> DEFINE t == Now
           u == Now'
<1>0. /\ t \in Tables /\ Consistent(t)
      /\ t.event = event /\ t.booking = booking /\ t.split = split
      /\ u = [event |-> event', booking |-> booking', split |-> split']
      /\ u.event = event' /\ u.booking = booking' /\ u.split = split'
  BY DEF Now
<1>1. /\ event \in Seq(Event) /\ booking \in Seq(Booking) /\ split \in Seq(RevenueSplit)
      /\ Len(event) \in Nat /\ DOMAIN event = 1..Len(event)
      /\ \A e \in DOMAIN event :
             /\ event[e] \in Event /\ event[e].price \in Prices
             /\ event[e].price \in Nat /\ event[e].bookedSeats \in Int
  BY <1>0, TablesShape, ColumnTypes DEF Tables, Consistent
<1> HIDE DEF t, u
<1>2. ASSUME NEW seats \in SeatCounts, NEW price \in Prices, NEW m \in Managers,
             CreateEvent(m, seats, price)
      PROVE  u \in Tables /\ Consistent(u) /\ Continues(t, u)
  <2> DEFINE new == [managerId |-> m, status |-> "Active", price |-> price,
                     totalSeats |-> seats, bookedSeats |-> 0]
  <2>1. new \in Event /\ new.price \in Prices /\ new.bookedSeats = 0
    BY SalesAssumption DEF Event, EventStatus
  <2>2. event' = Append(event, new) /\ booking' = booking /\ split' = split
    BY <1>2 DEF CreateEvent
  <2> HIDE DEF new
  <2>3. /\ event' \in Seq(Event) /\ Len(event') = Len(event) + 1
        /\ \A e \in DOMAIN event : event'[e] = event[e]
        /\ event'[Len(event) + 1] = new
    BY <1>1, <2>1, <2>2, AppendProperties
  <2>4. u \in Tables
    BY <1>0, <1>1, <2>2, <2>3 DEF Tables
  <2>5. \A e \in DOMAIN u.event : e \in DOMAIN event \/ (e = Len(event) + 1 /\ e \notin DOMAIN event)
    BY <1>0, <1>1, <2>3, <2>4, TablesShape
  <2>6. /\ \A e \in DOMAIN u.event :
               /\ u.event[e].price \in Prices
               /\ u.event[e].bookedSeats =
                      IF e \in DOMAIN t.event THEN t.event[e].bookedSeats ELSE 0
        /\ Len(t.event) <= Len(u.event) /\ u.booking = t.booking /\ u.split = t.split
    BY <1>0, <1>1, <2>1, <2>2, <2>3, <2>5
  <2>7. QED BY <1>0, <2>4, <2>6, EventsChange
<1>3. ASSUME NEW seats \in SeatCounts, NEW price \in Prices, NEW e \in DOMAIN event,
             UpdateEvent(e, seats, price)
      PROVE  u \in Tables /\ Consistent(u) /\ Continues(t, u)
  <2>1. seats \in Nat /\ price \in Nat /\ event[e] \in Event
    BY <1>1, SalesAssumption
  <2>2. /\ event' = [event EXCEPT ![e] = [event[e] EXCEPT !.totalSeats = seats, !.price = price]]
        /\ booking' = booking /\ split' = split
    BY <1>3 DEF UpdateEvent
  <2> DEFINE new == [event[e] EXCEPT !.totalSeats = seats, !.price = price]
  <2>3. new \in Event /\ new.price = price /\ new.bookedSeats = event[e].bookedSeats
    BY <2>1 DEF Event
  <2> HIDE DEF new
  <2>4. event' = [event EXCEPT ![e] = new]
    BY <2>2 DEF new
  <2>5. /\ event' \in Seq(Event) /\ Len(event') = Len(event) /\ DOMAIN event' = DOMAIN event
        /\ \A d \in DOMAIN event : event'[d] = IF d = e THEN new ELSE event[d]
    BY <1>1, <2>3, <2>4, ExceptSeq
  <2>6. u \in Tables
    BY <1>0, <1>1, <2>2, <2>5 DEF Tables
  <2>7. /\ \A d \in DOMAIN u.event :
               /\ u.event[d].price \in Prices
               /\ u.event[d].bookedSeats =
                      IF d \in DOMAIN t.event THEN t.event[d].bookedSeats ELSE 0
        /\ Len(t.event) <= Len(u.event) /\ u.booking = t.booking /\ u.split = t.split
    BY <1>0, <1>1, <2>2, <2>3, <2>5
  <2>8. QED BY <1>0, <2>6, <2>7, EventsChange
<1>4. ASSUME NEW es \in SUBSET DOMAIN event, NEW status \in EventStatus, SetStatus(es, status)
      PROVE  u \in Tables /\ Consistent(u) /\ Continues(t, u)
  <2>1. /\ event' = [e \in DOMAIN event |->
                        IF e \in es THEN [event[e] EXCEPT !.status = status] ELSE event[e]]
        /\ booking' = booking /\ split' = split
    BY <1>4 DEF SetStatus
  <2>2. \A e \in DOMAIN event :
            /\ event'[e] \in Event
            /\ event'[e].price = event[e].price
            /\ event'[e].bookedSeats = event[e].bookedSeats
    BY <1>1, <2>1 DEF Event
  <2>3. event' = [e \in 1..Len(event) |-> event'[e]]
    BY <1>1, <2>1
  <2>4. event' \in Seq(Event) /\ Len(event') = Len(event) /\ DOMAIN event' = DOMAIN event
    BY <1>1, <2>1, <2>2, <2>3, FunctionIsTable
  <2>5. u \in Tables
    BY <1>0, <1>1, <2>1, <2>4 DEF Tables
  <2>6. /\ \A e \in DOMAIN u.event :
               /\ u.event[e].price \in Prices
               /\ u.event[e].bookedSeats =
                      IF e \in DOMAIN t.event THEN t.event[e].bookedSeats ELSE 0
        /\ Len(t.event) <= Len(u.event) /\ u.booking = t.booking /\ u.split = t.split
    BY <1>0, <1>1, <2>1, <2>2, <2>4
  <2>7. QED BY <1>0, <2>5, <2>6, EventsChange
<1>5. ASSUME NEW e \in DOMAIN event, NEW q \in Quantities, Sell(e, q)
      PROVE  u \in Tables /\ Consistent(u) /\ Continues(t, u)
  <2> DEFINE total == q * event[e].price
             row == [eventId |-> e, quantity |-> q, total |-> total, status |-> "Confirmed"]
             n == Len(booking)
  <2>1. PICK s \in Shares(total) :
            split' = split \o
               <<[bookingId |-> BookingId, amount |-> s[1], splitType |-> "Admin"],
                 [bookingId |-> BookingId, amount |-> s[2], splitType |-> "Manager"]>>
    BY <1>5 DEF Sell
  <2>2. q \in Int /\ total \in Int /\ e \in Nat /\ n \in Nat
    BY <1>0, <1>1, TablesShape, SalesAssumption
  <2>3. s[1] \in Int /\ s[2] \in Int /\ s[1] + s[2] - total \in {-1, 0, 1}
    BY <1>1, SalesAssumption
  <2> DEFINE admin == [bookingId |-> BookingId, amount |-> s[1], splitType |-> "Admin"]
             manager == [bookingId |-> BookingId, amount |-> s[2], splitType |-> "Manager"]
  <2>4. /\ BookingId = n + 1
        /\ admin \in RevenueSplit /\ admin.bookingId = n + 1 /\ admin.splitType = "Admin"
        /\ manager \in RevenueSplit /\ manager.bookingId = n + 1 /\ manager.splitType = "Manager"
        /\ admin.amount = s[1] /\ manager.amount = s[2]
    BY <2>2, <2>3 DEF RevenueSplit, BookingId
  <2>5. row \in Booking /\ row.eventId = e /\ row.quantity = q /\ row.total = total
    BY <2>2 DEF Booking
  <2>6. /\ event' = [event EXCEPT ![e].bookedSeats = @ + q]
        /\ booking' = Append(booking, row)
        /\ split' = split \o <<admin, manager>>
    BY <1>5, <2>1 DEF Sell
  <2> DEFINE new == [event[e] EXCEPT !.bookedSeats = @ + q]
  <2>7. /\ new \in Event /\ new.price = event[e].price
        /\ new.bookedSeats = event[e].bookedSeats + q
        /\ event' = [event EXCEPT ![e] = new]
    <3>1. event[e] \in Event /\ event[e].bookedSeats + q \in Int
      BY <1>1, <2>2
    <3>2. new \in Event /\ new.price = event[e].price
          /\ new.bookedSeats = event[e].bookedSeats + q
      BY <3>1 DEF Event
    <3>3. event' = [event EXCEPT ![e] = new]
      BY <2>6
    <3>4. QED BY <3>2, <3>3
  <2> HIDE DEF new
  <2>8. /\ event' \in Seq(Event) /\ Len(event') = Len(event) /\ DOMAIN event' = DOMAIN event
        /\ \A d \in DOMAIN event : event'[d] = IF d = e THEN new ELSE event[d]
    BY <1>1, <2>7, ExceptSeq
  <2>9. booking' \in Seq(Booking)
    BY <1>1, <2>5, <2>6, AppendProperties
  <2>10. split' \in Seq(RevenueSplit)
    <3> HIDE DEF admin, manager
    <3>1. <<admin, manager>> \in Seq(RevenueSplit)
      BY <2>4
    <3>2. QED BY <1>1, <2>6, <3>1, ConcatProperties
  <2>11. u \in Tables
    BY <1>0, <2>8, <2>9, <2>10 DEF Tables
  <2>12. /\ u.booking = Append(t.booking, row) /\ u.split = t.split \o <<admin, manager>>
         /\ Len(u.event) = Len(t.event) /\ n = Len(t.booking) /\ e \in DOMAIN t.event
    BY <1>0, <2>6, <2>8
  <2>13. \A d \in DOMAIN t.event :
             /\ u.event[d].price = t.event[d].price
             /\ d = e => u.event[d].bookedSeats = t.event[d].bookedSeats + row.quantity
             /\ d # e => u.event[d].bookedSeats = t.event[d].bookedSeats
    BY <1>0, <1>1, <2>5, <2>7, <2>8
  <2>14. admin.amount + manager.amount - row.total \in {-1, 0, 1}
    BY <2>3, <2>4, <2>5
  <2> HIDE DEF admin, manager, row, n
  <2>15. /\ admin \in RevenueSplit /\ manager \in RevenueSplit /\ row \in Booking
         /\ admin.bookingId = Len(t.booking) + 1 /\ admin.splitType = "Admin"
         /\ manager.bookingId = Len(t.booking) + 1 /\ manager.splitType = "Manager"
    BY <2>4, <2>5, <2>12
  <2>16. Consistent(u) /\ Continues(t, u)
    <3>1. t \in Tables /\ Consistent(t) /\ row.eventId = e
      BY <1>0, <2>5
    <3>2. QED BY <2>11, <2>12, <2>13, <2>14, <2>15, <3>1, SaleChange, ZenonT(60)
  <2>17. QED BY <2>11, <2>16
<1>6. u \in Tables /\ Consistent(u) /\ Continues(t, u)
  BY <1>2, <1>3, <1>4, <1>5 DEF Next
<1>7. QED BY <1>6 DEF t, u

-----------------------------------------------------------------------------
(* The states that a report sees.                                          *)

\* A report that is asked for sees the tables of that moment.
LEMMA AskedInv ==
    ASSUME NEW t \in Tables, Consistent(t), NEW p, p = <<t>>
    PROVE  /\ p \in Seq(Tables) /\ Len(p) = 1 /\ p[1] = t /\ DOMAIN p = {1}
           /\ \A i \in DOMAIN p : Consistent(p[i])
           /\ \A i, j \in DOMAIN p : i <= j => Continues(p[i], p[j])
<1>1. p \in Seq(Tables) /\ Len(p) = 1 /\ p[1] = t /\ DOMAIN p = {1}
  OBVIOUS
<1>2. QED BY <1>1, ContinuesReflexive

\* Until it is done, further ones.
LEMMA SeenMoreInv ==
    ASSUME NEW p \in Seq(Tables), Len(p) >= 1,
           \A i \in DOMAIN p : Consistent(p[i]),
           \A i, j \in DOMAIN p : i <= j => Continues(p[i], p[j]),
           NEW u \in Tables, Consistent(u), Continues(p[Len(p)], u),
           NEW q, q = Append(p, u)
    PROVE  /\ q \in Seq(Tables) /\ Len(q) >= 1 /\ q[Len(q)] = u
           /\ \A i \in DOMAIN q : Consistent(q[i])
           /\ \A i, j \in DOMAIN q : i <= j => Continues(q[i], q[j])
<1> DEFINE n == Len(p)
<1>1. /\ n \in Nat /\ n >= 1 /\ DOMAIN p = 1..n
      /\ \A i \in 1..n : p[i] \in Tables
  BY TableShape
<1>2. /\ q \in Seq(Tables) /\ Len(q) = n + 1 /\ DOMAIN q = 1..(n + 1)
      /\ \A i \in 1..n : q[i] = p[i]
      /\ q[n + 1] = u
  <2>1. /\ q \in Seq(Tables) /\ Len(q) = n + 1
        /\ \A i \in 1..n : q[i] = p[i]
        /\ q[n + 1] = u
    BY <1>1, AppendProperties
  <2>2. QED BY <2>1, TableShape
<1>3. n \in DOMAIN p /\ Continues(p[n], u)
  BY <1>1
<1> HIDE DEF n
<1>4. \A i \in 1..(n + 1) : i \in 1..n \/ i = n + 1
  BY <1>1
<1>5. \A i \in DOMAIN q : Consistent(q[i])
  BY <1>1, <1>2, <1>4
<1>6. ASSUME NEW i \in DOMAIN q, NEW j \in DOMAIN q, i <= j
      PROVE  Continues(q[i], q[j])
  <2>1. CASE j \in 1..n
    <3>1. i \in 1..n
      BY <1>1, <1>2, <1>6, <2>1
    <3>2. QED BY <1>1, <1>2, <1>6, <2>1, <3>1
  <2>2. CASE i \in 1..n /\ j = n + 1
    <3>1. i <= n /\ Continues(p[i], p[n])
      BY <1>1, <1>3, <2>2
    <3>2. Continues(p[i], u)
      BY <1>1, <1>3, <2>2, <3>1, ContinuesTransitive
    <3>3. QED BY <1>2, <2>2, <3>2
  <2>3. CASE i = n + 1 /\ j = n + 1
    BY <1>2, <2>3, ContinuesReflexive
  <2>4. QED BY <1>1, <1>2, <1>4, <1>6, <2>1, <2>2, <2>3
<1>7. Len(q) >= 1
  BY <1>1, <1>2
<1>8. QED BY <1>2, <1>5, <1>6, <1>7

\* The invariant holds before any report is asked for.
LEMMA ReportingInvInit == RInit => ReportingInv
<1> SUFFICES ASSUME RInit PROVE ReportingInv
  OBVIOUS
<1>1. Now \in Tables /\ Consistent(Now) /\ past = <<Now>>
  BY EmptyConsistent DEF RInit
<1>2. QED BY <1>1, AskedInv DEF ReportingInv

\* Neither asking nor what is committed meanwhile breaks it.
LEMMA ReportingInvNext == ReportingInv /\ [RNext]_rvars => ReportingInv'
<1> SUFFICES ASSUME ReportingInv, [RNext]_rvars PROVE ReportingInv'
  OBVIOUS
<1>1. /\ past \in Seq(Tables) /\ Len(past) \in Nat /\ Len(past) \in DOMAIN past
      /\ Now = past[Len(past)] /\ Now \in Tables /\ Consistent(Now)
  <2>1. past \in Seq(Tables) /\ Len(past) >= 1 /\ Now = past[Len(past)]
    BY DEF ReportingInv
  <2>2. Len(past) \in Nat /\ DOMAIN past = 1..Len(past) /\ \A i \in 1..Len(past) : past[i] \in Tables
    BY <2>1, TableShape
  <2>3. Len(past) \in DOMAIN past
    BY <2>1, <2>2
  <2>4. QED BY <2>1, <2>2, <2>3 DEF ReportingInv
<1>2. CASE Ask
  <2>1. Now' = Now /\ past' = <<Now>>
    BY <1>2 DEF Ask, svars, Now
  <2>2. QED BY <1>1, <2>1, AskedInv DEF ReportingInv
<1>3. CASE Commit
  <2>1. /\ Now' \in Tables /\ Consistent(Now') /\ Continues(past[Len(past)], Now')
    BY <1>1, <1>3, TablesNext DEF Commit
  <2>2. past' = Append(past, Now')
    BY <1>3 DEF Commit
  <2>3. QED BY <1>1, <2>1, <2>2, SeenMoreInv DEF ReportingInv
<1>4. CASE UNCHANGED rvars
  <2>1. Now' = Now /\ past' = past
    BY <1>4 DEF rvars, Now
  <2>2. QED BY <2>1 DEF ReportingInv
<1>5. QED BY <1>2, <1>3, <1>4 DEF RNext

\* The invariant of everything proved here of the reports.
LEMMA ReportingInvariant == RSpec => []ReportingInv
<1>1. QED BY ReportingInvInit, ReportingInvNext, PTL DEF RSpec

-----------------------------------------------------------------------------
(* Earnings of bookings.                                                   *)

\* The ids of the splits: the first and the second one of each booking.
LEMMA FirstsAndSeconds ==
    ASSUME NEW n \in Nat, NEW s \in 1..(2 * n)
    PROVE  \E b \in 1..n : s = 2 * b - 1 \/ s = 2 * b
<1>1. CASE s % 2 = 0
  <2>1. s = 2 * (s \div 2) /\ s \div 2 \in 1..n
    BY <1>1
  <2>2. QED BY <2>1
<1>2. CASE s % 2 # 0
  <2>1. s = 2 * ((s + 1) \div 2) - 1 /\ (s + 1) \div 2 \in 1..n
    BY <1>2
  <2>2. QED BY <2>1
<1>3. QED BY <1>1, <1>2

\* Every split is of a booking there is.
LEMMA SplitsAreOfBookings ==
    ASSUME NEW t \in Tables, Consistent(t)
    PROVE  \A s \in DOMAIN t.split : t.split[s].bookingId \in DOMAIN t.booking
<1> DEFINE n == Len(t.booking)
<1>1. /\ n \in Nat /\ DOMAIN t.booking = 1..n /\ DOMAIN t.split = 1..(2 * n)
      /\ \A b \in 1..n : SharesWritten(t, b)
  BY TablesShape DEF Consistent
<1> HIDE DEF n
<1>2. ASSUME NEW s \in 1..(2 * n) PROVE t.split[s].bookingId \in 1..n
  <2>1. PICK b \in 1..n : s = 2 * b - 1 \/ s = 2 * b
    BY <1>1, FirstsAndSeconds
  <2>2. SharesWritten(t, b)
    BY <1>1
  <2>3. QED BY <2>1, <2>2 DEF SharesWritten
<1>3. QED BY <1>1, <1>2

\* The splits of some bookings are their first ones, the admin's, and their
\* second ones, the manager's.
LEMMA SplitRows ==
    ASSUME NEW u \in Tables, Consistent(u), NEW bs \in SUBSET DOMAIN u.booking
    PROVE  /\ \A b \in bs : 2 * b - 1 \in DOMAIN u.split /\ 2 * b \in DOMAIN u.split
           /\ SplitsOf(u, bs, "Admin") = {2 * b - 1 : b \in bs}
           /\ SplitsOf(u, bs, "Manager") = {2 * b : b \in bs}
<1> DEFINE n == Len(u.booking)
<1>1. /\ n \in Nat /\ DOMAIN u.booking = 1..n /\ DOMAIN u.split = 1..(2 * n)
      /\ \A b \in 1..n : SharesWritten(u, b)
  BY TablesShape DEF Consistent
<1> HIDE DEF n
<1>2. \A b \in bs : 2 * b - 1 \in DOMAIN u.split /\ 2 * b \in DOMAIN u.split
  BY <1>1
<1>3. \A s \in 1..(2 * n) : \E b \in 1..n : s = 2 * b - 1 \/ s = 2 * b
  BY <1>1, FirstsAndSeconds
<1>4. ASSUME NEW s \in SplitsOf(u, bs, "Admin") PROVE \E b \in bs : s = 2 * b - 1
  <2>1. s \in 1..(2 * n) /\ u.split[s].bookingId \in bs /\ u.split[s].splitType = "Admin"
    BY <1>1 DEF SplitsOf
  <2>2. PICK b \in 1..n : s = 2 * b - 1 \/ s = 2 * b
    BY <1>3, <2>1
  <2>3. SharesWritten(u, b)
    BY <1>1
  <2>4. QED BY <2>1, <2>2, <2>3 DEF SharesWritten
<1>5. ASSUME NEW s \in SplitsOf(u, bs, "Manager") PROVE \E b \in bs : s = 2 * b
  <2>1. s \in 1..(2 * n) /\ u.split[s].bookingId \in bs /\ u.split[s].splitType = "Manager"
    BY <1>1 DEF SplitsOf
  <2>2. PICK b \in 1..n : s = 2 * b - 1 \/ s = 2 * b
    BY <1>3, <2>1
  <2>3. SharesWritten(u, b)
    BY <1>1
  <2>4. QED BY <2>1, <2>2, <2>3 DEF SharesWritten
<1>6. ASSUME NEW b \in bs
      PROVE  2 * b - 1 \in SplitsOf(u, bs, "Admin") /\ 2 * b \in SplitsOf(u, bs, "Manager")
  BY <1>1, <1>2 DEF SplitsOf, SharesWritten
<1>7. QED BY <1>2, <1>4, <1>5, <1>6

\* So what some bookings earn is counted once for each of them.
LEMMA EarningsByBooking ==
    ASSUME NEW u \in Tables, Consistent(u), NEW bs \in SUBSET DOMAIN u.booking,
           NEW c \in [bs -> Int], \A b \in bs : c[b] = u.split[2 * b - 1].amount,
           NEW d \in [bs -> Int], \A b \in bs : d[b] = u.split[2 * b].amount
    PROVE  /\ Earnings(u, bs, "Admin") = Total(c)
           /\ Earnings(u, bs, "Manager") = Total(d)
<1>1. /\ \A b \in bs : b \in Nat /\ 2 * b - 1 \in DOMAIN u.split /\ 2 * b \in DOMAIN u.split
      /\ SplitsOf(u, bs, "Admin") = {2 * b - 1 : b \in bs}
      /\ SplitsOf(u, bs, "Manager") = {2 * b : b \in bs}
      /\ \A s \in DOMAIN u.split : u.split[s].amount \in Int
      /\ IsFiniteSet(bs)
  <2>1. bs \subseteq DOMAIN u.booking /\ DOMAIN u.booking \subseteq Nat
    BY TablesShape
  <2>2. IsFiniteSet(bs)
    BY FiniteTables, FS_Subset
  <2>3. QED BY <2>1, <2>2, SplitRows, ColumnTypes
<1>2. Earnings(u, bs, "Admin") = Total(c)
  <2> DEFINE ss == SplitsOf(u, bs, "Admin")
             f == [b \in bs |-> 2 * b - 1]
             a == [s \in ss |-> u.split[s].amount]
  <2>1. f \in Bijection(bs, ss)
    <3>1. f \in [bs -> ss]
      BY <1>1
    <3>2. \A x, y \in bs : f[x] = f[y] => x = y
      BY <1>1
    <3>3. \A s \in ss : \E b \in bs : f[b] = s
      BY <1>1
    <3> HIDE DEF f, ss
    <3>4. QED BY <3>1, <3>2, <3>3 DEF Bijection, Injection, Surjection, IsInjective
  <2>2. a \in [ss -> Int] /\ \A b \in bs : c[b] = a[f[b]]
    BY <1>1
  <2> HIDE DEF f, ss, a
  <2>3. Total(c) = Total(a)
    BY <1>1, <2>1, <2>2, TotalReindexed
  <2>4. QED BY <2>3 DEF Earnings, a, ss
<1>3. Earnings(u, bs, "Manager") = Total(d)
  <2> DEFINE ss == SplitsOf(u, bs, "Manager")
             f == [b \in bs |-> 2 * b]
             a == [s \in ss |-> u.split[s].amount]
  <2>1. f \in Bijection(bs, ss)
    <3>1. f \in [bs -> ss]
      BY <1>1
    <3>2. \A x, y \in bs : f[x] = f[y] => x = y
      BY <1>1
    <3>3. \A s \in ss : \E b \in bs : f[b] = s
      BY <1>1
    <3> HIDE DEF f, ss
    <3>4. QED BY <3>1, <3>2, <3>3 DEF Bijection, Injection, Surjection, IsInjective
  <2>2. a \in [ss -> Int] /\ \A b \in bs : d[b] = a[f[b]]
    BY <1>1
  <2> HIDE DEF f, ss, a
  <2>3. Total(d) = Total(a)
    BY <1>1, <2>1, <2>2, TotalReindexed
  <2>4. QED BY <2>3 DEF Earnings, a, ss
<1>4. QED BY <1>2, <1>3

\* Read after them, splits hand out the price of bookings, give or take a cent
\* for each.
LEMMA EarningsWithinCents ==
    ASSUME NEW t \in Tables, NEW u \in Tables, Consistent(u), Continues(t, u),
           NEW bs \in SUBSET DOMAIN t.booking
    PROVE  Earnings(u, bs, "Manager") + Earnings(u, bs, "Admin") - TotalSales(t, bs)
               \in -Cardinality(bs)..Cardinality(bs)
<1> DEFINE c == [b \in bs |-> u.split[2 * b - 1].amount]
           d == [b \in bs |-> u.split[2 * b].amount]
           p == [b \in bs |-> t.booking[b].total]
           e == [b \in bs |-> c[b] + d[b]]
<1>1. /\ bs \in SUBSET DOMAIN u.booking
      /\ \A b \in bs : u.booking[b] = t.booking[b]
  BY TablesShape DEF Continues
<1>2. IsFiniteSet(bs)
  BY FiniteTables, FS_Subset
<1>3. c \in [bs -> Int] /\ d \in [bs -> Int] /\ p \in [bs -> Int]
  BY <1>1, SplitRows, ColumnTypes
<1>4. e \in [bs -> Int] /\ IsSum(e, c, d)
  <2> HIDE DEF c, d
  <2> QED BY <1>3 DEF IsSum
<1>5. \A b \in bs : c[b] = u.split[2 * b - 1].amount /\ d[b] = u.split[2 * b].amount
  OBVIOUS
<1>6. \A b \in bs : e[b] - p[b] \in {-1, 0, 1}
  <2> SUFFICES ASSUME NEW b \in bs PROVE e[b] - p[b] \in {-1, 0, 1}
    OBVIOUS
  <2>1. SharesWritten(u, b)
    BY <1>1 DEF Consistent
  <2>2. c[b] + d[b] - u.booking[b].total \in {-1, 0, 1}
    BY <2>1 DEF SharesWritten
  <2>3. e[b] = c[b] + d[b] /\ p[b] = u.booking[b].total
    BY <1>1
  <2>4. c[b] \in Int /\ d[b] \in Int /\ u.booking[b].total \in Int
    BY <1>1, <1>3, ColumnTypes
  <2> HIDE DEF c, d, e, p
  <2>5. QED BY <2>2, <2>3, <2>4
<1>7. TotalSales(t, bs) = Total(p)
  BY DEF TotalSales
<1> HIDE DEF c, d, p, e
<1>8. Earnings(u, bs, "Admin") = Total(c) /\ Earnings(u, bs, "Manager") = Total(d)
  BY <1>1, <1>3, <1>5, EarningsByBooking
<1>9. /\ Total(c) \in Int /\ Total(d) \in Int /\ Total(e) = Total(c) + Total(d)
  BY <1>2, <1>3, <1>4, TotalOfSum
<1>10. /\ Total(e) \in Int /\ Total(p) \in Int /\ Cardinality(bs) \in Nat
       /\ Total(e) - Total(p) \in -Cardinality(bs)..Cardinality(bs)
  BY <1>2, <1>3, <1>4, <1>6, TotalsWithin
<1>11. QED BY <1>7, <1>8, <1>9, <1>10

\* What a findMany with include has read.
LEMMA ReadsInOrder ==
    ASSUME ReportingInv, NEW r \in IncludeReads
    PROVE  /\ r.event \in Tables /\ Consistent(r.event)
           /\ r.booking \in Tables /\ Consistent(r.booking)
           /\ r.split \in Tables /\ Consistent(r.split)
           /\ Continues(past[1], r.event) /\ Continues(past[1], r.booking)
           /\ Continues(r.event, r.booking) /\ Continues(r.booking, r.split)
           /\ Continues(r.split, Now)
<1>1. PICK w \in (DOMAIN past) \X (DOMAIN past) \X (DOMAIN past) :
          /\ w[1] <= w[2] /\ w[2] <= w[3]
          /\ r = [event |-> past[w[1]], booking |-> past[w[2]], split |-> past[w[3]]]
  BY DEF IncludeReads, InOrder
<1>2. /\ w[1] \in DOMAIN past /\ w[2] \in DOMAIN past /\ w[3] \in DOMAIN past
      /\ r.event = past[w[1]] /\ r.booking = past[w[2]] /\ r.split = past[w[3]]
  BY <1>1
<1>3. /\ Len(past) \in Nat /\ DOMAIN past = 1..Len(past) /\ Len(past) >= 1
      /\ \A i \in DOMAIN past : past[i] \in Tables
  BY TableShape DEF ReportingInv
<1>4. /\ 1 \in DOMAIN past /\ Len(past) \in DOMAIN past
      /\ \A i \in DOMAIN past : 1 <= i /\ i <= Len(past)
  BY <1>3
<1>5. /\ Continues(past[1], past[w[1]]) /\ Continues(past[1], past[w[2]])
      /\ Continues(past[w[1]], past[w[2]]) /\ Continues(past[w[2]], past[w[3]])
      /\ Continues(past[w[3]], past[Len(past)])
  BY <1>1, <1>2, <1>4 DEF ReportingInv
<1>6. \A i \in DOMAIN past : past[i] \in Tables /\ Consistent(past[i])
  BY <1>3 DEF ReportingInv
<1>7. past[Len(past)] = Now
  BY DEF ReportingInv
<1>8. QED BY <1>2, <1>5, <1>6, <1>7

\* RowsAddUp: whatever is sold while a report runs, the earnings in its rows are
\* those of the sales beside them, within a cent for each booking.
THEOREM RowsDoAddUp == RSpec => []RowsAddUp
<1>1. ReportingInv => RowsAddUp
  <2> SUFFICES ASSUME ReportingInv, NEW r \in IncludeReads
               PROVE  /\ \A e \in DOMAIN r.event.event :
                             LET row == EventRow(r, e) IN
                             row.managerEarnings + row.adminEarnings - row.totalSales
                                 \in -row.totalConfirmedBookings .. row.totalConfirmedBookings
                      /\ \A m \in Managers :
                             LET row == AdminManagerReport(r, m)
                                 cents == Cardinality(BookingsOf(r.booking, OfManager(r.event, m), "Confirmed"))
                             IN  row.managerEarnings + row.adminEarnings - row.totalRevenue \in -cents .. cents
    BY DEF RowsAddUp
  <2>1. \A es : BookingsOf(r.booking, es, "Confirmed") \in SUBSET DOMAIN r.booking.booking
    BY DEF BookingsOf
  <2>2. \A bs \in SUBSET DOMAIN r.booking.booking :
            Earnings(r.split, bs, "Manager") + Earnings(r.split, bs, "Admin")
            - TotalSales(r.booking, bs) \in -Cardinality(bs)..Cardinality(bs)
    BY ReadsInOrder, EarningsWithinCents
  <2>3. ASSUME NEW e \in DOMAIN r.event.event
        PROVE  EventRow(r, e).managerEarnings + EventRow(r, e).adminEarnings - EventRow(r, e).totalSales
                   \in -EventRow(r, e).totalConfirmedBookings .. EventRow(r, e).totalConfirmedBookings
    <3> DEFINE bs == BookingsOf(r.booking, {e}, "Confirmed")
    <3>1. /\ EventRow(r, e).managerEarnings = Earnings(r.split, bs, "Manager")
          /\ EventRow(r, e).adminEarnings = Earnings(r.split, bs, "Admin")
          /\ EventRow(r, e).totalSales = TotalSales(r.booking, bs)
          /\ EventRow(r, e).totalConfirmedBookings = Cardinality(bs)
      BY DEF EventRow
    <3> HIDE DEF bs
    <3>2. bs \in SUBSET DOMAIN r.booking.booking
      BY <2>1 DEF bs
    <3>3. QED BY <2>2, <3>1, <3>2
  <2>4. ASSUME NEW m \in Managers
        PROVE  LET row == AdminManagerReport(r, m)
                   cents == Cardinality(BookingsOf(r.booking, OfManager(r.event, m), "Confirmed"))
               IN  row.managerEarnings + row.adminEarnings - row.totalRevenue \in -cents .. cents
    <3> DEFINE bs == BookingsOf(r.booking, OfManager(r.event, m), "Confirmed")
               row == AdminManagerReport(r, m)
    <3>1. /\ row.managerEarnings = Earnings(r.split, bs, "Manager")
          /\ row.adminEarnings = Earnings(r.split, bs, "Admin")
          /\ row.totalRevenue = TotalSales(r.booking, bs)
      BY DEF AdminManagerReport
    <3>2. bs \in SUBSET DOMAIN r.booking.booking
      BY <2>1
    <3>3. row.managerEarnings + row.adminEarnings - row.totalRevenue \in -Cardinality(bs)..Cardinality(bs)
      <4> HIDE DEF bs, row
      <4> QED BY <2>2, <3>1, <3>2
    <3>4. QED BY <3>3
  <2>5. QED BY <2>3, <2>4
<1>2. QED BY ReportingInvariant, <1>1, PTL

-----------------------------------------------------------------------------
(* Sums of a report and the sums of the rows it lists.                     *)

\* What splits add up to is a whole number of cents.
LEMMA EarningsType ==
    ASSUME NEW u \in Tables, NEW bs, NEW splitType
    PROVE  /\ Earnings(u, bs, splitType) \in Int
           /\ IsFiniteSet(SplitsOf(u, bs, splitType))
<1> DEFINE ss == SplitsOf(u, bs, splitType)
           c  == [s \in ss |-> u.split[s].amount]
<1>1. ss \in SUBSET DOMAIN u.split
  BY DEF SplitsOf
<1>2. IsFiniteSet(ss)
  BY <1>1, FiniteTables, FS_Subset
<1>3. c \in [ss -> Int]
  BY <1>1, ColumnTypes
<1> HIDE DEF c, ss
<1>4. Total(c) \in Int
  BY <1>2, <1>3, TotalType
<1>5. QED BY <1>2, <1>4 DEF Earnings, c, ss

\* The earnings of the parts that bookings fall into add up to those of all.
LEMMA EarningsOfParts ==
    ASSUME NEW u \in Tables, NEW bs, NEW E, IsFiniteSet(E), NEW B, Parts(B, E, bs), NEW splitType
    PROVE  /\ [e \in E |-> Earnings(u, B[e], splitType)] \in [E -> Int]
           /\ Total([e \in E |-> Earnings(u, B[e], splitType)]) = Earnings(u, bs, splitType)
<1> DEFINE D == SplitsOf(u, bs, splitType)
           P == [e \in E |-> SplitsOf(u, B[e], splitType)]
           c == [s \in D |-> u.split[s].amount]
           t == [e \in E |-> Earnings(u, B[e], splitType)]
<1>1. t \in [E -> Int]
  BY EarningsType
<1>2. IsFiniteSet(D)
  BY EarningsType
<1>3. D \subseteq DOMAIN u.split
  BY DEF SplitsOf
<1>4. c \in [D -> Int]
  BY <1>3, ColumnTypes
<1>5. Parts(P, E, D)
  <2>1. /\ B \in [E -> SUBSET bs]
        /\ \A b \in bs : \E e \in E : b \in B[e]
        /\ \A e, f \in E : B[e] \cap B[f] # {} => e = f
    BY DEF Parts
  <2>2. \A e \in E : P[e] \subseteq D
    BY <2>1 DEF SplitsOf
  <2>3. \A s \in D : \E e \in E : s \in P[e]
    BY <2>1 DEF SplitsOf
  <2>4. \A e, f \in E : P[e] \cap P[f] # {} => e = f
    BY <2>1 DEF SplitsOf
  <2>5. P \in [E -> SUBSET D]
    BY <2>2
  <2> HIDE DEF P, D
  <2>6. QED BY <2>3, <2>4, <2>5 DEF Parts
<1>6. PartTotals(t, P, E, c)
  <2> SUFFICES ASSUME NEW e \in E PROVE t[e] = Total([s \in P[e] |-> c[s]])
    BY DEF PartTotals
  <2>1. P[e] \subseteq D /\ P[e] = SplitsOf(u, B[e], splitType)
    BY <1>5 DEF Parts
  <2>2. [s \in P[e] |-> c[s]] = [s \in SplitsOf(u, B[e], splitType) |-> u.split[s].amount]
    BY <2>1
  <2>3. t[e] = Earnings(u, B[e], splitType)
    OBVIOUS
  <2> HIDE DEF c, P, D
  <2>4. QED BY <2>2, <2>3 DEF Earnings
<1> HIDE DEF D, P, c, t
<1>7. Total(t) = Total(c)
  BY <1>1, <1>2, <1>4, <1>5, <1>6, TotalOfParts
<1>8. QED BY <1>1, <1>7 DEF Earnings, c, D, t

\* The bookings of events are those of each of them.
LEMMA BookingsByEvent ==
    ASSUME NEW t, NEW es, NEW status
    PROVE  Parts([e \in es |-> BookingsOf(t, {e}, status)], es, BookingsOf(t, es, status))
BY DEF Parts, BookingsOf

\* What each event earns.
EarningsColumn(t, u, es, splitType) ==
    [e \in es |-> Earnings(u, BookingsOf(t, {e}, "Confirmed"), splitType)]

\* What events earn is the sum over the events.
LEMMA EarningsByEvent ==
    ASSUME NEW t, NEW u \in Tables, NEW es, IsFiniteSet(es), NEW splitType
    PROVE  /\ EarningsColumn(t, u, es, splitType) \in [es -> Int]
           /\ Total(EarningsColumn(t, u, es, splitType)) =
                  Earnings(u, BookingsOf(t, es, "Confirmed"), splitType)
<1> DEFINE bs == BookingsOf(t, es, "Confirmed")
           B  == [e \in es |-> BookingsOf(t, {e}, "Confirmed")]
<1>1. Parts(B, es, bs)
  BY BookingsByEvent
<1>2. [e \in es |-> Earnings(u, B[e], splitType)] = EarningsColumn(t, u, es, splitType)
  BY DEF EarningsColumn
<1> HIDE DEF B, bs
<1>3. /\ [e \in es |-> Earnings(u, B[e], splitType)] \in [es -> Int]
      /\ Total([e \in es |-> Earnings(u, B[e], splitType)]) = Earnings(u, bs, splitType)
  BY <1>1, EarningsOfParts
<1>4. QED BY <1>2, <1>3 DEF bs

\* Some splits of the state v, as a column over all of them.
Spread(v, ss) == [s \in DOMAIN v.split |-> IF s \in ss THEN v.split[s].amount ELSE 0]

\* A spread column is one of whole cents.
LEMMA SpreadType ==
    ASSUME NEW v \in Tables, NEW ss
    PROVE  Spread(v, ss) \in [DOMAIN v.split -> Int]
BY ColumnTypes DEF Spread

\* Earnings seen in an earlier state, of the splits of a later one.
LEMMA EarningsSpread ==
    ASSUME NEW u \in Tables, NEW v \in Tables, Continues(u, v), NEW bs, NEW splitType
    PROVE  Earnings(u, bs, splitType) = Total(Spread(v, SplitsOf(u, bs, splitType)))
<1> DEFINE S == SplitsOf(u, bs, splitType)
           T == DOMAIN v.split
           c == [s \in S |-> u.split[s].amount]
           d == Spread(v, S)
<1>1. /\ S \subseteq DOMAIN u.split /\ DOMAIN u.split \subseteq T
      /\ \A s \in DOMAIN u.split : v.split[s] = u.split[s]
  BY TablesShape DEF Continues, SplitsOf
<1>2. IsFiniteSet(T) /\ d \in [T -> Int]
  BY FiniteTables, SpreadType
<1>3. c \in [S -> Int]
  BY <1>1, ColumnTypes
<1>4. /\ S \in SUBSET T
      /\ \A s \in S : d[s] = c[s]
      /\ \A s \in T \ S : d[s] = 0
  BY <1>1 DEF Spread
<1>5. Earnings(u, bs, splitType) = Total(c)
  BY DEF Earnings
<1> HIDE DEF S, T, c, d
<1>6. Total(d) = Total(c)
  BY <1>2, <1>3, <1>4, TotalOfExtension
<1>7. QED BY <1>5, <1>6 DEF d, S

\* The splits of some bookings, the admin's and the manager's.
BothSplits(u, bs) == SplitsOf(u, bs, "Admin") \cup SplitsOf(u, bs, "Manager")

\* Together the two earnings are those of the splits of both types.
LEMMA BothEarnings ==
    ASSUME NEW u \in Tables, NEW v \in Tables, Continues(u, v), NEW bs
    PROVE  /\ Earnings(u, bs, "Admin") \in Int /\ Earnings(u, bs, "Manager") \in Int
           /\ Earnings(u, bs, "Admin") + Earnings(u, bs, "Manager")
                  = Total(Spread(v, BothSplits(u, bs)))
<1> DEFINE S1 == SplitsOf(u, bs, "Admin")
           S2 == SplitsOf(u, bs, "Manager")
           T  == DOMAIN v.split
           c1 == Spread(v, S1)
           c2 == Spread(v, S2)
           c  == Spread(v, S1 \cup S2)
<1>1. S1 \cap S2 = {}
  BY DEF SplitsOf
<1>2. IsFiniteSet(T) /\ c1 \in [T -> Int] /\ c2 \in [T -> Int] /\ c \in [T -> Int]
  BY FiniteTables, SpreadType
<1>3. IsSum(c, c1, c2)
  <2> SUFFICES ASSUME NEW s \in T PROVE c[s] = c1[s] + c2[s]
    BY DEF IsSum, Spread
  <2>1. v.split[s].amount \in Int
    BY ColumnTypes
  <2> HIDE DEF S1, S2
  <2>2. QED BY <1>1, <2>1 DEF Spread
<1>4. Earnings(u, bs, "Admin") = Total(c1) /\ Earnings(u, bs, "Manager") = Total(c2)
  BY EarningsSpread
<1>5. c = Spread(v, BothSplits(u, bs))
  BY DEF BothSplits
<1> HIDE DEF S1, S2, T, c1, c2, c
<1>6. Total(c1) \in Int /\ Total(c2) \in Int /\ Total(c) = Total(c1) + Total(c2)
  BY <1>2, <1>3, TotalOfSum
<1>7. QED BY <1>4, <1>5, <1>6

\* The size of each split of v that is not in the set base.
SizesBeyond(v, base) == [s \in DOMAIN v.split \ base |-> Size(v.split[s].amount)]

\* What two sets of splits add up to differs by no more than the size of the
\* splits that are not in both for certain.
LEMMA SumsApart ==
    ASSUME NEW v \in Tables, NEW base \in SUBSET DOMAIN v.split,
           NEW A, base \subseteq A, NEW L, base \subseteq L,
           NEW w, w = SizesBeyond(v, base)
    PROVE  /\ Total(Spread(v, A)) \in Int /\ Total(Spread(v, L)) \in Int /\ Total(w) \in Int
           /\ Total(Spread(v, A)) - Total(Spread(v, L)) \in -Total(w)..Total(w)
<1> DEFINE T == DOMAIN v.split
           a == Spread(v, A)
           l == Spread(v, L)
           x == [s \in T |-> IF s \in base THEN 0 ELSE Size(v.split[s].amount)]
           ax == [s \in T |-> a[s] + x[s]]
           lx == [s \in T |-> l[s] + x[s]]
<1>1. IsFiniteSet(T) /\ a \in [T -> Int] /\ l \in [T -> Int]
  BY FiniteTables, SpreadType
<1>2. \A s \in T : /\ v.split[s].amount \in Int
                   /\ Size(v.split[s].amount) \in Nat
                   /\ v.split[s].amount <= Size(v.split[s].amount)
                   /\ -v.split[s].amount <= Size(v.split[s].amount)
  BY ColumnTypes DEF Size
<1>3. x \in [T -> Int] /\ w \in [T \ base -> Int]
  BY <1>2 DEF SizesBeyond
<1>4. \A s \in T : a[s] <= l[s] + x[s] /\ l[s] <= a[s] + x[s]
  <2> SUFFICES ASSUME NEW s \in T PROVE a[s] <= l[s] + x[s] /\ l[s] <= a[s] + x[s]
    OBVIOUS
  <2>1. PICK n \in Int, k \in Nat : /\ n = v.split[s].amount /\ k = Size(v.split[s].amount)
                                    /\ n <= k /\ -n <= k
    BY <1>2
  <2>2. CASE s \in base
    <3>1. a[s] = n /\ l[s] = n /\ x[s] = 0
      BY <2>1, <2>2 DEF Spread
    <3> HIDE DEF a, l, x
    <3>2. QED BY <2>1, <3>1
  <2>3. CASE s \notin base
    <3>1. x[s] = k /\ (a[s] = n \/ a[s] = 0) /\ (l[s] = n \/ l[s] = 0)
      BY <2>1, <2>3 DEF Spread
    <3> HIDE DEF a, l, x
    <3>2. QED BY <2>1, <3>1
  <2>4. QED BY <2>2, <2>3
<1>5. ax \in [T -> Int] /\ lx \in [T -> Int] /\ IsSum(ax, a, x) /\ IsSum(lx, l, x)
  <2> HIDE DEF a, l, x
  <2> QED BY <1>1, <1>3 DEF IsSum
<1>6. \A s \in T : a[s] <= lx[s] /\ l[s] <= ax[s]
  <2> HIDE DEF a, l, x
  <2> QED BY <1>4
<1>7. /\ T \ base \in SUBSET T
      /\ \A s \in T \ base : x[s] = w[s]
      /\ \A s \in T \ (T \ base) : x[s] = 0
  BY DEF SizesBeyond
<1> HIDE DEF T, a, l, x, ax, lx
<1>8. Total(x) = Total(w)
  <2> DEFINE R == T \ base
  <2>1. /\ IsFiniteSet(T) /\ R \in SUBSET T
        /\ w \in [R -> Int] /\ x \in [T -> Int]
        /\ \A s \in R : x[s] = w[s]
        /\ \A s \in T \ R : x[s] = 0
    BY <1>1, <1>3, <1>7
  <2> HIDE DEF R
  <2>2. QED BY <2>1, TotalOfExtension
<1>9. Total(ax) = Total(a) + Total(x) /\ Total(lx) = Total(l) + Total(x)
  BY <1>1, <1>3, <1>5, TotalOfSum
<1>10. /\ Total(a) \in Int /\ Total(l) \in Int /\ Total(x) \in Int
       /\ Total(a) <= Total(lx) /\ Total(l) <= Total(ax)
  BY <1>1, <1>3, <1>5, <1>6, TotalMonotone, TotalType
<1> DEFINE ta == Total(a)
           tl == Total(l)
           tx == Total(x)
<1>11. ta \in Int /\ tl \in Int /\ tx \in Int /\ ta <= tl + tx /\ tl <= ta + tx
  BY <1>9, <1>10
<1> HIDE DEF ta, tl, tx
<1>12. ta - tl \in -tx..tx
  BY <1>11
<1>13. QED BY <1>8, <1>11, <1>12 DEF ta, tl, tx, a, l

\* Splits of an earlier state are among those of its bookings in a later one.
LEMMA EarlierSplits ==
    ASSUME NEW t \in Tables, Consistent(t), NEW u \in Tables, Continues(t, u),
           NEW bs, DOMAIN t.booking \subseteq bs
    PROVE  DOMAIN t.split \subseteq BothSplits(u, bs)
<1> SUFFICES ASSUME NEW s \in DOMAIN t.split PROVE s \in BothSplits(u, bs)
  OBVIOUS
<1>1. s \in DOMAIN u.split /\ u.split[s] = t.split[s]
  BY TablesShape DEF Continues
<1>2. t.split[s].bookingId \in bs /\ t.split[s].splitType \in {"Admin", "Manager"}
  BY SplitsAreOfBookings, ColumnTypes
<1>3. QED BY <1>1, <1>2 DEF BothSplits, SplitsOf

\* The list by event of the admin's dashboard, long enough for all events, has
\* the bookings made before the report was asked for.
LEMMA AllAreListed ==
    ASSUME ReportingInv, Len(event) <= RECENT, NEW r \in IncludeReads
    PROVE  DOMAIN past[1].booking \subseteq BookingsOf(r.booking, Recent(r.event), "Confirmed")
<1> DEFINE t == past[1]
           bs == BookingsOf(r.booking, Recent(r.event), "Confirmed")
<1>1. /\ Len(past) \in Nat /\ DOMAIN past = 1..Len(past) /\ Len(past) >= 1
      /\ \A i \in DOMAIN past : past[i] \in Tables
  BY TableShape DEF ReportingInv
<1>2. /\ 1 \in DOMAIN past /\ Len(past) \in DOMAIN past
  BY <1>1
<1>3. t \in Tables /\ Consistent(t) /\ Now \in Tables /\ Now.event = event
  BY <1>1, <1>2 DEF ReportingInv, Now
<1>4. /\ r.event \in Tables /\ r.booking \in Tables /\ r.split \in Tables
      /\ Continues(t, r.event) /\ Continues(t, r.booking)
      /\ Continues(r.event, r.booking) /\ Continues(r.booking, r.split)
      /\ Continues(r.split, Now)
  BY ReadsInOrder
<1> HIDE DEF t
<1>5. Continues(r.event, Now)
  <2>1. Continues(r.booking, Now)
    BY <1>3, <1>4, ContinuesTransitive
  <2>2. QED BY <1>3, <1>4, <2>1, ContinuesTransitive
<1>6. Recent(r.event) = DOMAIN r.event.event
  <2>1. Len(r.event.event) \in Nat /\ DOMAIN r.event.event = 1..Len(r.event.event)
    BY <1>4, TablesShape
  <2>2. Len(r.event.event) <= Len(event) /\ Len(event) \in Nat
    BY <1>3, <1>4, <1>5, TablesShape DEF Continues
  <2>3. \A e \in DOMAIN r.event.event : e > Len(r.event.event) - RECENT
    BY <2>1, <2>2, ReportingAssumption
  <2>4. QED BY <2>3 DEF Recent
<1>7. bs = {b \in DOMAIN r.booking.booking : r.booking.booking[b].eventId \in DOMAIN r.event.event}
  BY <1>4, <1>6, AllConfirmed
<1>8. DOMAIN t.booking \subseteq bs
  <2>1. /\ DOMAIN t.booking \subseteq DOMAIN r.booking.booking
        /\ \A b \in DOMAIN t.booking : r.booking.booking[b] = t.booking[b]
    BY <1>3, <1>4, TablesShape DEF Continues
  <2>2. DOMAIN t.event \subseteq DOMAIN r.event.event
    BY <1>3, <1>4, TablesShape DEF Continues
  <2>3. QED BY <1>3, <1>7, <2>1, <2>2 DEF Consistent
<1>9. QED BY <1>8 DEF t, bs

\* DashboardOffBySalesMeanwhile: with no more events than the admin's dashboard
\* lists, its sum of the revenue and the sum of its list differ by no more than
\* was paid and paid back while the report ran.
THEOREM DashboardOffByLittle == RSpec => []DashboardOffBySalesMeanwhile
<1>1. ReportingInv => DashboardOffBySalesMeanwhile
  <2> DEFINE meanwhile == Total(SplitsMeanwhile)
             D(r, i) == AdminDashboardReport([j \in 1..8 |-> past[i]], r)
             Listed(r, i) == Total([e \in DOMAIN D(r, i).eventWiseReport |->
                                       D(r, i).eventWiseReport[e].adminEarnings
                                       + D(r, i).eventWiseReport[e].managerEarnings])
  <2> SUFFICES ASSUME ReportingInv, Len(event) <= RECENT,
                      NEW r \in IncludeReads, NEW i \in DOMAIN past
               PROVE  D(r, i).totalRevenue - Listed(r, i) \in -meanwhile .. meanwhile
    BY DEF DashboardOffBySalesMeanwhile
  <2>1. /\ Len(past) \in Nat /\ DOMAIN past = 1..Len(past) /\ Len(past) >= 1
        /\ \A k \in DOMAIN past : past[k] \in Tables
    BY TableShape DEF ReportingInv
  <2>2. 1 \in DOMAIN past /\ Len(past) \in DOMAIN past /\ 1 <= i /\ i <= Len(past)
    BY <2>1
  <2>3. /\ past[1] \in Tables /\ Consistent(past[1])
        /\ past[i] \in Tables /\ Consistent(past[i])
        /\ Now \in Tables /\ Now.split = split
        /\ Continues(past[1], past[i]) /\ Continues(past[i], Now) /\ Continues(past[1], Now)
    BY <2>1, <2>2 DEF ReportingInv, Now
  <2>4. /\ r.event \in Tables /\ r.split \in Tables /\ Continues(r.split, Now)
        /\ Continues(past[1], r.split)
    <3>1. /\ r.event \in Tables /\ r.booking \in Tables /\ r.split \in Tables
          /\ Continues(past[1], r.booking) /\ Continues(r.booking, r.split)
          /\ Continues(r.split, Now)
      BY ReadsInOrder
    <3>2. QED BY <2>3, <3>1, ContinuesTransitive
  <2> DEFINE es == Recent(r.event)
             bs == BookingsOf(r.booking, es, "Confirmed")
             a == EarningsColumn(r.booking, r.split, es, "Admin")
             m == EarningsColumn(r.booking, r.split, es, "Manager")
             s == [e \in es |-> EventRow(r, e).adminEarnings + EventRow(r, e).managerEarnings]
  \* The sum of the list is what the splits of the bookings listed add up to.
  <2>5. \A e : /\ EventRow(r, e).adminEarnings =
                      Earnings(r.split, BookingsOf(r.booking, {e}, "Confirmed"), "Admin")
               /\ EventRow(r, e).managerEarnings =
                      Earnings(r.split, BookingsOf(r.booking, {e}, "Confirmed"), "Manager")
    BY DEF EventRow
  <2>6. IsFiniteSet(es)
    <3>1. es \subseteq DOMAIN r.event.event
      BY DEF Recent
    <3>2. QED BY <2>4, <3>1, FiniteTables, FS_Subset
  <2>7. /\ a \in [es -> Int] /\ Total(a) = Earnings(r.split, bs, "Admin")
        /\ m \in [es -> Int] /\ Total(m) = Earnings(r.split, bs, "Manager")
    BY <2>4, <2>6, EarningsByEvent
  <2>8. s \in [es -> Int] /\ IsSum(s, a, m)
    <3>1. \A e \in es : s[e] = a[e] + m[e] /\ a[e] \in Int /\ m[e] \in Int
      BY <2>5, <2>7 DEF EarningsColumn
    <3>2. s = [e \in es |-> s[e]]
      OBVIOUS
    <3> HIDE DEF s, a, m
    <3>3. QED BY <3>1, <3>2 DEF IsSum
  <2>9. Listed(r, i) = Total(s)
    <3>1. D(r, i).eventWiseReport = [e \in es |-> EventRow(r, e)]
      BY DEF AdminDashboardReport
    <3> HIDE DEF D
    <3>2. DOMAIN D(r, i).eventWiseReport = es
      BY <3>1
    <3>3. [e \in DOMAIN D(r, i).eventWiseReport |->
              D(r, i).eventWiseReport[e].adminEarnings + D(r, i).eventWiseReport[e].managerEarnings] = s
      BY <3>1, <3>2
    <3>4. QED BY <3>3
  <2>10. Listed(r, i) = Total(Spread(Now, BothSplits(r.split, bs)))
    <3> HIDE DEF a, m, s, es, bs, Listed
    <3>1. Total(s) = Total(a) + Total(m)
      BY <2>6, <2>7, <2>8, TotalOfSum
    <3>2. Earnings(r.split, bs, "Admin") + Earnings(r.split, bs, "Manager")
              = Total(Spread(Now, BothSplits(r.split, bs)))
      BY <2>3, <2>4, BothEarnings
    <3>3. QED BY <2>7, <2>9, <3>1, <3>2
  \* So is the sum of all revenue, of the bookings at its own moment.
  <2> DEFINE all == DOMAIN past[i].booking
  <2>11. D(r, i).totalRevenue = Total(Spread(Now, BothSplits(past[i], all)))
    <3>1. BookingsOf(past[i], DOMAIN past[i].event, "Confirmed") = all
      BY <2>3, AllAreOfEvents
    <3>2. D(r, i).totalRevenue =
              Earnings(past[i], BookingsOf(past[i], DOMAIN past[i].event, "Confirmed"), "Admin")
              + Earnings(past[i], BookingsOf(past[i], DOMAIN past[i].event, "Confirmed"), "Manager")
      BY DEF AdminDashboardReport
    <3> HIDE DEF D, all
    <3>3. Earnings(past[i], all, "Admin") + Earnings(past[i], all, "Manager")
              = Total(Spread(Now, BothSplits(past[i], all)))
      BY <2>3, BothEarnings
    <3>4. QED BY <3>1, <3>2, <3>3
  \* Both have the splits there were when the report was asked for.
  <2>12. DOMAIN past[1].split \subseteq BothSplits(past[i], all)
    <3>1. DOMAIN past[1].booking \subseteq all
      BY <2>3, TablesShape DEF Continues
    <3>2. QED BY <2>3, <3>1, EarlierSplits
  <2>13. DOMAIN past[1].split \subseteq BothSplits(r.split, bs)
    <3>1. DOMAIN past[1].booking \subseteq bs
      BY AllAreListed
    <3> HIDE DEF bs
    <3>2. QED BY <2>3, <2>4, <3>1, EarlierSplits
  <2>14. DOMAIN past[1].split \in SUBSET DOMAIN Now.split
    BY <2>3, TablesShape DEF Continues
  <2>15. SplitsMeanwhile = SizesBeyond(Now, DOMAIN past[1].split)
    BY <2>3 DEF SplitsMeanwhile, SizesBeyond
  <2> HIDE DEF D, Listed, bs, all
  <2>16. Total(Spread(Now, BothSplits(past[i], all))) - Total(Spread(Now, BothSplits(r.split, bs)))
             \in -meanwhile..meanwhile
    BY <2>3, <2>12, <2>13, <2>14, <2>15, SumsApart
  <2>17. QED BY <2>10, <2>11, <2>16
<1>2. QED BY ReportingInvariant, <1>1, PTL

-----------------------------------------------------------------------------
(* Reports of one state.                                                   *)

\* Tickets of parts.
LEMMA TicketsOfParts ==
    ASSUME NEW t \in Tables, NEW bs \in SUBSET DOMAIN t.booking,
           NEW E, IsFiniteSet(E), NEW B, Parts(B, E, bs)
    PROVE  /\ [e \in E |-> Tickets(t, B[e])] \in [E -> Int]
           /\ Total([e \in E |-> Tickets(t, B[e])]) = Tickets(t, bs)
<1> DEFINE c == [b \in bs |-> t.booking[b].quantity]
           k == [e \in E |-> Tickets(t, B[e])]
<1>1. \A e \in E : B[e] \subseteq bs
  BY DEF Parts
<1>2. k \in [E -> Int]
  BY <1>1, TicketsType
<1>3. IsFiniteSet(bs) /\ c \in [bs -> Int]
  BY FiniteTables, FS_Subset, ColumnTypes
<1>4. PartTotals(k, B, E, c)
  <2> SUFFICES ASSUME NEW e \in E PROVE k[e] = Total([b \in B[e] |-> c[b]])
    BY DEF PartTotals
  <2>1. [b \in B[e] |-> c[b]] = [b \in B[e] |-> t.booking[b].quantity]
    BY <1>1
  <2>2. k[e] = Tickets(t, B[e])
    OBVIOUS
  <2> HIDE DEF c, k
  <2>3. QED BY <2>1, <2>2 DEF Tickets
<1> HIDE DEF c, k
<1>5. Total(k) = Total(c)
  BY <1>2, <1>3, <1>4, TotalOfParts
<1>6. QED BY <1>2, <1>5 DEF Tickets, c, k

\* Sales of parts.
LEMMA SalesOfParts ==
    ASSUME NEW t \in Tables, NEW bs \in SUBSET DOMAIN t.booking,
           NEW E, IsFiniteSet(E), NEW B, Parts(B, E, bs)
    PROVE  Total([e \in E |-> TotalSales(t, B[e])]) = TotalSales(t, bs)
<1> DEFINE c == [b \in bs |-> t.booking[b].total]
           k == [e \in E |-> TotalSales(t, B[e])]
<1>1. B \in [E -> SUBSET bs] /\ \A e \in E : B[e] \subseteq bs
  BY DEF Parts
<1>2. k \in [E -> Int]
  <2> SUFFICES ASSUME NEW e \in E PROVE TotalSales(t, B[e]) \in Int
    OBVIOUS
  <2> DEFINE ps == B[e]
             d == [b \in ps |-> t.booking[b].total]
  <2>1. IsFiniteSet(ps) /\ d \in [ps -> Int]
    BY <1>1, FiniteTables, FS_Subset, ColumnTypes
  <2>2. Total(d) \in Int
    <3> HIDE DEF d, ps
    <3> QED BY <2>1, TotalType
  <2>3. QED BY <2>2 DEF TotalSales
<1>3. IsFiniteSet(bs) /\ c \in [bs -> Int]
  BY FiniteTables, FS_Subset, ColumnTypes
<1>4. PartTotals(k, B, E, c)
  <2> SUFFICES ASSUME NEW e \in E PROVE k[e] = Total([b \in B[e] |-> c[b]])
    BY DEF PartTotals
  <2>1. [b \in B[e] |-> c[b]] = [b \in B[e] |-> t.booking[b].total]
    BY <1>1
  <2>2. k[e] = TotalSales(t, B[e])
    OBVIOUS
  <2> HIDE DEF c, k
  <2>3. QED BY <2>1, <2>2 DEF TotalSales
<1> HIDE DEF c, k
<1>5. Total(k) = Total(c)
  BY <1>2, <1>3, <1>4, TotalOfParts
<1>6. QED BY <1>5 DEF TotalSales, c, k

\* The seats booked of events, by event and in parts.
LEMMA BookedOfParts ==
    ASSUME NEW t \in Tables, NEW es \in SUBSET DOMAIN t.event,
           NEW E, IsFiniteSet(E), NEW P, Parts(P, E, es)
    PROVE  Total([m \in E |-> Booked(t, P[m])]) = Booked(t, es)
<1> DEFINE c == [e \in es |-> t.event[e].bookedSeats]
           k == [m \in E |-> Booked(t, P[m])]
<1>1. \A m \in E : P[m] \subseteq es
  BY DEF Parts
<1>2. k \in [E -> Int]
  <2> SUFFICES ASSUME NEW m \in E PROVE Booked(t, P[m]) \in Int
    OBVIOUS
  <2> DEFINE ps == P[m]
             d == [e \in ps |-> t.event[e].bookedSeats]
  <2>1. IsFiniteSet(ps) /\ d \in [ps -> Int]
    BY <1>1, FiniteTables, FS_Subset, ColumnTypes
  <2>2. Total(d) \in Int
    <3> HIDE DEF d, ps
    <3> QED BY <2>1, TotalType
  <2>3. QED BY <2>2 DEF Booked
<1>3. IsFiniteSet(es) /\ c \in [es -> Int]
  BY FiniteTables, FS_Subset, ColumnTypes
<1>4. PartTotals(k, P, E, c)
  <2> SUFFICES ASSUME NEW m \in E PROVE k[m] = Total([e \in P[m] |-> c[e]])
    BY DEF PartTotals
  <2>1. [e \in P[m] |-> c[e]] = [e \in P[m] |-> t.event[e].bookedSeats]
    BY <1>1
  <2>2. k[m] = Booked(t, P[m])
    OBVIOUS
  <2> HIDE DEF c, k
  <2>3. QED BY <2>1, <2>2 DEF Booked
<1> HIDE DEF c, k
<1>5. Total(k) = Total(c)
  BY <1>2, <1>3, <1>4, TotalOfParts
<1>6. QED BY <1>5 DEF Booked, c, k

\* Rows counted in parts.
LEMMA RowsOfParts ==
    ASSUME NEW D, IsFiniteSet(D), NEW E, IsFiniteSet(E), NEW P, Parts(P, E, D)
    PROVE  Total([m \in E |-> Cardinality(P[m])]) = Cardinality(D)
<1> DEFINE c == [x \in D |-> 1]
           k == [m \in E |-> Cardinality(P[m])]
<1>1. \A m \in E : P[m] \subseteq D /\ IsFiniteSet(P[m])
  BY FS_Subset DEF Parts
<1>2. k \in [E -> Int]
  BY <1>1, FS_CardinalityType
<1>3. c \in [D -> Nat] /\ c \in [D -> Int] /\ \A x \in D : c[x] = 1
  OBVIOUS
<1>4. PartTotals(k, P, E, c)
  <2> SUFFICES ASSUME NEW m \in E PROVE k[m] = Total([x \in P[m] |-> c[x]])
    BY DEF PartTotals
  <2> DEFINE ps == P[m]
             d == [x \in ps |-> c[x]]
  <2>1. IsFiniteSet(ps) /\ d \in [ps -> Nat] /\ \A x \in ps : d[x] = 1
    BY <1>1
  <2>2. k[m] = Cardinality(ps)
    OBVIOUS
  <2>3. Total(d) = Cardinality(ps)
    <3> HIDE DEF d, ps
    <3> QED BY <2>1, TotalOfOnes
  <2>4. QED BY <2>2, <2>3
<1> HIDE DEF c, k
<1>5. Total(k) = Total(c)
  BY <1>2, <1>3, <1>4, TotalOfParts
<1>6. Total(c) = Cardinality(D)
  BY <1>3, TotalOfOnes
<1>7. QED BY <1>5, <1>6 DEF k

\* The seats booked are the tickets sold, for any events.
LEMMA BookedAreSold ==
    ASSUME NEW t \in Tables, Consistent(t), NEW es \in SUBSET DOMAIN t.event
    PROVE  Booked(t, es) = Tickets(t, BookingsOf(t, es, "Confirmed"))
<1> DEFINE bs == BookingsOf(t, es, "Confirmed")
           B  == [e \in es |-> BookingsOf(t, {e}, "Confirmed")]
<1>1. Parts(B, es, bs)
  BY BookingsByEvent
<1>2. bs \in SUBSET DOMAIN t.booking
  BY DEF BookingsOf
<1>3. [e \in es |-> t.event[e].bookedSeats] = [e \in es |-> Tickets(t, B[e])]
  BY DEF Consistent
<1>4. IsFiniteSet(es)
  BY FiniteTables, FS_Subset
<1> HIDE DEF B, bs
<1>5. Total([e \in es |-> Tickets(t, B[e])]) = Tickets(t, bs)
  BY <1>1, <1>2, <1>4, TicketsOfParts
<1>6. QED BY <1>3, <1>5 DEF Booked, bs

\* What is left of one column after another, by row and in total.
LEMMA TotalOfRest ==
    ASSUME NEW S, IsFiniteSet(S), NEW a \in [S -> Int], NEW b \in [S -> Int],
           NEW d, d = [x \in S |-> a[x] - b[x]]
    PROVE  Total(d) = Total(a) - Total(b)
<1>1. d \in [S -> Int] /\ IsSum(a, b, d)
  BY DEF IsSum
<1>2. Total(b) \in Int /\ Total(d) \in Int /\ Total(a) = Total(b) + Total(d)
  BY <1>1, TotalOfSum
<1>3. QED BY <1>2

\* An event is Active, Suspended or Completed.
LEMMA CountByStatus ==
    ASSUME NEW t \in Tables
    PROVE  LET count(status) == Cardinality(WithStatus(t, DOMAIN t.event, status))
           IN  Len(t.event) = count("Active") + count("Suspended") + count("Completed")
<1> DEFINE all == DOMAIN t.event
           active == WithStatus(t, all, "Active")
           suspended == WithStatus(t, all, "Suspended")
           completed == WithStatus(t, all, "Completed")
<1>1. IsFiniteSet(all) /\ Cardinality(all) = Len(t.event)
  <2>1. Len(t.event) \in Nat /\ all = 1..Len(t.event)
    BY TablesShape
  <2>2. QED BY <2>1, FS_Interval
<1>2. active \subseteq all /\ suspended \subseteq all /\ completed \subseteq all
  BY DEF WithStatus
<1>3. /\ all = (active \cup suspended) \cup completed
      /\ active \cap suspended = {} /\ (active \cup suspended) \cap completed = {}
  BY ColumnTypes DEF WithStatus, EventStatus
<1> HIDE DEF all, active, suspended, completed
<1>4. /\ IsFiniteSet(active) /\ Cardinality(active) \in Nat
      /\ IsFiniteSet(suspended) /\ Cardinality(suspended) \in Nat
      /\ IsFiniteSet(completed) /\ Cardinality(completed) \in Nat
  BY <1>1, <1>2, FS_Subset, FS_CardinalityType
<1>5. /\ IsFiniteSet(active \cup suspended)
      /\ Cardinality(active \cup suspended) = Cardinality(active) + Cardinality(suspended) - Cardinality({})
  BY <1>3, <1>4, FS_Union
<1>6. Cardinality(all) = Cardinality(active \cup suspended) + Cardinality(completed) - Cardinality({})
  BY <1>3, <1>4, <1>5, FS_Union
<1>7. Cardinality(all) = Cardinality(active) + Cardinality(suspended) + Cardinality(completed)
  BY <1>4, <1>5, <1>6, FS_EmptySet
<1>8. QED BY <1>1, <1>7 DEF all, active, suspended, completed

\* The events of the managers that have any are all events, and so are their
\* bookings.
LEMMA EventsByManager ==
    ASSUME NEW t, NEW managers, {t.event[e].managerId : e \in DOMAIN t.event} \subseteq managers
    PROVE  /\ Parts([m \in managers |-> OfManager(t, m)], managers, DOMAIN t.event)
           /\ Parts([m \in managers |-> BookingsOf(t, OfManager(t, m), "Confirmed")], managers,
                    BookingsOf(t, DOMAIN t.event, "Confirmed"))
<1>1. \A e \in DOMAIN t.event : t.event[e].managerId \in managers
  OBVIOUS
<1>2. Parts([m \in managers |-> OfManager(t, m)], managers, DOMAIN t.event)
  BY <1>1 DEF Parts, OfManager
<1> DEFINE B == [m \in managers |-> BookingsOf(t, OfManager(t, m), "Confirmed")]
           bs == BookingsOf(t, DOMAIN t.event, "Confirmed")
<1>3. /\ B \in [managers -> SUBSET bs]
      /\ \A b \in bs : \E m \in managers : b \in B[m]
      /\ \A m, n \in managers : B[m] \cap B[n] # {} => m = n
  BY <1>1 DEF BookingsOf, OfManager
<1> HIDE DEF B, bs
<1>4. Parts(B, managers, bs)
  BY <1>3 DEF Parts
<1>5. QED BY <1>2, <1>4 DEF B, bs

\* A report asked of one state.
LEMMA OneState ==
    /\ Snapshot.event = Now /\ Snapshot.booking = Now /\ Snapshot.split = Now
    /\ \A i \in 1..10 : AtOnce[i] = Now
BY DEF Snapshot, AtOnce

\* The rows, read at one moment.
LEMMA RowsOfOneState ==
    /\ AdminEventWiseReport(Snapshot) = [e \in DOMAIN Now.event |-> EventRow(Snapshot, e)]
    /\ \A m : ManagerEventWiseReport(Snapshot, m) = [e \in OfManager(Now, m) |-> EventRow(Snapshot, e)]
    /\ \A e : /\ EventRow(Snapshot, e).totalSales = TotalSales(Now, BookingsOf(Now, {e}, "Confirmed"))
              /\ EventRow(Snapshot, e).managerEarnings =
                     Earnings(Now, BookingsOf(Now, {e}, "Confirmed"), "Manager")
              /\ EventRow(Snapshot, e).remainingSeats =
                     Now.event[e].totalSeats - Now.event[e].bookedSeats
<1>1. AdminEventWiseReport(Snapshot) = [e \in DOMAIN Now.event |-> EventRow(Snapshot, e)]
  BY OneState DEF AdminEventWiseReport
<1>2. \A m : ManagerEventWiseReport(Snapshot, m) = [e \in OfManager(Now, m) |-> EventRow(Snapshot, e)]
  BY OneState DEF ManagerEventWiseReport
<1>3. \A e : /\ EventRow(Snapshot, e).totalSales = TotalSales(Now, BookingsOf(Now, {e}, "Confirmed"))
             /\ EventRow(Snapshot, e).managerEarnings =
                    Earnings(Now, BookingsOf(Now, {e}, "Confirmed"), "Manager")
             /\ EventRow(Snapshot, e).remainingSeats =
                    Now.event[e].totalSeats - Now.event[e].bookedSeats
  BY OneState DEF EventRow
<1>4. QED BY <1>1, <1>2, <1>3

\* The admin's dashboard, asked of one state.
LEMMA AdminDashboardOfOneState ==
    LET dashboard == AdminDashboardReport(AtOnce, Snapshot)
        count(status) == Cardinality(WithStatus(Now, DOMAIN Now.event, status))
        confirmed == BookingsOf(Now, DOMAIN Now.event, "Confirmed")
    IN  /\ dashboard.totalEvents = Len(Now.event)
        /\ dashboard.activeEvents = count("Active")
        /\ dashboard.suspendedEvents = count("Suspended")
        /\ dashboard.completedEvents = count("Completed")
        /\ dashboard.totalBookings = Tickets(Now, DOMAIN Now.booking)
        /\ dashboard.confirmedBookings = Tickets(Now, confirmed)
        /\ dashboard.pendingBookings = Tickets(Now, BookingsOf(Now, DOMAIN Now.event, "Pending"))
        /\ dashboard.totalAdminRevenue = Earnings(Now, confirmed, "Admin")
        /\ dashboard.totalManagerRevenue = Earnings(Now, confirmed, "Manager")
BY OneState DEF AdminDashboardReport

\* A manager's dashboard, asked of one state.
LEMMA ManagerDashboardOfOneState ==
    ASSUME NEW m
    PROVE  LET own == ManagerDashboardReport(AtOnce, Snapshot, m)
               es  == OfManager(Now, m)
               confirmed == BookingsOf(Now, es, "Confirmed")
           IN  /\ own.totalConfirmedBookings = Tickets(Now, confirmed)
               /\ own.totalSales = TotalSales(Now, confirmed)
               /\ own.managerEarnings = Earnings(Now, confirmed, "Manager")
               /\ own.adminEarnings = Earnings(Now, confirmed, "Admin")
               /\ own.bookedSeats = Booked(Now, es)
               /\ own.remainingSeats = Seats(Now, es) - Booked(Now, es)
               /\ own.totalEstimatedLoss =
                      Total([e \in es |-> EventRow(Snapshot, e).estimatedLoss])
BY OneState DEF ManagerDashboardReport

\* The admin's report of a manager, asked of one state.
LEMMA ManagerReportOfOneState ==
    ASSUME NEW m
    PROVE  LET row == AdminManagerReport(Snapshot, m)
               es  == OfManager(Now, m)
           IN  /\ row.totalEvents = Cardinality(es)
               /\ row.totalBookings = Booked(Now, es)
               /\ row.totalRevenue = TotalSales(Now, BookingsOf(Now, es, "Confirmed"))
BY OneState DEF AdminManagerReport

\* ReportsAgree: asked of one state, the eight reports, each of which selects and
\* adds up for itself, agree.
THEOREM ReportsDoAgree == RSpec => []ReportsAgree
<1>1. ReportingInv => ReportsAgree
  <2> DEFINE t == Now
             es(m) == OfManager(Now, m)
             all == BookingsOf(Now, DOMAIN Now.event, "Confirmed")
             of(m) == BookingsOf(Now, es(m), "Confirmed")
             dashboard == AdminDashboardReport(AtOnce, Snapshot)
             rows == AdminEventWiseReport(Snapshot)
             own(m) == ManagerDashboardReport(AtOnce, Snapshot, m)
             ownRows(m) == ManagerEventWiseReport(Snapshot, m)
             withEvents == {event[e].managerId : e \in DOMAIN event}
  <2> SUFFICES ASSUME ReportingInv PROVE ReportsAgree
    OBVIOUS
  <2>1. /\ Now \in Tables /\ Consistent(Now) /\ Now.event = event
        /\ IsFiniteSet(DOMAIN Now.event) /\ IsFiniteSet(DOMAIN Now.booking)
    <3>1. past \in Seq(Tables) /\ Len(past) >= 1 /\ Now = past[Len(past)]
      BY DEF ReportingInv
    <3>2. Len(past) \in DOMAIN past /\ Now \in Tables
      BY <3>1, TableShape
    <3>3. Now.event = event
      BY DEF Now
    <3>4. QED BY <3>1, <3>2, <3>3, FiniteTables DEF ReportingInv
  <2>2. /\ all = DOMAIN Now.booking
        /\ BookingsOf(Now, DOMAIN Now.event, "Pending") = {}
        /\ \A m : es(m) \in SUBSET DOMAIN Now.event /\ of(m) \in SUBSET DOMAIN Now.booking
    <3>1. all = DOMAIN Now.booking
      BY <2>1, AllAreOfEvents
    <3>2. BookingsOf(Now, DOMAIN Now.event, "Pending") = {}
      BY <2>1, AllConfirmed
    <3>3. \A m : es(m) \in SUBSET DOMAIN Now.event
      BY DEF OfManager
    <3>4. \A m : of(m) \in SUBSET DOMAIN Now.booking
      BY DEF BookingsOf
    <3>5. QED BY <3>1, <3>2, <3>3, <3>4
  \* The admin's dashboard and the managers' reports.
  <2>3. dashboard.totalEvents =
            dashboard.activeEvents + dashboard.suspendedEvents + dashboard.completedEvents
    BY <2>1, AdminDashboardOfOneState, CountByStatus
  <2>4. ASSUME NEW managers \in {ms \in SUBSET Managers : withEvents \subseteq ms}
        PROVE  /\ dashboard.totalEvents =
                      Total([m \in managers |-> AdminManagerWiseReport(Snapshot, managers)[m].totalEvents])
               /\ dashboard.confirmedBookings =
                      Total([m \in managers |-> AdminManagerWiseReport(Snapshot, managers)[m].totalBookings])
    <3> DEFINE P == [m \in managers |-> es(m)]
               table == AdminManagerWiseReport(Snapshot, managers)
    <3>1. Parts(P, managers, DOMAIN Now.event)
      BY <2>1, EventsByManager
    <3>2. \A m \in managers : /\ P[m] = es(m)
                              /\ table[m].totalEvents = Cardinality(es(m))
                              /\ table[m].totalBookings = Booked(Now, es(m))
      BY ManagerReportOfOneState DEF AdminManagerWiseReport
    <3>3. /\ [m \in managers |-> table[m].totalEvents] = [m \in managers |-> Cardinality(P[m])]
          /\ [m \in managers |-> table[m].totalBookings] = [m \in managers |-> Booked(Now, P[m])]
      <4> HIDE DEF P, table
      <4> QED BY <3>2
    <3> HIDE DEF P
    <3>0. IsFiniteSet(managers)
      BY FS_Subset, SalesAssumption
    <3>4. Total([m \in managers |-> Cardinality(P[m])]) = Cardinality(DOMAIN Now.event)
      BY <2>1, <3>0, <3>1, RowsOfParts
    <3>5. Total([m \in managers |-> Booked(Now, P[m])]) = Booked(Now, DOMAIN Now.event)
      BY <2>1, <3>0, <3>1, BookedOfParts
    <3>6. Cardinality(DOMAIN Now.event) = Len(Now.event)
      <4>1. Len(Now.event) \in Nat /\ DOMAIN Now.event = 1..Len(Now.event)
        BY <2>1, TablesShape
      <4>2. QED BY <4>1, FS_Interval
    <3>7. Booked(Now, DOMAIN Now.event) = Tickets(Now, all)
      BY <2>1, BookedAreSold
    <3>8. dashboard.totalEvents = Len(Now.event) /\ dashboard.confirmedBookings = Tickets(Now, all)
      BY AdminDashboardOfOneState
    <3>9. QED BY <3>3, <3>4, <3>5, <3>6, <3>7, <3>8
  <2>5. dashboard.totalBookings = dashboard.confirmedBookings + dashboard.pendingBookings
    <3>1. Tickets(Now, {}) = 0 /\ Tickets(Now, DOMAIN Now.booking) \in Int
      BY <2>1, TotalEmpty, TicketsType DEF Tickets
    <3>2. /\ dashboard.totalBookings = Tickets(Now, DOMAIN Now.booking)
          /\ dashboard.confirmedBookings = Tickets(Now, all)
          /\ dashboard.pendingBookings = Tickets(Now, BookingsOf(Now, DOMAIN Now.event, "Pending"))
      BY AdminDashboardOfOneState
    <3> HIDE DEF all, dashboard
    <3>3. /\ dashboard.pendingBookings = 0
          /\ dashboard.totalBookings = dashboard.confirmedBookings
          /\ dashboard.confirmedBookings \in Int
      <4>1. all = DOMAIN Now.booking /\ BookingsOf(Now, DOMAIN Now.event, "Pending") = {}
        BY <2>2
      <4>2. QED BY <3>1, <3>2, <4>1
    <3>4. QED BY <3>3
  <2>6. dashboard.totalAdminRevenue = Total([m \in Managers |-> own(m).adminEarnings])
    <3> DEFINE B == [m \in Managers |-> of(m)]
    <3>1. Parts(B, Managers, all)
      <4>1. {Now.event[e].managerId : e \in DOMAIN Now.event} \subseteq Managers
        BY <2>1, ColumnTypes
      <4>2. QED BY <4>1, EventsByManager
    <3>2. [m \in Managers |-> own(m).adminEarnings] = [m \in Managers |-> Earnings(Now, B[m], "Admin")]
      BY ManagerDashboardOfOneState
    <3>3. dashboard.totalAdminRevenue = Earnings(Now, all, "Admin")
      BY AdminDashboardOfOneState
    <3> HIDE DEF B
    <3>4. Total([m \in Managers |-> Earnings(Now, B[m], "Admin")]) = Earnings(Now, all, "Admin")
      BY <2>1, <3>1, SalesAssumption, EarningsOfParts
    <3>5. QED BY <3>2, <3>3, <3>4
  <2>7. dashboard.totalManagerRevenue = Total([e \in DOMAIN rows |-> rows[e].managerEarnings])
    <3>1. rows = [e \in DOMAIN Now.event |-> EventRow(Snapshot, e)]
      BY RowsOfOneState
    <3>2. [e \in DOMAIN rows |-> rows[e].managerEarnings] =
              EarningsColumn(Now, Now, DOMAIN Now.event, "Manager")
      BY <3>1, RowsOfOneState DEF EarningsColumn
    <3>3. Total(EarningsColumn(Now, Now, DOMAIN Now.event, "Manager")) = Earnings(Now, all, "Manager")
      <4>1. Now \in Tables /\ IsFiniteSet(DOMAIN Now.event)
        BY <2>1
      <4>2. QED BY <4>1, EarningsByEvent
    <3>4. dashboard.totalManagerRevenue = Earnings(Now, all, "Manager")
      BY AdminDashboardOfOneState
    <3>5. QED BY <3>2, <3>3, <3>4
  \* A manager's dashboard and the rows of the manager's events.
  <2>8. ASSUME NEW m \in Managers
        PROVE  /\ own(m).totalConfirmedBookings = own(m).bookedSeats
               /\ own(m).totalSales = AdminManagerReport(Snapshot, m).totalRevenue
               /\ own(m).totalSales = Total([e \in DOMAIN ownRows(m) |-> ownRows(m)[e].totalSales])
               /\ own(m).managerEarnings =
                      Total([e \in DOMAIN ownRows(m) |-> ownRows(m)[e].managerEarnings])
               /\ own(m).remainingSeats =
                      Total([e \in DOMAIN ownRows(m) |-> ownRows(m)[e].remainingSeats])
               /\ own(m).totalEstimatedLoss =
                      Total([e \in DOMAIN ownRows(m) |-> ownRows(m)[e].estimatedLoss])
    <3> DEFINE mine == es(m)
               sold == of(m)
               B == [e \in mine |-> BookingsOf(Now, {e}, "Confirmed")]
               table == ownRows(m)
    <3>1. /\ mine \in SUBSET DOMAIN Now.event /\ sold \in SUBSET DOMAIN Now.booking
          /\ IsFiniteSet(mine)
      BY <2>1, <2>2, FS_Subset
    <3>2. table = [e \in mine |-> EventRow(Snapshot, e)]
      BY RowsOfOneState
    <3>3. own(m).totalConfirmedBookings = own(m).bookedSeats
      <4>1. Booked(Now, mine) = Tickets(Now, sold)
        BY <2>1, <3>1, BookedAreSold
      <4>2. QED BY <4>1, ManagerDashboardOfOneState
    <3>4. own(m).totalSales = AdminManagerReport(Snapshot, m).totalRevenue
      BY ManagerDashboardOfOneState, ManagerReportOfOneState
    <3>5. own(m).totalSales = Total([e \in DOMAIN table |-> table[e].totalSales])
      <4>1. Parts(B, mine, sold)
        BY BookingsByEvent
      <4>2. [e \in DOMAIN table |-> table[e].totalSales] = [e \in mine |-> TotalSales(Now, B[e])]
        BY <3>2, RowsOfOneState
      <4>3. own(m).totalSales = TotalSales(Now, sold)
        BY ManagerDashboardOfOneState
      <4> HIDE DEF B, sold, mine
      <4>4. Total([e \in mine |-> TotalSales(Now, B[e])]) = TotalSales(Now, sold)
        BY <2>1, <3>1, <4>1, SalesOfParts
      <4>5. QED BY <4>2, <4>3, <4>4
    <3>6. own(m).managerEarnings = Total([e \in DOMAIN table |-> table[e].managerEarnings])
      <4>1. [e \in DOMAIN table |-> table[e].managerEarnings] =
                EarningsColumn(Now, Now, mine, "Manager")
        BY <3>2, RowsOfOneState DEF EarningsColumn
      <4>2. Total(EarningsColumn(Now, Now, mine, "Manager")) = Earnings(Now, sold, "Manager")
        BY <2>1, <3>1, EarningsByEvent
      <4>3. own(m).managerEarnings = Earnings(Now, sold, "Manager")
        BY ManagerDashboardOfOneState
      <4>4. QED BY <4>1, <4>2, <4>3
    <3>7. own(m).remainingSeats = Total([e \in DOMAIN table |-> table[e].remainingSeats])
      <4> DEFINE a == [e \in mine |-> Now.event[e].totalSeats]
                 b == [e \in mine |-> Now.event[e].bookedSeats]
                 d == [e \in mine |-> a[e] - b[e]]
      <4>1. a \in [mine -> Int] /\ b \in [mine -> Int] /\ IsFiniteSet(mine)
        BY <2>1, <3>1, ColumnTypes, FS_Subset
      <4>2. [e \in DOMAIN table |-> table[e].remainingSeats] = d
        BY <3>2, RowsOfOneState
      <4>3. own(m).remainingSeats = Total(a) - Total(b)
        BY ManagerDashboardOfOneState DEF Seats, Booked
      <4>4. d = [e \in mine |-> a[e] - b[e]]
        OBVIOUS
      <4> HIDE DEF a, b, d, mine
      <4>5. Total(d) = Total(a) - Total(b)
        BY <4>1, <4>4, TotalOfRest
      <4>6. QED BY <4>2, <4>3, <4>5
    <3>8. own(m).totalEstimatedLoss = Total([e \in DOMAIN table |-> table[e].estimatedLoss])
      <4>1. [e \in DOMAIN table |-> table[e].estimatedLoss] =
                [e \in mine |-> EventRow(Snapshot, e).estimatedLoss]
        BY <3>2
      <4>2. QED BY <4>1, ManagerDashboardOfOneState
    <3>9. QED BY <3>3, <3>4, <3>5, <3>6, <3>7, <3>8
  <2>9. ASSUME NEW m \in Managers, NEW e \in DOMAIN event, ManagerEventReport(Snapshot, m, e) # {}
        PROVE  ManagerEventReport(Snapshot, m, e) = AdminEventReport(Snapshot, e)
    <3>1. OfManager(Snapshot.event, m) \subseteq DOMAIN Snapshot.event.event
      BY DEF OfManager
    <3>2. e \in OfManager(Snapshot.event, m)
      BY <2>9 DEF ManagerEventReport
    <3>3. QED BY <3>1, <3>2 DEF ManagerEventReport, AdminEventReport
  <2>10. QED BY <2>3, <2>4, <2>5, <2>6, <2>7, <2>8, <2>9 DEF ReportsAgree
<1>2. QED BY ReportingInvariant, <1>1, PTL
=============================================================================
