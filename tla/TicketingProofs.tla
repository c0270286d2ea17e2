--------------------------- MODULE TicketingProofs --------------------------
(* Proofs about Ticketing for every value of its constants.                *)
EXTENDS SalesRefinement, TotalsProofs

\* The wallets only refuse: every step of the composition is a step of
\* Bookings or leaves its tables alone.
LEMMA StepProjects == [Next]_tvars => [B!Next]_(B!vars)
<1> SUFFICES ASSUME [Next]_tvars PROVE [B!Next]_(B!vars)
  OBVIOUS
<1>1. ASSUME NEW u \in Users, NEW e \in DOMAIN event, NEW q \in Quantities, HoldSeats(u, e, q)
      PROVE  B!Next
  BY <1>1 DEF HoldSeats, B!Next
<1>2. ASSUME NEW u \in Users, NEW h \in DOMAIN hold, Book(u, h)
      PROVE  B!Next
  BY <1>2 DEF Book, B!Next
<1>3. ASSUME NEW m \in Managers, Manage(m)
      PROVE  B!Next
  BY <1>3 DEF Manage, B!Next, B!Manage
<1>4. CASE Cron
  BY <1>4 DEF Cron, B!Next
<1>5. CASE Tick
  BY <1>5 DEF Tick, B!Next
<1>6. CASE UNCHANGED tables
  BY <1>6 DEF tables, B!vars
<1>7. CASE Account
  BY <1>6, <1>7 DEF Account
<1>8. CASE UNCHANGED tvars
  BY <1>6, <1>8 DEF tvars, tables
<1>9. QED BY <1>1, <1>2, <1>3, <1>4, <1>5, <1>7, <1>8 DEF Next

\* Bookings with wallets behaves like Bookings: its invariants and action
\* properties hold of the composition.
THEOREM RefinesBookings == Spec => ImplementsBookings
<1>1. Init => B!Init
  BY DEF Init
<1>2. QED BY <1>1, StepProjects, PTL DEF Spec, ImplementsBookings, B!Spec

-----------------------------------------------------------------------------
(* What is proved of Wallets and of Bookings, for the instances here.      *)

WP == INSTANCE WalletsProofs WITH
    Users <- Users \cup Managers,
    MaxPayments <- MaxBookings

BP == INSTANCE BookingsProofs

LEMMA WalletsParametersFit == WP!WalletsAssumption
BY WalletsAssumption DEF WP!WalletsAssumption

LEMMA BookingsParametersFit ==
    BP!ParametersAssumption /\ BP!InputsAssumption /\ BP!CalendarAssumption /\ BP!NullAssumption
BY BookingsAssumption, WalletsAssumption
   DEF B!ParametersAssumption, B!InputsAssumption, B!CalendarAssumption,
       BP!ParametersAssumption, BP!InputsAssumption, BP!CalendarAssumption, BP!NullAssumption

LEMMA SameTransfer ==
    ASSUME NEW u, NEW m, NEW total, NEW b
    PROVE  W!Transfer(u, m, total, b) <=> WP!Transfer(u, m, total, b)
BY DEF W!Transfer, WP!Transfer, W!CanPay, WP!CanPay, W!Paid, WP!Paid, W!PayoutRow, WP!PayoutRow,
       W!DebitRow, WP!DebitRow, W!CommissionRow, WP!CommissionRow, W!SplitRow, WP!SplitRow,
       W!AdminShares, WP!AdminShares, W!ManagerShares, WP!ManagerShares, W!Cents, WP!Cents

LEMMA SamePaymentCount == W!PaymentCount = WP!PaymentCount
BY DEF W!PaymentCount, WP!PaymentCount, W!RowsFor, WP!RowsFor, W!Cardinality, WP!Cardinality

LEMMA SameAccount == W!Account <=> WP!Account
<1>1. W!TopupCount = WP!TopupCount
  BY DEF W!TopupCount, WP!TopupCount, W!RowsFor, WP!RowsFor, W!Cardinality, WP!Cardinality
<1>2. \A u : W!Register(u) <=> WP!Register(u)
  BY DEF W!Register, WP!Register
<1>3. W!SeedAdminWallet <=> WP!SeedAdminWallet
  BY DEF W!SeedAdminWallet, WP!SeedAdminWallet
<1>4. \A u, amount : W!Deposit(u, amount) <=> WP!Deposit(u, amount)
  BY DEF W!Deposit, WP!Deposit, W!TopupRow, WP!TopupRow
<1>5. \A amount : W!AdminDeposit(amount) <=> WP!AdminDeposit(amount)
  BY DEF W!AdminDeposit, WP!AdminDeposit
<1>6. QED BY <1>1, <1>2, <1>3, <1>4, <1>5 DEF W!Account, WP!Account

LEMMA SameWallets == W!Spec <=> WP!Spec
<1>1. W!Init <=> WP!Init
  BY DEF W!Init, WP!Init
<1>2. W!Next <=> WP!Next
  BY SameTransfer, SamePaymentCount, SameAccount DEF W!Next, WP!Next
<1>3. [W!Next]_(W!wvars) <=> [WP!Next]_(WP!wvars)
  BY <1>2 DEF W!wvars, WP!wvars
<1>4. QED BY <1>1, <1>3, PTL DEF W!Spec, WP!Spec

LEMMA SameBookings == B!Spec <=> BP!Spec
<1>1. B!Init <=> BP!Init
  BY DEF B!Init, BP!Init
<1>2. B!ExpireHolds = BP!ExpireHolds
  BY DEF B!ExpireHolds, BP!ExpireHolds, B!IsExpired, BP!IsExpired
<1>3. \A u, e, q : B!HoldSeats(u, e, q) <=> BP!HoldSeats(u, e, q)
  <2> SUFFICES ASSUME NEW u, NEW e, NEW q
               PROVE  B!HoldSeats(u, e, q) <=> BP!HoldSeats(u, e, q)
    OBVIOUS
  <2>1. \A table : B!HasExistingHold(table, u, e) <=> BP!HasExistingHold(table, u, e)
    BY DEF B!HasExistingHold, BP!HasExistingHold, B!ActiveStatuses, BP!ActiveStatuses
  <2>2. B!TodayBooked(u, e) = BP!TodayBooked(u, e)
    BY DEF B!TodayBooked, BP!TodayBooked, B!BookingsToday, BP!BookingsToday, B!IsToday, BP!IsToday,
           B!Total, BP!Total, B!Count, BP!Count, B!Opposite, BP!Opposite, B!Units, BP!Units, B!Cardinality, BP!Cardinality
  <2>3. \A table : B!TodayHold(table, u, e) = BP!TodayHold(table, u, e)
    BY DEF B!TodayHold, BP!TodayHold, B!IsToday, BP!IsToday,
           B!Total, BP!Total, B!Count, BP!Count, B!Opposite, BP!Opposite, B!Units, BP!Units, B!Cardinality, BP!Cardinality
  <2>4. \A table : B!SeatsUnavailable(table, e, q) <=> BP!SeatsUnavailable(table, e, q)
    BY DEF B!SeatsUnavailable, BP!SeatsUnavailable, B!EventRawColumns, BP!EventRawColumns,
           B!HoldSeatsOf, BP!HoldSeatsOf, B!ActiveStatuses, BP!ActiveStatuses,
           B!Total, BP!Total, B!Count, BP!Count, B!Opposite, BP!Opposite, B!Units, BP!Units, B!Cardinality, BP!Cardinality
  <2>5. B!NewHold(u, e, q) = BP!NewHold(u, e, q)
    BY DEF B!NewHold, BP!NewHold
  <2>6. QED BY <1>2, <2>1, <2>2, <2>3, <2>4, <2>5 DEF B!HoldSeats, BP!HoldSeats
<1>4. \A u, h : B!Book(u, h) <=> BP!Book(u, h)
  BY DEF B!Book, BP!Book, B!IsBookable, BP!IsBookable, B!EnoughSeats, BP!EnoughSeats,
         B!NewBooking, BP!NewBooking, B!CompletedHold, BP!CompletedHold,
         B!BookedSeatsAfter, BP!BookedSeatsAfter
<1>5. B!Manage <=> BP!Manage
  BY DEF B!Manage, BP!Manage, B!ManageBy, BP!ManageBy, B!CreateEvent, BP!CreateEvent,
         B!NewEvent, BP!NewEvent, B!UpdateEvent, BP!UpdateEvent,
         B!UpdateEventStatus, BP!UpdateEventStatus, B!EventStatus, BP!EventStatus
<1>6. B!Cron <=> BP!Cron
  <2>1. B!ClearExpiredHolds <=> BP!ClearExpiredHolds
    BY <1>2 DEF B!ClearExpiredHolds, BP!ClearExpiredHolds
  <2>2. B!ClearExpiredProcessingHolds <=> BP!ClearExpiredProcessingHolds
    BY DEF B!ClearExpiredProcessingHolds, BP!ClearExpiredProcessingHolds,
           B!IsStuckProcessing, BP!IsStuckProcessing
  <2>3. B!HandleCompletedEvents <=> BP!HandleCompletedEvents
    BY DEF B!HandleCompletedEvents, BP!HandleCompletedEvents, B!IsOver, BP!IsOver
  <2>4. QED BY <2>1, <2>2, <2>3 DEF B!Cron, BP!Cron
<1>7. B!Tick <=> BP!Tick
  BY DEF B!Tick, BP!Tick
<1>8. [B!Next]_(B!vars) <=> [BP!Next]_(BP!vars)
  BY <1>3, <1>4, <1>5, <1>6, <1>7 DEF B!Next, BP!Next, B!vars, BP!vars
<1>9. QED BY <1>1, <1>8, PTL DEF B!Spec, BP!Spec

-----------------------------------------------------------------------------
(* Every payment of a booking is one that Wallets offers.                  *)

\* A price comes from the manager's requests and is never computed.
Priced == \A e \in DOMAIN event : event[e].price \in Prices

\* No event changes hands, and none is deleted.
ManagersKept ==
    \A e \in DOMAIN event : e \in DOMAIN event' /\ event'[e].managerId = event[e].managerId

LEMMA TablesStep ==
    ASSUME BP!TypeOK, Priced, [B!Next]_(B!vars)
    PROVE  /\ Priced' /\ ManagersKept
           /\ \/ \E u \in Users, h \in DOMAIN hold : B!Book(u, h)
              \/ booking' = booking
<1>1. Len(event) \in Nat /\ DOMAIN event = 1..Len(event)
      /\ \A e \in DOMAIN event : event[e] \in BP!Event
  BY TableShape DEF BP!TypeOK
<1>2. ASSUME NEW u \in Users, NEW h \in DOMAIN hold, B!Book(u, h)
      PROVE  Priced' /\ ManagersKept
  <2>1. hold[h].eventId \in DOMAIN event
    BY DEF BP!TypeOK
  <2>2. /\ DOMAIN event' = DOMAIN event
        /\ \A e \in DOMAIN event :
              event'[e].price = event[e].price /\ event'[e].managerId = event[e].managerId
    BY <1>1, <1>2, <2>1 DEF B!Book, BP!Event
  <2>3. QED BY <2>2 DEF Priced, ManagersKept
<1>3. ASSUME NEW m \in Managers, NEW seats \in SeatCounts, NEW price \in Prices, NEW date \in Dates,
             B!CreateEvent(m, seats, price, date)
      PROVE  Priced' /\ ManagersKept /\ booking' = booking
  <2>1. event' = Append(event, B!NewEvent(m, seats, price, date)) /\ booking' = booking
    BY <1>3 DEF B!CreateEvent
  <2>2. B!NewEvent(m, seats, price, date).price \in Prices
    BY DEF B!NewEvent
  <2>3. event \in Seq(BP!Event)
    BY DEF BP!TypeOK
  <2>4. /\ \A e \in DOMAIN event' :
              \/ e \in DOMAIN event /\ event'[e] = event[e]
              \/ event'[e] = B!NewEvent(m, seats, price, date)
        /\ \A e \in DOMAIN event : e \in DOMAIN event' /\ event'[e] = event[e]
    BY <1>1, <2>1, <2>3
  <2>5. QED BY <2>1, <2>2, <2>4 DEF Priced, ManagersKept
<1>4. ASSUME NEW m \in Managers, NEW seats \in SeatCounts, NEW price \in Prices, NEW date \in Dates,
             NEW e \in DOMAIN event, B!UpdateEvent(m, e, seats, price, date)
      PROVE  Priced' /\ ManagersKept /\ booking' = booking
  <2>1. /\ DOMAIN event' = DOMAIN event
        /\ \A f \in DOMAIN event :
              /\ event'[f].price = IF f = e THEN price ELSE event[f].price
              /\ event'[f].managerId = event[f].managerId
        /\ booking' = booking
    BY <1>1, <1>4 DEF B!UpdateEvent, BP!Event
  <2>2. QED BY <2>1 DEF Priced, ManagersKept
<1>5. ASSUME NEW m \in Managers, NEW e \in DOMAIN event, NEW status \in B!EventStatus,
             B!UpdateEventStatus(m, e, status)
      PROVE  Priced' /\ ManagersKept /\ booking' = booking
  <2>1. /\ DOMAIN event' = DOMAIN event
        /\ \A f \in DOMAIN event :
              event'[f].price = event[f].price /\ event'[f].managerId = event[f].managerId
        /\ booking' = booking
    BY <1>1, <1>5 DEF B!UpdateEventStatus, BP!Event
  <2>2. QED BY <2>1 DEF Priced, ManagersKept
<1>6. ASSUME B!HandleCompletedEvents
      PROVE  Priced' /\ ManagersKept /\ booking' = booking
  <2>1. /\ DOMAIN event' = DOMAIN event
        /\ \A f \in DOMAIN event :
              event'[f].price = event[f].price /\ event'[f].managerId = event[f].managerId
        /\ booking' = booking
    BY <1>1, <1>6 DEF B!HandleCompletedEvents, BP!Event
  <2>2. QED BY <2>1 DEF Priced, ManagersKept
<1>7. CASE UNCHANGED <<event, booking>>
  BY <1>7 DEF Priced, ManagersKept
<1>8. CASE \E u \in Users, e \in DOMAIN event, q \in Quantities : B!HoldSeats(u, e, q)
  BY <1>7, <1>8 DEF B!HoldSeats
<1>9. CASE B!Cron
  BY <1>6, <1>7, <1>9 DEF B!Cron, B!ClearExpiredHolds, B!ClearExpiredProcessingHolds
<1>10. CASE B!Tick \/ UNCHANGED B!vars
  BY <1>7, <1>10 DEF B!Tick, B!vars
<1>11. CASE B!Manage
  BY <1>3, <1>4, <1>5, <1>11 DEF B!Manage, B!ManageBy
<1>12. CASE \E u \in Users, h \in DOMAIN hold : B!Book(u, h)
  BY <1>2, <1>12
<1>13. QED BY <1>8, <1>9, <1>10, <1>11, <1>12 DEF B!Next

\* As many payments as bookings: the id of a booking is the number of its payment.
Counted == WP!PaymentCount = Len(booking)

\* What holds of the tables and ledgers before and after every step.
SaleInv == BP!TypeOK /\ BP!HeldAsAsked /\ WP!TypeOK /\ Priced /\ Counted

\* What book does: the wallets pay total for booking number n, of event e.
BookEffect(u, h, e, m, total, n) ==
    /\ e = hold[h].eventId /\ m = event[e].managerId /\ total = TotalOf(h)
    /\ WP!Transfer(u, m, total, n)
    /\ n = Len(booking) + 1 /\ Len(booking) < MaxBookings
    /\ DOMAIN booking = 1..Len(booking)
    /\ DOMAIN booking' = DOMAIN booking \cup {n} /\ n \notin DOMAIN booking
    /\ \A b \in DOMAIN booking : booking'[b] = booking[b]
    /\ booking'[n].userId = u /\ booking'[n].eventId = e /\ booking'[n].total = total

LEMMA BookStep ==
    ASSUME SaleInv, NEW u \in Users, NEW h \in DOMAIN hold, Book(u, h)
    PROVE  \E e \in DOMAIN event, m \in Managers, total \in Payments, n \in Nat :
              total \in Int /\ BookEffect(u, h, e, m, total, n)
<1> DEFINE e == hold[h].eventId
           m == event[e].managerId
           total == TotalOf(h)
           n == Len(booking) + 1
<1>1. /\ hold[h] \in BP!SeatHold /\ e \in DOMAIN event /\ event[e] \in BP!Event
      /\ booking \in Seq(BP!Booking)
  BY TableShape DEF SaleInv, BP!TypeOK
<1>2. m \in Managers /\ hold[h].quantity \in Quantities
  BY <1>1 DEF BP!Event, SaleInv, BP!HeldAsAsked
<1>3. event[e].price \in Prices
  BY <1>1 DEF SaleInv, Priced
<1>4. total \in Payments /\ total \in Int
  BY <1>2, <1>3, PaymentsAssumption, WalletsAssumption DEF TotalOf
<1>5. WP!Transfer(u, m, total, n)
  BY SameTransfer DEF Book, NextBookingId
<1>6. Len(booking) < MaxBookings /\ booking' = Append(booking, B!NewBooking(h)) /\ hold[h].userId = u
  BY DEF Book, B!Book, B!IsBookable
<1>7. Len(booking) \in Nat /\ DOMAIN booking = 1..Len(booking)
  BY <1>1, TableShape
<1>8. /\ DOMAIN booking' = DOMAIN booking \cup {n} /\ n \notin DOMAIN booking
      /\ \A b \in DOMAIN booking : booking'[b] = booking[b]
      /\ booking'[n] = B!NewBooking(h)
  BY <1>1, <1>6, <1>7
<1>9. booking'[n].userId = u /\ booking'[n].eventId = e /\ booking'[n].total = total
  BY <1>6, <1>8 DEF B!NewBooking, TotalOf
<1>10. n \in Nat /\ Len(booking) < MaxBookings
  BY <1>6, <1>7
<1> HIDE DEF e, m, total, n
<1>11. BookEffect(u, h, e, m, total, n)
  BY <1>5, <1>7, <1>8, <1>9, <1>10 DEF BookEffect, e, m, total, n
<1>12. QED BY <1>1, <1>2, <1>4, <1>10, <1>11 DEF e

\* What every other step does to the tables a payment is recorded in.
OtherEffect ==
    /\ booking' = booking /\ split' = split
    /\ \/ txn' = txn
       \/ \E row \in WP!Transaction : row.purpose = "WalletTopup" /\ txn' = Append(txn, row)

LEMMA OtherStep ==
    ASSUME SaleInv, [Next]_tvars
    PROVE  \/ \E u \in Users, h \in DOMAIN hold : Book(u, h)
           \/ WP!Account /\ OtherEffect
           \/ UNCHANGED <<ledgers, booking>>
<1>1. CASE Account
  <2>1. WP!Account /\ booking' = booking
    BY <1>1, SameAccount DEF Account, tables
  <2>2. /\ split' = split
        /\ \/ txn' = txn
           \/ \E row \in WP!Transaction : row.purpose = "WalletTopup" /\ txn' = Append(txn, row)
    <3>1. \A u, amount : WP!TopupRow(u, amount).purpose = "WalletTopup"
      BY DEF WP!TopupRow
    <3>2. QED BY <2>1, <3>1, WP!AccountStep, WalletsParametersFit
              DEF SaleInv, WP!Register, WP!SeedAdminWallet
  <2>3. QED BY <2>1, <2>2 DEF OtherEffect
<1>2. CASE \E u \in Users, e \in DOMAIN event, q \in Quantities : HoldSeats(u, e, q)
  BY <1>2 DEF HoldSeats, B!HoldSeats
<1>3. CASE \E m \in Managers : Manage(m)
  BY <1>3 DEF Manage, B!ManageBy, B!CreateEvent, B!UpdateEvent, B!UpdateEventStatus
<1>4. CASE Cron \/ Tick \/ UNCHANGED tvars
  BY <1>4 DEF Cron, Tick, tvars, tables, B!Cron, B!Tick, B!ClearExpiredHolds,
              B!ClearExpiredProcessingHolds, B!HandleCompletedEvents
<1>5. QED BY <1>1, <1>2, <1>3, <1>4 DEF Next

LEMMA PaymentStep ==
    ASSUME SaleInv, [Next]_tvars
    PROVE  Counted' /\ [WP!Next]_(WP!wvars)
<1>1. ASSUME NEW u \in Users, NEW h \in DOMAIN hold, Book(u, h)
      PROVE  Counted' /\ WP!Next
  <2>1. PICK e \in DOMAIN event, m \in Managers, total \in Payments, n \in Nat :
               total \in Int /\ BookEffect(u, h, e, m, total, n)
    BY <1>1, BookStep
  <2>2. WP!Transfer(u, m, total, n) /\ Len(booking) < MaxBookings /\ n = Len(booking) + 1
    BY <2>1 DEF BookEffect
  <2>3. Len(booking') = Len(booking) + 1
    <3>1. booking \in Seq(BP!Booking) /\ booking' = Append(booking, B!NewBooking(h))
      BY <1>1 DEF SaleInv, BP!TypeOK, Book, B!Book
    <3>2. QED BY <3>1
  <2>4. u \in Users \cup Managers /\ m \in Users \cup Managers
    OBVIOUS
  <2>5. WP!PaymentCount' = WP!PaymentCount + 1
    BY <2>1, <2>2, <2>4, WP!TransferCounts, WalletsParametersFit DEF SaleInv
  <2>6. WP!PaymentCount = Len(booking) /\ Len(booking) \in Nat
    BY TableShape DEF SaleInv, Counted, BP!TypeOK
  <2>7. WP!Next
    <3>1. n = WP!PaymentCount + 1 /\ WP!PaymentCount < MaxBookings
      BY <2>2, <2>6
    <3>2. QED BY <2>2, <2>4, <3>1 DEF WP!Next
  <2>8. QED BY <2>3, <2>5, <2>6, <2>7 DEF Counted
<1>2. CASE WP!Account /\ OtherEffect
  <2>1. WP!PaymentCount' = WP!PaymentCount
    BY <1>2, WP!AccountCountsNothing, WalletsParametersFit DEF SaleInv
  <2>2. QED BY <1>2, <2>1 DEF Counted, OtherEffect, WP!Next, SaleInv
<1>3. CASE UNCHANGED <<ledgers, booking>>
  BY <1>3 DEF ledgers, WP!wvars, Counted, WP!PaymentCount, WP!RowsFor, SaleInv
<1>4. QED BY <1>1, <1>2, <1>3, OtherStep

\* The invariant of the composition, and the steps of Wallets it makes.
LEMMA SaleInvariant == Spec => []SaleInv /\ WP!Spec
<1>1. Spec => []BP!TypeOK /\ []BP!HeldAsAsked
  BY RefinesBookings, SameBookings, BookingsParametersFit, BP!TypeCorrect, BP!HeldAsAskedHolds, PTL
     DEF ImplementsBookings
<1>2. Init => Priced /\ WP!Init /\ Counted
  <2> SUFFICES ASSUME Init PROVE Priced /\ WP!Init /\ Counted
    OBVIOUS
  <2>1. event = <<>> /\ booking = <<>>
    BY DEF Init, B!Init
  <2>2. WP!Init
    BY DEF Init, W!Init, WP!Init
  <2>3. WP!PaymentCount = 0
    BY <2>2, WP!NothingCounted, WalletsParametersFit
  <2>4. QED BY <2>1, <2>2, <2>3, EmptySeq DEF Priced, Counted
<1>3. WP!Init => WP!TypeOK
  BY WP!TypeInit, WalletsParametersFit
<1>4. WP!TypeOK /\ [WP!Next]_(WP!wvars) => WP!TypeOK'
  BY WP!TypeNext, WalletsParametersFit
<1>5. BP!TypeOK /\ BP!HeldAsAsked /\ Priced /\ WP!TypeOK /\ Counted /\ [Next]_tvars
         => Priced' /\ Counted' /\ WP!TypeOK' /\ [WP!Next]_(WP!wvars)
  BY <1>4, PaymentStep, TablesStep, StepProjects DEF SaleInv
<1>6. BP!TypeOK /\ BP!HeldAsAsked /\ Priced /\ WP!TypeOK /\ Counted => SaleInv
  BY DEF SaleInv
<1>7. QED BY <1>1, <1>2, <1>3, <1>5, <1>6, PTL DEF Spec, WP!Spec

\* With the booking's id for its reference, every payment of the composition
\* is one that Wallets makes, and every other step leaves the wallets alone
\* or is a registration or a top-up.
THEOREM RefinesWallets == Spec => ImplementsWallets
BY SaleInvariant, SameWallets, PTL DEF ImplementsWallets

\* No booking overdraws the wallet it is paid from, and a wallet is never
\* further below zero than bookings of less than no tickets have taken from
\* it, whoever pays and whoever is paid.
THEOREM NoOverdraftHolds == Spec => []NoOverdraft
<1>1. WP!NoOverdraft <=> NoOverdraft
  BY DEF NoOverdraft, W!NoOverdraft, WP!NoOverdraft, W!TakenFrom, WP!TakenFrom,
         W!CreditsOf, WP!CreditsOf, W!AmountIn, WP!AmountIn, W!Total, WP!Total,
         W!Count, WP!Count, W!Opposite, WP!Opposite, W!Units, WP!Units,
         W!Cardinality, WP!Cardinality
<1>2. QED BY <1>1, RefinesWallets, SameWallets, WP!NoOverdraftHolds, WalletsParametersFit, PTL
          DEF ImplementsWallets

\* The ledger explains every balance of customers, managers and the admin,
\* and a refused booking leaves no row in it.
THEOREM LedgersExplainBalances == Spec => []LedgerMatchesBalance
<1>1. WP!LedgerMatchesBalance <=> LedgerMatchesBalance
  BY DEF LedgerMatchesBalance, W!LedgerMatchesBalance, WP!LedgerMatchesBalance,
         W!Debited, WP!Debited, W!Credited, WP!Credited, W!AmountIn, WP!AmountIn,
         W!CreditsOf, WP!CreditsOf, W!DebitsOf, WP!DebitsOf,
         W!Total, WP!Total, W!Count, WP!Count, W!Opposite, WP!Opposite, W!Units, WP!Units, W!Cardinality, WP!Cardinality
<1>2. QED BY <1>1, RefinesWallets, SameWallets, WP!LedgersExplainBalances, WalletsParametersFit, PTL
          DEF ImplementsWallets

\* The three ledgers agree on the payment of every booking.
THEOREM PaymentsAgree == Spec => []PaymentsBalance
<1>1. WP!PaymentsBalance <=> PaymentsBalance
  BY DEF PaymentsBalance, W!PaymentsBalance, WP!PaymentsBalance,
         W!RowsFor, WP!RowsFor, W!SplitRow, WP!SplitRow
<1>2. QED BY <1>1, RefinesWallets, SameWallets, WP!PaymentsAgree, WalletsParametersFit, PTL
          DEF ImplementsWallets

\* All balances together are the opening balances and the top-ups, up to one
\* cent for each booking, whatever is refused or retried.
THEOREM MoneyIsConserved == Spec => []MoneyConserved
<1>1. WP!MoneyConserved <=> MoneyConserved
  BY DEF MoneyConserved, W!MoneyConserved, WP!MoneyConserved, W!AmountIn, WP!AmountIn,
         W!RowsFor, WP!RowsFor, W!PaymentCount, WP!PaymentCount,
         W!Total, WP!Total, W!Count, WP!Count, W!Opposite, WP!Opposite, W!Units, WP!Units, W!Cardinality, WP!Cardinality
<1>2. QED BY <1>1, RefinesWallets, SameWallets, WP!MoneyIsConserved, WalletsParametersFit, PTL
          DEF ImplementsWallets

-----------------------------------------------------------------------------
(* Bookings and their payments.                                            *)

\* The rows of ledger t that are about booking b.
RowsAbout(t, b, purpose) == {i \in DOMAIN t : t[i].purpose = purpose /\ t[i].referenceId = b}

\* What PaidAsBooked says of one booking, and of the rows without a booking.
IsPaid(t, b, user, manager, total) ==
    /\ \E d \in DOMAIN t :
           RowsAbout(t, b, "BookingPayment") = {d} /\ t[d].userId = user /\ t[d].amount = total
    /\ \E p \in DOMAIN t :
           RowsAbout(t, b, "EventManagerPayout") = {p} /\ t[p].userId = manager

OnlyAbout(t, ids) == \A i \in DOMAIN t : t[i].purpose # "WalletTopup" => t[i].referenceId \in ids

LEMMA PaidInParts ==
    PaidAsBooked <=>
        /\ \A b \in DOMAIN booking :
               IsPaid(txn, b, booking[b].userId, event[booking[b].eventId].managerId, booking[b].total)
        /\ OnlyAbout(txn, DOMAIN booking)
<1>1. \A b, purpose : RowsOf(b, purpose) = RowsAbout(txn, b, purpose)
  BY DEF RowsOf, RowsAbout, W!RowsFor
<1>2. QED BY <1>1 DEF PaidAsBooked, IsPaid, OnlyAbout

\* A row about something else.
LEMMA StaysPaid ==
    ASSUME NEW t, NEW row, NEW k, WP!RowAdded(t, row, k), NEW b, NEW user, NEW manager, NEW total,
           row.purpose = "WalletTopup" \/ row.referenceId # b,
           IsPaid(t, b, user, manager, total)
    PROVE  IsPaid(k, b, user, manager, total)
<1>1. /\ RowsAbout(k, b, "BookingPayment") = RowsAbout(t, b, "BookingPayment")
      /\ RowsAbout(k, b, "EventManagerPayout") = RowsAbout(t, b, "EventManagerPayout")
  BY DEF WP!RowAdded, RowsAbout
<1>2. \A i \in DOMAIN t : i \in DOMAIN k /\ k[i] = t[i]
  BY DEF WP!RowAdded
<1>3. QED BY <1>1, <1>2 DEF IsPaid

LEMMA OnlyAboutMore ==
    ASSUME NEW t, NEW row, NEW k, WP!RowAdded(t, row, k), NEW ids, NEW more, ids \subseteq more,
           row.purpose = "WalletTopup" \/ row.referenceId \in more,
           OnlyAbout(t, ids)
    PROVE  OnlyAbout(k, more)
BY DEF WP!RowAdded, OnlyAbout

\* The rows of a payment pay the booking they are about, if there were none.
LEMMA NowPaid ==
    ASSUME NEW t0, NEW payout, NEW t, NEW debit, NEW k,
           WP!RowAdded(t0, payout, t), WP!RowAdded(t, debit, k),
           NEW ids, OnlyAbout(t0, ids), NEW b, b \notin ids,
           payout.referenceId = b, payout.purpose = "EventManagerPayout",
           debit.referenceId = b, debit.purpose = "BookingPayment"
    PROVE  IsPaid(k, b, debit.userId, payout.userId, debit.amount)
<1>1. PICK p, d : p = Len(t0) + 1 /\ d = Len(t) + 1
  OBVIOUS
<1>2. /\ DOMAIN t = DOMAIN t0 \cup {p} /\ DOMAIN k = DOMAIN t \cup {d}
      /\ p \notin DOMAIN t0 /\ d \notin DOMAIN t
      /\ k[p] = payout /\ k[d] = debit /\ \A i \in DOMAIN t0 : k[i] = t0[i]
  BY <1>1 DEF WP!RowAdded
<1>3. \A i \in DOMAIN t0 :
         ~(k[i].purpose \in {"BookingPayment", "EventManagerPayout"} /\ k[i].referenceId = b)
  BY <1>2 DEF OnlyAbout
<1>4. RowsAbout(k, b, "BookingPayment") = {d} /\ RowsAbout(k, b, "EventManagerPayout") = {p}
  BY <1>2, <1>3 DEF RowsAbout
<1>5. QED BY <1>2, <1>4 DEF IsPaid

LEMMA PaidNext == SaleInv /\ PaidAsBooked /\ [Next]_tvars => PaidAsBooked'
<1> SUFFICES ASSUME SaleInv, PaidAsBooked, [Next]_tvars PROVE PaidAsBooked'
  OBVIOUS
<1>1. PICK k : k = txn'
  OBVIOUS
<1>2. SUFFICES /\ \A b \in DOMAIN booking' :
                     IsPaid(k, b, booking'[b].userId,
                            event'[booking'[b].eventId].managerId, booking'[b].total)
               /\ OnlyAbout(k, DOMAIN booking')
  <2>1. \A b, purpose : RowsOf(b, purpose)' = RowsAbout(k, b, purpose)
    BY <1>1 DEF RowsOf, RowsAbout, W!RowsFor
  <2>2. QED BY <1>1, <2>1 DEF PaidAsBooked, IsPaid, OnlyAbout
<1>3. /\ \A b \in DOMAIN booking :
            IsPaid(txn, b, booking[b].userId, event[booking[b].eventId].managerId, booking[b].total)
      /\ OnlyAbout(txn, DOMAIN booking)
  BY PaidInParts
<1>4. txn \in Seq(WP!Transaction) /\ \A b \in DOMAIN booking : booking[b].eventId \in DOMAIN event
  BY DEF SaleInv, WP!TypeOK, BP!TypeOK
<1>5. ManagersKept
  BY TablesStep, StepProjects DEF SaleInv
<1>6. ASSUME NEW b \in DOMAIN booking, booking'[b] = booking[b],
             IsPaid(k, b, booking[b].userId, event[booking[b].eventId].managerId, booking[b].total)
      PROVE  IsPaid(k, b, booking'[b].userId,
                    event'[booking'[b].eventId].managerId, booking'[b].total)
  BY <1>4, <1>5, <1>6 DEF ManagersKept
<1>7. ASSUME NEW u \in Users, NEW h \in DOMAIN hold, Book(u, h)
      PROVE  /\ \A b \in DOMAIN booking' :
                   IsPaid(k, b, booking'[b].userId,
                          event'[booking'[b].eventId].managerId, booking'[b].total)
             /\ OnlyAbout(k, DOMAIN booking')
  <2>1. PICK e \in DOMAIN event, m \in Managers, total \in Payments, n \in Nat :
               total \in Int /\ BookEffect(u, h, e, m, total, n)
    BY <1>7, BookStep
  <2>2. PICK a \in Int, s \in Int : WP!TransferEffect(u, m, total, n, a, s)
    BY <2>1, WP!TransferStep, WalletsParametersFit DEF SaleInv, BookEffect
  <2>3. PICK payout, debit, t :
           /\ payout = WP!PayoutRow(m, s, n) /\ payout \in WP!Transaction
           /\ debit = WP!DebitRow(u, total, n) /\ debit \in WP!Transaction
           /\ t = Append(txn, payout) /\ k = Append(t, debit)
    BY <1>1, <2>2 DEF WP!TransferEffect
  <2>4. /\ payout.referenceId = n /\ payout.purpose = "EventManagerPayout" /\ payout.userId = m
        /\ debit.referenceId = n /\ debit.purpose = "BookingPayment"
        /\ debit.userId = u /\ debit.amount = total
    BY <2>3 DEF WP!PayoutRow, WP!DebitRow
  <2>5. WP!RowAdded(txn, payout, t) /\ t \in Seq(WP!Transaction)
    BY <1>4, <2>3, WP!RowAppended, WalletsParametersFit
  <2>6. WP!RowAdded(t, debit, k)
    BY <2>3, <2>5, WP!RowAppended, WalletsParametersFit
  <2>7. /\ DOMAIN booking' = DOMAIN booking \cup {n} /\ n \notin DOMAIN booking
        /\ \A b \in DOMAIN booking : booking'[b] = booking[b]
        /\ booking'[n].userId = u /\ booking'[n].eventId = e /\ booking'[n].total = total
        /\ m = event[e].managerId
    BY <2>1 DEF BookEffect
  <2>8. IsPaid(k, n, u, m, total)
    BY <1>3, <2>4, <2>5, <2>6, <2>7, NowPaid
  <2>9. event'[e].managerId = m
    BY <1>5, <2>7 DEF ManagersKept
  <2>10. ASSUME NEW b \in DOMAIN booking
         PROVE  IsPaid(k, b, booking'[b].userId,
                       event'[booking'[b].eventId].managerId, booking'[b].total)
    <3>1. b # n
      BY <2>7
    <3>2. IsPaid(t, b, booking[b].userId, event[booking[b].eventId].managerId, booking[b].total)
      BY <1>3, <2>4, <2>5, <3>1, StaysPaid
    <3>3. IsPaid(k, b, booking[b].userId, event[booking[b].eventId].managerId, booking[b].total)
      BY <2>4, <2>6, <3>1, <3>2, StaysPaid
    <3>4. QED BY <1>6, <2>7, <3>3
  <2>11. OnlyAbout(k, DOMAIN booking')
    <3>1. OnlyAbout(t, DOMAIN booking \cup {n})
      BY <1>3, <2>4, <2>5, OnlyAboutMore
    <3>2. OnlyAbout(k, DOMAIN booking \cup {n})
      BY <2>4, <2>6, <3>1, OnlyAboutMore
    <3>3. QED BY <2>7, <3>2
  <2>12. QED BY <2>7, <2>8, <2>9, <2>10, <2>11
<1>8. ASSUME booking' = booking, k = txn
      PROVE  /\ \A b \in DOMAIN booking' :
                   IsPaid(k, b, booking'[b].userId,
                          event'[booking'[b].eventId].managerId, booking'[b].total)
             /\ OnlyAbout(k, DOMAIN booking')
  BY <1>3, <1>6, <1>8
<1>9. ASSUME booking' = booking, NEW row \in WP!Transaction,
             row.purpose = "WalletTopup", k = Append(txn, row)
      PROVE  /\ \A b \in DOMAIN booking' :
                   IsPaid(k, b, booking'[b].userId,
                          event'[booking'[b].eventId].managerId, booking'[b].total)
             /\ OnlyAbout(k, DOMAIN booking')
  <2>1. WP!RowAdded(txn, row, k)
    BY <1>4, <1>9, WP!RowAppended, WalletsParametersFit
  <2>2. \A b \in DOMAIN booking :
           IsPaid(k, b, booking[b].userId, event[booking[b].eventId].managerId, booking[b].total)
    BY <1>3, <1>9, <2>1, StaysPaid
  <2>3. OnlyAbout(k, DOMAIN booking)
    BY <1>3, <1>9, <2>1, OnlyAboutMore
  <2>4. QED BY <1>6, <1>9, <2>2, <2>3
<1>10. QED BY <1>1, <1>7, <1>8, <1>9, OtherStep DEF OtherEffect, ledgers

\* Every booking is paid once, in full and to its event's manager, and no
\* payment is about anything but a booking, for any number of customers,
\* events, prices and refused attempts.
THEOREM PaidAsBookedHolds == Spec => []PaidAsBooked
<1>1. Init => PaidAsBooked
  <2> SUFFICES ASSUME Init PROVE PaidAsBooked
    OBVIOUS
  <2>1. DOMAIN booking = {} /\ DOMAIN txn = {}
    BY EmptySeq DEF Init, B!Init, W!Init
  <2>2. QED BY <2>1 DEF PaidAsBooked
<1>2. QED BY <1>1, SaleInvariant, PaidNext, PTL DEF Spec

-----------------------------------------------------------------------------
(* Revenue and its splits.                                                 *)

\* The bookings of event e in table bk, what they brought in, the rows of
\* table sp that split it, and what those hand out.
SalesOf(bk, e)     == {b \in DOMAIN bk : bk[b].eventId = e}
Revenue(bk, e)     == Total([b \in SalesOf(bk, e) |-> bk[b].total])
SharesIn(sp, ids)  == {i \in DOMAIN sp : sp[i].bookingId \in ids}
HandedOut(sp, ids) == WP!AmountIn(sp, SharesIn(sp, ids))

LEMMA SplitsInParts ==
    SplitsMatchRevenue <=>
        \A e \in DOMAIN event :
            HandedOut(split, SalesOf(booking, e)) - Revenue(booking, e)
                \in -Cardinality(SalesOf(booking, e))..Cardinality(SalesOf(booking, e))
BY DEF SplitsMatchRevenue, HandedOut, Revenue, SalesOf, SharesIn, W!AmountIn, WP!AmountIn,
       W!Total, WP!Total, W!Count, WP!Count, W!Opposite, WP!Opposite, W!Units, WP!Units, W!Cardinality, WP!Cardinality

\* SplitsMatchRevenue is not inductive: a split written for a booking that
\* does not exist yet would count once it does.
SplitsNamed == \A i \in DOMAIN split : split[i].bookingId \in DOMAIN booking

LEMMA SalesAreFinite ==
    ASSUME NEW bk \in Seq(BP!Booking), NEW e
    PROVE  IsFiniteSet(SalesOf(bk, e)) /\ Cardinality(SalesOf(bk, e)) \in Nat /\ Revenue(bk, e) \in Int
<1> DEFINE ids == SalesOf(bk, e)
           c == [b \in ids |-> bk[b].total]
<1>1. Len(bk) \in Nat /\ ids \in SUBSET (1..Len(bk)) /\ \A b \in 1..Len(bk) : bk[b] \in BP!Booking
  BY TableShape DEF SalesOf
<1>2. \A b \in 1..Len(bk) : bk[b].total \in Int
  BY <1>1 DEF BP!Booking
<1> HIDE DEF ids
<1>3. c \in [ids -> Int]
  BY <1>1, <1>2
<1> HIDE DEF c
<1>4. IsFiniteSet(ids) /\ Total(c) \in Int
  BY <1>1, <1>3, SumOfRows
<1>5. QED BY <1>4, FS_CardinalityType DEF Revenue, ids, c

\* A booking adds to the sales of its event what it cost.
LEMMA RevenueAfter ==
    ASSUME NEW bk \in Seq(BP!Booking), NEW row, row.total \in Int,
           NEW new, WP!RowAdded(bk, row, new), NEW n, n = Len(bk) + 1, NEW f
    PROVE  /\ SalesOf(new, f) = IF row.eventId = f THEN SalesOf(bk, f) \cup {n} ELSE SalesOf(bk, f)
           /\ Revenue(new, f) = IF row.eventId = f THEN Revenue(bk, f) + row.total ELSE Revenue(bk, f)
<1> DEFINE ids == SalesOf(bk, f)
           c == [b \in ids |-> bk[b].total]
           d == [b \in ids \cup {n} |-> new[b].total]
<1>1. /\ DOMAIN new = DOMAIN bk \cup {n} /\ n \notin DOMAIN bk
      /\ \A b \in DOMAIN bk : new[b] = bk[b]
      /\ new[n] = row
  BY DEF WP!RowAdded
<1>2. /\ Len(bk) \in Nat /\ ids \in SUBSET (1..Len(bk)) /\ DOMAIN bk = 1..Len(bk)
      /\ \A b \in 1..Len(bk) : bk[b].total \in Int
  <2>1. Len(bk) \in Nat /\ DOMAIN bk = 1..Len(bk) /\ \A b \in 1..Len(bk) : bk[b] \in BP!Booking
    BY TableShape
  <2>2. \A b \in 1..Len(bk) : bk[b].total \in Int
    BY <2>1 DEF BP!Booking
  <2>3. QED BY <2>1, <2>2 DEF SalesOf
<1>3. SalesOf(new, f) = IF row.eventId = f THEN ids \cup {n} ELSE ids
  BY <1>1 DEF SalesOf
<1> HIDE DEF ids
<1>4. c \in [ids -> Int] /\ d[n] = row.total /\ \A b \in ids : d[b] = c[b]
  BY <1>1, <1>2
<1>5. d \in [ids \cup {n} -> Int]
  BY <1>1, <1>2, <1>4
<1>6. [b \in ids |-> new[b].total] = c
  BY <1>1, <1>2
<1> HIDE DEF c, d
<1>7. Total(d) = Total(c) + row.total
  <2>1. PICK m \in Nat : m = Len(bk) /\ n = m + 1
    BY <1>2
  <2>2. ids \in SUBSET (1..m) /\ d \in [ids \cup {m + 1} -> Int] /\ d[m + 1] = row.total
    BY <1>2, <1>4, <1>5, <2>1
  <2>3. \A b \in ids : d[b] = c[b]
    BY <1>4
  <2>4. QED BY <1>4, <2>2, <2>3, SumAfterAppend
<1>8. Revenue(bk, f) = Total(c)
  BY DEF Revenue, c, ids
<1>9. CASE row.eventId = f
  <2>1. Revenue(new, f) = Total(d)
    BY <1>3, <1>9 DEF Revenue, d
  <2>2. QED BY <1>3, <1>7, <1>8, <1>9, <2>1 DEF ids
<1>10. CASE row.eventId # f
  <2>1. Revenue(new, f) = Total(c)
    BY <1>3, <1>6, <1>10 DEF Revenue
  <2>2. QED BY <1>3, <1>8, <1>10, <2>1 DEF ids
<1>11. QED BY <1>9, <1>10

\* A split adds its amount to what the bookings it is among hand out.
LEMMA HandedOutAfter ==
    ASSUME NEW t \in Seq(WP!RevenueSplit), NEW row \in WP!RevenueSplit,
           NEW k, WP!RowAdded(t, row, k), NEW ids
    PROVE  /\ HandedOut(t, ids) \in Int
           /\ HandedOut(k, ids) = HandedOut(t, ids) + (IF row.bookingId \in ids THEN row.amount ELSE 0)
<1> DEFINE rows == SharesIn(t, ids)
<1>1. rows \in SUBSET (DOMAIN t) /\ \A r \in WP!RevenueSplit : r.amount \in Int
  BY DEF SharesIn, WP!RevenueSplit
<1>2. PICK new : new = Len(t) + 1
  OBVIOUS
<1>3. SharesIn(k, ids) = IF row.bookingId \in ids THEN rows \cup {new} ELSE rows
  BY <1>2 DEF SharesIn, WP!RowAdded
<1>4. HandedOut(t, ids) = WP!AmountIn(t, rows)
  BY DEF HandedOut
<1> HIDE DEF rows
<1>5. WP!AmountIn(t, rows) \in Int
  BY <1>1, WP!AmountsType, WalletsParametersFit
<1>6. WP!AmountIn(k, rows) = WP!AmountIn(t, rows)
  BY <1>1, WP!AmountsKept, WalletsParametersFit
<1>7. WP!AmountIn(k, rows \cup {new}) = WP!AmountIn(t, rows) + row.amount
  BY <1>1, <1>2, WP!AmountsWithNew, WalletsParametersFit
<1>8. CASE row.bookingId \in ids
  BY <1>3, <1>4, <1>5, <1>7, <1>8 DEF HandedOut
<1>9. CASE row.bookingId \notin ids
  BY <1>3, <1>4, <1>5, <1>6, <1>9 DEF HandedOut
<1>10. QED BY <1>8, <1>9

\* Splits of other bookings hand out nothing of these.
LEMMA HandedOutOfKnown ==
    ASSUME NEW t, NEW ids, NEW n, \A i \in DOMAIN t : t[i].bookingId # n
    PROVE  HandedOut(t, ids \cup {n}) = HandedOut(t, ids)
<1>1. SharesIn(t, ids \cup {n}) = SharesIn(t, ids)
  BY DEF SharesIn
<1>2. QED BY <1>1 DEF HandedOut

\* One event's books, in the tables sp and bk.
Balanced(sp, bk, e) ==
    HandedOut(sp, SalesOf(bk, e)) - Revenue(bk, e)
        \in -Cardinality(SalesOf(bk, e))..Cardinality(SalesOf(bk, e))

LEMMA BookKeepsSplits ==
    ASSUME SaleInv, SplitsNamed, NEW u \in Users, NEW h \in DOMAIN hold, Book(u, h),
           NEW f, Balanced(split, booking, f),
           NEW sp, sp = split', NEW bk, bk = booking'
    PROVE  Balanced(sp, bk, f) /\ \A i \in DOMAIN sp : sp[i].bookingId \in DOMAIN bk
<1>1. booking \in Seq(BP!Booking) /\ split \in Seq(WP!RevenueSplit)
  BY DEF SaleInv, BP!TypeOK, WP!TypeOK
<1>2. PICK e \in DOMAIN event, m \in Managers, total \in Payments, n \in Nat :
             total \in Int /\ BookEffect(u, h, e, m, total, n)
  BY BookStep
<1>3. PICK a \in Int, s \in Int : WP!TransferEffect(u, m, total, n, a, s)
  BY <1>2, WP!TransferStep, WalletsParametersFit DEF SaleInv, BookEffect
<1>4. PICK one, two, part :
         /\ one = WP!SplitRow(n, a, "Admin") /\ one \in WP!RevenueSplit
         /\ two = WP!SplitRow(n, s, "Manager") /\ two \in WP!RevenueSplit
         /\ part = Append(split, one) /\ sp = Append(part, two)
         /\ s + a - total \in {-1, 0, 1}
  BY <1>3 DEF WP!TransferEffect
<1>5. one.bookingId = n /\ one.amount = a /\ two.bookingId = n /\ two.amount = s
  BY <1>4 DEF WP!SplitRow
<1>6. WP!RowAdded(split, one, part) /\ part \in Seq(WP!RevenueSplit)
  BY <1>1, <1>4, WP!RowAppended, WalletsParametersFit
<1>7. WP!RowAdded(part, two, sp)
  BY <1>4, <1>6, WP!RowAppended, WalletsParametersFit
<1>8. /\ n = Len(booking) + 1 /\ DOMAIN bk = DOMAIN booking \cup {n} /\ n \notin DOMAIN booking
      /\ \A b \in DOMAIN booking : bk[b] = booking[b]
      /\ bk[n].eventId = e /\ bk[n].total = total
  BY <1>2 DEF BookEffect
<1>9. \A i \in DOMAIN sp : sp[i].bookingId \in DOMAIN bk
  BY <1>5, <1>6, <1>7, <1>8 DEF WP!RowAdded, SplitsNamed
<1> PICK ids, new : ids = SalesOf(booking, f) /\ new = SalesOf(bk, f)
  OBVIOUS
<1>10. /\ new = IF f = e THEN ids \cup {n} ELSE ids
       /\ Revenue(bk, f) = IF f = e THEN Revenue(booking, f) + total ELSE Revenue(booking, f)
  <2>1. PICK row : row = bk[n]
    OBVIOUS
  <2>2. WP!RowAdded(booking, row, bk) /\ row.total = total /\ row.eventId = e
    BY <1>8, <2>1 DEF WP!RowAdded
  <2>3. total \in Int
    BY <1>2
  <2>4. QED BY <1>1, <1>8, <2>2, <2>3, RevenueAfter
<1>11. /\ IsFiniteSet(ids) /\ Cardinality(ids) \in Nat /\ Revenue(booking, f) \in Int
       /\ ids \subseteq DOMAIN booking
  BY <1>1, SalesAreFinite DEF SalesOf
<1>12. HandedOut(split, ids) - Revenue(booking, f) \in -Cardinality(ids)..Cardinality(ids)
  BY DEF Balanced
<1>13. HandedOut(split, new) \in Int /\ HandedOut(split, new) = HandedOut(split, ids)
  <2>1. \A i \in DOMAIN split : split[i].bookingId # n
    BY <1>8 DEF SplitsNamed
  <2>2. HandedOut(split, ids \cup {n}) = HandedOut(split, ids)
    BY <2>1, HandedOutOfKnown
  <2>3. HandedOut(split, new) \in Int
    BY <1>1, <1>4, <1>6, HandedOutAfter
  <2>4. QED BY <1>10, <2>2, <2>3
<1>14. HandedOut(part, new) = HandedOut(split, new) + (IF n \in new THEN a ELSE 0)
  BY <1>1, <1>4, <1>5, <1>6, HandedOutAfter
<1>15. HandedOut(sp, new) = HandedOut(part, new) + (IF n \in new THEN s ELSE 0)
  <2>1. HandedOut(sp, new) = HandedOut(part, new) + (IF two.bookingId \in new THEN two.amount ELSE 0)
    <3>1. part \in Seq(WP!RevenueSplit) /\ two \in WP!RevenueSplit
      BY <1>4, <1>6
    <3>2. QED BY <1>7, <3>1, HandedOutAfter
  <2>2. QED BY <1>5, <2>1
<1>16. n \notin ids
  BY <1>8, <1>11
<1>17. CASE f = e
  <2>1. n \in new /\ Cardinality(new) = Cardinality(ids) + 1
    <3>1. new = ids \cup {n}
      BY <1>10, <1>17
    <3>2. QED BY <1>11, <1>16, <3>1, FS_AddElement
  <2>2. HandedOut(sp, new) = HandedOut(split, ids) + a + s
    BY <1>13, <1>14, <1>15, <2>1
  <2>3. HandedOut(sp, new) - Revenue(bk, f)
           = (HandedOut(split, ids) - Revenue(booking, f)) + ((s + a) - total)
    BY <1>2, <1>10, <1>11, <1>13, <1>17, <2>2
  <2>4. HandedOut(sp, new) - Revenue(bk, f) \in -Cardinality(new)..Cardinality(new)
    <3>1. \A c \in Nat : \A x \in -c..c, d \in {-1, 0, 1} : x + d \in -(c + 1)..(c + 1)
      OBVIOUS
    <3>2. (s + a) - total \in {-1, 0, 1}
      BY <1>2, <1>3, <1>4
    <3>3. QED BY <1>11, <1>12, <2>1, <2>3, <3>1, <3>2
  <2>5. QED BY <1>9, <2>4 DEF Balanced
<1>18. CASE f # e
  <2>1. new = ids /\ n \notin new
    BY <1>10, <1>16, <1>18
  <2>2. HandedOut(sp, new) = HandedOut(split, ids)
    BY <1>13, <1>14, <1>15, <2>1
  <2>3. HandedOut(sp, new) - Revenue(bk, f) \in -Cardinality(new)..Cardinality(new)
    BY <1>10, <1>12, <1>18, <2>1, <2>2
  <2>4. QED BY <1>9, <2>3 DEF Balanced
<1>19. QED BY <1>17, <1>18

LEMMA SplitsNext ==
    SaleInv /\ SplitsNamed /\ SplitsMatchRevenue /\ [Next]_tvars
        => SplitsNamed' /\ SplitsMatchRevenue'
<1> SUFFICES ASSUME SaleInv, SplitsNamed, SplitsMatchRevenue, [Next]_tvars
             PROVE  SplitsNamed' /\ SplitsMatchRevenue'
  OBVIOUS
<1>1. PICK sp, bk : sp = split' /\ bk = booking'
  OBVIOUS
<1>2. \A e \in DOMAIN event : Balanced(split, booking, e)
  BY SplitsInParts DEF Balanced
<1>3. ASSUME NEW e, e \notin DOMAIN event
      PROVE  Balanced(split, booking, e)
  <2>1. SalesOf(booking, e) = {}
    BY <1>3 DEF SalesOf, SaleInv, BP!TypeOK
  <2>2. SharesIn(split, {}) = {} /\ DOMAIN [b \in {} |-> booking[b].total] = {}
    BY DEF SharesIn
  <2>3. HandedOut(split, {}) = 0
    BY <2>2, WP!NothingInNoRows, WalletsParametersFit DEF HandedOut
  <2>4. Revenue(booking, e) = 0
    BY <2>1, <2>2, TotalEmpty DEF Revenue
  <2>5. Cardinality({}) = 0
    BY FS_EmptySet
  <2>6. QED BY <2>1, <2>3, <2>4, <2>5 DEF Balanced
<1>4. \A e : Balanced(split, booking, e)
  BY <1>2, <1>3
<1>5. SUFFICES /\ \A i \in DOMAIN sp : sp[i].bookingId \in DOMAIN bk
               /\ \A e : Balanced(sp, bk, e)
  <2>1. SplitsMatchRevenue' <=> \A e \in DOMAIN event' : Balanced(split', booking', e)
    BY DEF SplitsMatchRevenue, Balanced, HandedOut, Revenue, SalesOf, SharesIn,
           W!AmountIn, WP!AmountIn, W!Total, WP!Total, W!Count, WP!Count, W!Opposite, WP!Opposite, W!Units, WP!Units,
           W!Cardinality, WP!Cardinality
  <2>2. SplitsNamed' <=> \A i \in DOMAIN split' : split'[i].bookingId \in DOMAIN booking'
    BY DEF SplitsNamed
  <2>3. QED BY <1>1, <2>1, <2>2
<1>6. ASSUME NEW u \in Users, NEW h \in DOMAIN hold, Book(u, h)
      PROVE  /\ \A i \in DOMAIN sp : sp[i].bookingId \in DOMAIN bk
             /\ \A e : Balanced(sp, bk, e)
  BY <1>1, <1>4, <1>6, BookKeepsSplits
<1>7. ASSUME split' = split, booking' = booking
      PROVE  /\ \A i \in DOMAIN sp : sp[i].bookingId \in DOMAIN bk
             /\ \A e : Balanced(sp, bk, e)
  BY <1>1, <1>4, <1>7 DEF SplitsNamed
<1>8. QED BY <1>6, <1>7, OtherStep DEF OtherEffect, ledgers

\* What an event's bookings brought in is what its splits hand out, within
\* a cent for each of them, for any amounts and any number of bookings.
THEOREM SplitsMatchRevenueHolds == Spec => []SplitsMatchRevenue
<1>1. Init => SplitsNamed /\ SplitsMatchRevenue
  <2> SUFFICES ASSUME Init PROVE SplitsNamed /\ SplitsMatchRevenue
    OBVIOUS
  <2>1. DOMAIN event = {} /\ DOMAIN split = {}
    BY EmptySeq DEF Init, B!Init, W!Init
  <2>2. QED BY <2>1 DEF SplitsNamed, SplitsMatchRevenue
<1>2. QED BY <1>1, SaleInvariant, SplitsNext, PTL DEF Spec

-----------------------------------------------------------------------------
(* What reports see.                                                       *)

EventColumnsOf(row) ==
    [managerId |-> row.managerId, status |-> row.status, price |-> row.price,
     totalSeats |-> row.totalSeats, bookedSeats |-> row.bookedSeats]

BookingColumnsOf(row) ==
    [eventId |-> row.eventId, quantity |-> row.quantity, total |-> row.total,
     status |-> row.status]

LEMMA ColumnsOfRows ==
    /\ EventColumns = [e \in DOMAIN event |-> EventColumnsOf(event[e])]
    /\ BookingColumns = [b \in DOMAIN booking |-> BookingColumnsOf(booking[b])]
    /\ EventColumns' = [e \in DOMAIN event' |-> EventColumnsOf(event'[e])]
    /\ BookingColumns' = [b \in DOMAIN booking' |-> BookingColumnsOf(booking'[b])]
BY DEF EventColumns, BookingColumns, EventColumnsOf, BookingColumnsOf

LEMMA ColumnsShape ==
    ASSUME BP!TypeOK
    PROVE  /\ Len(event) \in Nat /\ DOMAIN event = 1..Len(event)
           /\ Len(booking) \in Nat /\ DOMAIN booking = 1..Len(booking)
           /\ Len(EventColumns) = Len(event) /\ Len(BookingColumns) = Len(booking)
           /\ DOMAIN EventColumns = DOMAIN event /\ DOMAIN BookingColumns = DOMAIN booking
           /\ \A e \in DOMAIN event : event[e] \in BP!Event /\ EventColumns[e] = EventColumnsOf(event[e])
<1>1. /\ Len(event) \in Nat /\ DOMAIN event = 1..Len(event)
      /\ \A e \in DOMAIN event : event[e] \in BP!Event
      /\ Len(booking) \in Nat /\ DOMAIN booking = 1..Len(booking)
  BY TableShape DEF BP!TypeOK
<1>2. Len(EventColumns) = Len(event)
  <2>1. PICK f : f = EventColumns
    OBVIOUS
  <2>2. PICK T : T = {f[i] : i \in 1..Len(event)}
    OBVIOUS
  <2>3. f = [i \in 1..Len(event) |-> f[i]] /\ \A i \in 1..Len(event) : f[i] \in T
    BY <1>1, <2>1, <2>2, ColumnsOfRows
  <2>4. QED BY <1>1, <2>1, <2>3, FunctionIsTable
<1>3. Len(BookingColumns) = Len(booking)
  <2>1. PICK f : f = BookingColumns
    OBVIOUS
  <2>2. PICK T : T = {f[i] : i \in 1..Len(booking)}
    OBVIOUS
  <2>3. f = [i \in 1..Len(booking) |-> f[i]] /\ \A i \in 1..Len(booking) : f[i] \in T
    BY <1>1, <2>1, <2>2, ColumnsOfRows
  <2>4. QED BY <1>1, <2>1, <2>3, FunctionIsTable
<1>4. QED BY <1>1, <1>2, <1>3, ColumnsOfRows

\* Two columns rewritten, the others kept.
UpdatedColumnsOf(row, seats, price) ==
    [EventColumnsOf(row) EXCEPT !.totalSeats = seats, !.price = price]

LEMMA UpdatedColumns ==
    ASSUME NEW old, NEW new, NEW seats, NEW price,
           new.totalSeats = seats, new.price = price,
           new.managerId = old.managerId, new.status = old.status,
           new.bookedSeats = old.bookedSeats
    PROVE  EventColumnsOf(new) = UpdatedColumnsOf(old, seats, price)
<1> DEFINE row == [EventColumnsOf(old) EXCEPT !.totalSeats = seats, !.price = price]
<1>1. DOMAIN row = {"managerId", "status", "price", "totalSeats", "bookedSeats"}
  BY DEF EventColumnsOf
<1>2. /\ row.managerId = old.managerId /\ row.status = old.status /\ row.price = price
      /\ row.totalSeats = seats /\ row.bookedSeats = old.bookedSeats
  BY DEF EventColumnsOf
<1>3. row = [column \in DOMAIN row |-> row[column]]
  BY DEF EventColumnsOf
<1> HIDE DEF row
<1>4. EventColumnsOf(new) = row
  BY <1>1, <1>2, <1>3 DEF EventColumnsOf
<1>5. QED BY <1>4 DEF row, UpdatedColumnsOf

LEMMA ManageIsSales ==
    ASSUME BP!TypeOK, NEW m \in Managers, B!ManageBy(m), split' = split
    PROVE  S!Next
<1>1. /\ Len(event) \in Nat /\ DOMAIN event = 1..Len(event)
      /\ Len(EventColumns) = Len(event) /\ DOMAIN EventColumns = DOMAIN event
      /\ \A e \in DOMAIN event : event[e] \in BP!Event /\ EventColumns[e] = EventColumnsOf(event[e])
  BY ColumnsShape
<1>2. booking' = booking /\ BookingColumns' = BookingColumns
  BY ColumnsOfRows DEF B!ManageBy, B!CreateEvent, B!UpdateEvent, B!UpdateEventStatus
<1>3. ASSUME NEW seats \in SeatCounts, NEW price \in Prices, NEW date \in Dates,
             B!CreateEvent(m, seats, price, date)
      PROVE  S!CreateEvent(m, seats, price)
  <2>n. PICK n \in Nat : n = Len(event)
    BY <1>1
  <2>f. PICK f, g : f = EventColumns /\ g = EventColumns'
    OBVIOUS
  <2>1. n < MaxEvents /\ event' = Append(event, B!NewEvent(m, seats, price, date))
    BY <1>3, <2>n DEF B!CreateEvent
  <2>2. event \in Seq(BP!Event)
    BY DEF BP!TypeOK
  <2>3. /\ DOMAIN event' = 1..(n + 1)
        /\ \A e \in 1..n : event'[e] = event[e]
        /\ event'[n + 1] = B!NewEvent(m, seats, price, date)
    BY <1>1, <2>n, <2>1, <2>2
  <2>4. /\ f = [e \in 1..n |-> f[e]]
        /\ g = [e \in 1..(n + 1) |-> g[e]]
        /\ \A e \in 1..n : g[e] = f[e]
        /\ g[n + 1] = EventColumnsOf(event'[n + 1])
    <3>1. /\ f = [e \in 1..n |-> EventColumnsOf(event[e])]
          /\ g = [e \in 1..(n + 1) |-> EventColumnsOf(event'[e])]
      BY <1>1, <2>n, <2>f, <2>3, ColumnsOfRows
    <3>2. n + 1 \in 1..(n + 1) /\ \A e \in 1..n : e \in 1..(n + 1)
      BY <2>n
    <3>3. g[n + 1] = EventColumnsOf(event'[n + 1])
      BY <3>1, <3>2
    <3>4. \A e \in 1..n : g[e] = f[e]
      BY <2>3, <3>1, <3>2
    <3>5. QED BY <3>1, <3>3, <3>4
  <2>5. g = Append(f, g[n + 1]) /\ Len(f) = n
    BY <2>n, <2>4, TableWithRow
  <2>6. g[n + 1] = [managerId |-> m, status |-> "Active", price |-> price,
                    totalSeats |-> seats, bookedSeats |-> 0]
    BY <2>3, <2>4 DEF B!NewEvent, EventColumnsOf
  <2>7. QED BY <1>2, <2>f, <2>1, <2>5, <2>6 DEF S!CreateEvent
<1>4. ASSUME NEW seats \in SeatCounts, NEW price \in Prices, NEW date \in Dates,
             NEW e \in DOMAIN event, B!UpdateEvent(m, e, seats, price, date)
      PROVE  S!UpdateEvent(e, seats, price)
  <2>1. event' = [event EXCEPT ![e].totalSeats = seats, ![e].price = price, ![e].date = date]
    BY <1>4 DEF B!UpdateEvent
  <2>2. /\ DOMAIN event' = DOMAIN event
        /\ \A f \in DOMAIN event : f # e => event'[f] = event[f]
        /\ event'[e] = [event[e] EXCEPT !.totalSeats = seats, !.price = price, !.date = date]
    BY <2>1
  <2>3. EventColumnsOf(event'[e]) = UpdatedColumnsOf(event[e], seats, price)
    <3>1. /\ event'[e].totalSeats = seats /\ event'[e].price = price
          /\ event'[e].managerId = event[e].managerId /\ event'[e].status = event[e].status
          /\ event'[e].bookedSeats = event[e].bookedSeats
      BY <1>1, <2>2 DEF BP!Event
    <3>2. QED BY <3>1, UpdatedColumns
  <2>4. EventColumns' = [EventColumns EXCEPT ![e].totalSeats = seats, ![e].price = price]
    <3>1. EventColumns' = [EventColumns EXCEPT ![e] = UpdatedColumnsOf(event[e], seats, price)]
      BY <1>1, <2>2, <2>3, ColumnsOfRows
    <3>2. QED BY <1>1, <3>1 DEF UpdatedColumnsOf
  <2>5. QED BY <1>2, <2>4 DEF S!UpdateEvent
<1>5. ASSUME NEW e \in DOMAIN event, NEW status \in B!EventStatus,
             B!UpdateEventStatus(m, e, status)
      PROVE  S!SetStatus({e}, status)
  <2>1. event' = [event EXCEPT ![e].status = status]
    BY <1>5 DEF B!UpdateEventStatus
  <2>2. /\ DOMAIN event' = DOMAIN event
        /\ \A f \in DOMAIN event : f # e => event'[f] = event[f]
        /\ event'[e] = [event[e] EXCEPT !.status = status]
    BY <2>1
  <2>3. EventColumnsOf(event'[e]) = [EventColumnsOf(event[e]) EXCEPT !.status = status]
    BY <1>1, <2>2 DEF EventColumnsOf, BP!Event
  <2>4. EventColumns' = [f \in DOMAIN EventColumns |->
           IF f \in {e} THEN [EventColumns[f] EXCEPT !.status = status] ELSE EventColumns[f]]
    BY <1>1, <2>2, <2>3, ColumnsOfRows
  <2>5. S!Cardinality({e}) = 1
    BY FS_Singleton DEF S!Cardinality, Cardinality
  <2>6. QED BY <1>2, <2>4, <2>5 DEF S!SetStatus
<1>6. \A e \in DOMAIN event : {e} \in SUBSET DOMAIN event
  OBVIOUS
<1>7. B!EventStatus = S!EventStatus
  BY DEF B!EventStatus, S!EventStatus
<1>8. QED BY <1>1, <1>3, <1>4, <1>5, <1>6, <1>7 DEF B!ManageBy, S!Next

LEMMA CronIsSales ==
    ASSUME BP!TypeOK, B!HandleCompletedEvents, split' = split
    PROVE  S!Next
<1> DEFINE over == {e \in DOMAIN event : B!IsOver(event[e])}
<1>1. /\ DOMAIN EventColumns = DOMAIN event
      /\ \A e \in DOMAIN event : event[e] \in BP!Event /\ EventColumns[e] = EventColumnsOf(event[e])
  BY ColumnsShape
<1>2. booking' = booking /\ BookingColumns' = BookingColumns
  BY ColumnsOfRows DEF B!HandleCompletedEvents
<1>3. /\ DOMAIN event' = DOMAIN event
      /\ \A e \in DOMAIN event :
            event'[e] = IF e \in over THEN [event[e] EXCEPT !.status = "Completed"] ELSE event[e]
  BY DEF B!HandleCompletedEvents
<1>4. over \in SUBSET DOMAIN event
  OBVIOUS
<1> HIDE DEF over
<1>5. \A e \in DOMAIN event : EventColumnsOf(event'[e]) =
         IF e \in over THEN [EventColumnsOf(event[e]) EXCEPT !.status = "Completed"]
                       ELSE EventColumnsOf(event[e])
  <2> SUFFICES ASSUME NEW e \in DOMAIN event
               PROVE  EventColumnsOf(event'[e]) =
                         IF e \in over THEN [EventColumnsOf(event[e]) EXCEPT !.status = "Completed"]
                                       ELSE EventColumnsOf(event[e])
    OBVIOUS
  <2>1. CASE e \in over
    BY <1>1, <1>3, <2>1 DEF EventColumnsOf, BP!Event
  <2>2. CASE e \notin over
    BY <1>3, <2>2
  <2>3. QED BY <2>1, <2>2
<1>6. EventColumns' = [e \in DOMAIN EventColumns |->
         IF e \in over THEN [EventColumns[e] EXCEPT !.status = "Completed"] ELSE EventColumns[e]]
  BY <1>1, <1>3, <1>5, ColumnsOfRows
<1>7. S!SetStatus(over, "Completed") /\ "Completed" \in S!EventStatus
  BY <1>2, <1>6 DEF S!SetStatus, S!EventStatus
<1>8. QED BY <1>1, <1>4, <1>7 DEF S!Next

LEMMA BookIsSales ==
    ASSUME SaleInv, NEW u \in Users, NEW h \in DOMAIN hold, Book(u, h)
    PROVE  S!Next
<1> DEFINE e == hold[h].eventId
           q == hold[h].quantity
           n == Len(booking)
           total == q * event[e].price
<1>1. /\ n \in Nat /\ DOMAIN booking = 1..n
      /\ Len(BookingColumns) = n /\ DOMAIN EventColumns = DOMAIN event
      /\ \A f \in DOMAIN event : event[f] \in BP!Event /\ EventColumns[f] = EventColumnsOf(event[f])
  BY ColumnsShape DEF SaleInv
<1>2. e \in DOMAIN event /\ q \in Quantities
  BY DEF SaleInv, BP!TypeOK, BP!HeldAsAsked
<1>3. /\ Len(booking) < MaxBookings /\ EventColumns[e].bookedSeats + q <= EventColumns[e].totalSeats
  <2>1. event[e].bookedSeats + q <= event[e].totalSeats /\ n < MaxBookings
    BY DEF Book, B!Book, B!EnoughSeats
  <2>2. EventColumns[e].bookedSeats = event[e].bookedSeats
        /\ EventColumns[e].totalSeats = event[e].totalSeats
    BY <1>1, <1>2 DEF EventColumnsOf
  <2>3. QED BY <2>1, <2>2
<1>4. EventColumns' = [EventColumns EXCEPT ![e].bookedSeats = @ + q]
  <2>1. event' = [event EXCEPT ![e].bookedSeats = event[e].bookedSeats + q]
    BY DEF Book, B!Book, B!BookedSeatsAfter
  <2>2. /\ DOMAIN event' = DOMAIN event
        /\ \A f \in DOMAIN event : f # e => event'[f] = event[f]
        /\ event'[e] = [event[e] EXCEPT !.bookedSeats = event[e].bookedSeats + q]
    BY <1>2, <2>1
  <2>3. EventColumnsOf(event'[e]) =
           [EventColumnsOf(event[e]) EXCEPT !.bookedSeats = event[e].bookedSeats + q]
    BY <1>1, <1>2, <2>2 DEF EventColumnsOf, BP!Event
  <2>4. EventColumns' = [EventColumns EXCEPT ![e] =
           [EventColumnsOf(event[e]) EXCEPT !.bookedSeats = event[e].bookedSeats + q]]
    BY <1>1, <1>2, <2>2, <2>3, ColumnsOfRows
  <2>5. EventColumns[e] = EventColumnsOf(event[e])
        /\ EventColumns[e].bookedSeats = event[e].bookedSeats
    BY <1>1, <1>2 DEF EventColumnsOf
  <2>6. QED BY <1>1, <1>2, <2>4, <2>5
<1>5. EventColumns[e].price = event[e].price
  BY <1>1, <1>2 DEF EventColumnsOf
<1>6. BookingColumns' = Append(BookingColumns,
         [eventId |-> e, quantity |-> q, total |-> total, status |-> "Confirmed"])
  <2>f. PICK f, g, m : f = BookingColumns /\ g = BookingColumns' /\ m = n
    OBVIOUS
  <2>1. booking' = Append(booking, B!NewBooking(h)) /\ booking \in Seq(BP!Booking)
    BY DEF Book, B!Book, SaleInv, BP!TypeOK
  <2>2. /\ m \in Nat /\ DOMAIN booking' = 1..(m + 1) /\ DOMAIN booking = 1..m
        /\ \A b \in 1..m : booking'[b] = booking[b]
        /\ booking'[m + 1] = B!NewBooking(h)
    BY <1>1, <2>f, <2>1
  <2>3. /\ f = [b \in 1..m |-> f[b]]
        /\ g = [b \in 1..(m + 1) |-> g[b]]
        /\ \A b \in 1..m : g[b] = f[b]
        /\ g[m + 1] = BookingColumnsOf(booking'[m + 1])
    <3>1. /\ f = [b \in 1..m |-> BookingColumnsOf(booking[b])]
          /\ g = [b \in 1..(m + 1) |-> BookingColumnsOf(booking'[b])]
      BY <2>f, <2>2, ColumnsOfRows
    <3>2. m + 1 \in 1..(m + 1) /\ \A b \in 1..m : b \in 1..(m + 1)
      BY <2>2
    <3>3. g[m + 1] = BookingColumnsOf(booking'[m + 1])
      BY <3>1, <3>2
    <3>4. \A b \in 1..m : g[b] = f[b]
      BY <2>2, <3>1, <3>2
    <3>5. QED BY <3>1, <3>3, <3>4
  <2>4. g = Append(f, g[m + 1]) /\ Len(f) = m
    <3>1. m \in Nat
      BY <2>2
    <3>2. QED BY <2>3, <3>1, TableWithRow
  <2>5. g[m + 1] = [eventId |-> e, quantity |-> q, total |-> total, status |-> "Confirmed"]
    BY <2>2, <2>3 DEF B!NewBooking, BookingColumnsOf
  <2>6. QED BY <2>f, <2>4, <2>5
<1>7. \E s \in SharesOf(total) :
         split' = split \o
            <<[bookingId |-> n + 1, amount |-> s[1], splitType |-> "Admin"],
              [bookingId |-> n + 1, amount |-> s[2], splitType |-> "Manager"]>>
  <2>1. PICK a \in W!AdminShares(total), s \in W!ManagerShares(total) :
           split' = Append(Append(split, W!SplitRow(n + 1, a, "Admin")),
                           W!SplitRow(n + 1, s, "Manager"))
    BY DEF Book, W!Transfer, TotalOf, NextBookingId
  <2>2. PICK one, two : one = W!SplitRow(n + 1, a, "Admin") /\ two = W!SplitRow(n + 1, s, "Manager")
    OBVIOUS
  <2>3. PICK T : T = {split[i] : i \in DOMAIN split} \cup {one, two}
    OBVIOUS
  <2>4. split \in Seq(T) /\ one \in T /\ two \in T
    <3>1. Len(split) \in Nat /\ split = [i \in 1..Len(split) |-> split[i]]
      BY LenProperties DEF SaleInv, WP!TypeOK
    <3>2. \A i \in 1..Len(split) : split[i] \in T
      BY <2>3, <3>1
    <3>3. QED BY <2>3, <3>1, <3>2, FunctionIsTable
  <2>5. split' = split \o <<one, two>>
    BY <2>1, <2>2, <2>4, TwoRows
  <2>6. <<a, s>> \in SharesOf(total) /\ <<a, s>>[1] = a /\ <<a, s>>[2] = s
    BY <2>1 DEF SharesOf
  <2>7. QED BY <2>2, <2>5, <2>6 DEF W!SplitRow
<1>8. S!Sell(e, q)
  BY <1>1, <1>3, <1>4, <1>5, <1>6, <1>7 DEF S!Sell, S!BookingId
<1>9. QED BY <1>1, <1>2, <1>8 DEF S!Next

LEMMA SalesStep ==
    SaleInv /\ [Next]_tvars => [S!Next]_(S!svars)
<1> SUFFICES ASSUME SaleInv, [Next]_tvars PROVE [S!Next]_(S!svars)
  OBVIOUS
<1>1. ASSUME NEW u \in Users, NEW h \in DOMAIN hold, Book(u, h)
      PROVE  S!Next
  BY <1>1, BookIsSales
<1>2. ASSUME NEW m \in Managers, Manage(m)
      PROVE  S!Next
  BY <1>2, ManageIsSales DEF Manage, ledgers, SaleInv
<1>3. CASE UNCHANGED <<event, booking, split>>
  BY <1>3, ColumnsOfRows DEF S!svars, EventColumns, BookingColumns
<1>4. CASE Cron
  <2>1. CASE B!HandleCompletedEvents
    BY <1>4, <2>1, CronIsSales DEF Cron, ledgers, SaleInv
  <2>2. QED BY <1>3, <1>4, <2>1
            DEF Cron, ledgers, B!Cron, B!ClearExpiredHolds, B!ClearExpiredProcessingHolds
<1>5. CASE \E u \in Users, e \in DOMAIN event, q \in Quantities : HoldSeats(u, e, q)
  BY <1>3, <1>5 DEF HoldSeats, ledgers, B!HoldSeats
<1>6. CASE Tick \/ UNCHANGED tvars
  BY <1>3, <1>6 DEF Tick, ledgers, B!Tick, tvars, tables
<1>7. CASE Account
  <2>1. split' = split
    BY <1>7, SameAccount, OtherStep DEF Account, W!Account, W!Register, W!SeedAdminWallet,
            W!Deposit, W!AdminDeposit
  <2>2. QED BY <1>3, <1>7, <2>1 DEF Account, tables
<1>8. QED BY <1>1, <1>2, <1>4, <1>5, <1>6, <1>7 DEF Next

\* Bookings, payments, managers and cron jobs change what reports see only
\* as Sales says, for any number of customers, events and bookings.
THEOREM RefinesSales == Spec => ImplementsSales
<1>1. Init => S!Init
  <2> SUFFICES ASSUME Init PROVE S!Init
    OBVIOUS
  <2>1. event = <<>> /\ booking = <<>> /\ split = <<>>
    BY DEF Init, B!Init, W!Init
  <2>2. DOMAIN EventColumns = {} /\ DOMAIN BookingColumns = {}
    BY <2>1, EmptySeq DEF EventColumns, BookingColumns
  <2>3. \A f : f = [i \in {} |-> f[i]] => f = <<>>
    BY EmptySeq
  <2>4. EventColumns = <<>> /\ BookingColumns = <<>>
    BY <2>2, <2>3 DEF EventColumns, BookingColumns
  <2>5. QED BY <2>1, <2>4 DEF S!Init
<1>2. QED BY <1>1, SaleInvariant, SalesStep, PTL DEF Spec, ImplementsSales, S!Spec
=============================================================================
