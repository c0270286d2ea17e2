CONSTANTS
    Users = {u1, u2}
    Managers = {u2}
    MAX_EVENT_TICKETS_PER_DAY = 2
    HOLD_EXPIRE_TIME = 1
    BOOKING_PAYMENT_TIME = 2
    DayOf <- MCDayOf
    Null = Null
    SeatCounts = {3}
    Prices = {100, 125}
    Payments <- MCPayments
    Dates = {1}
    Quantities <- MCQuantities
    MaxEvents = 1
    MaxHolds = 2
    MaxBookings = 2
    Horizon = 2
    OPENING_BALANCE = 100
    Amounts = {50}
    MaxTopups = 1
SPECIFICATION Spec
INVARIANTS
    NoOverdraft
    LedgerMatchesBalance
    PaymentsBalance
    MoneyConserved
    PaidAsBooked
    SplitsMatchRevenue
PROPERTIES
    ImplementsSales
