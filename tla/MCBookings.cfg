CONSTANTS
    Users = {u1, u2}
    Managers = {m1}
    MAX_EVENT_TICKETS_PER_DAY = 1
    HOLD_EXPIRE_TIME = 1
    BOOKING_PAYMENT_TIME = 2
    DayOf <- MCDayOf
    DayLength = 2
    Null = Null
    SeatCounts = {1, 4}
    Prices = {1}
    Dates = {1, 2}
    Quantities <- MCQuantities
    MaxEvents = 1
    MaxHolds = 3
    MaxBookings = 2
    Horizon = 3
SPECIFICATION FairSpec
INVARIANTS
    DailyLimit
    SeatsMatchBookings
    OneBookingPerHold
PROPERTIES
    ImplementsTicketSale
    SettledIsFinal
    ExpiredHoldsReleased
    PastEventsComplete
