CONSTANTS
    Users = {u1, u2}
    Managers = {m1}
    MAX_EVENT_TICKETS_PER_DAY = 1
    HOLD_EXPIRE_TIME = 1
    BOOKING_PAYMENT_TIME = 2
    DayOf <- MCDayOf
    DayLength = 3
    Null = Null
    SeatCounts = {20}
    Prices = {1}
    Dates = {2}
    Quantities <- MCQuantities
    MaxEvents = 1
    MaxHolds = 3
    MaxBookings = 2
    Horizon = 4
SPECIFICATION Spec
INVARIANTS
    MaximumPerDay
SYMMETRY Symmetry
