CONSTANTS
    Users = {u1, u2}
    manager = m1
    Managers = {m1}
    MAX_EVENT_TICKETS_PER_DAY = 3
    HOLD_EXPIRE_TIME = 0
    BOOKING_PAYMENT_TIME = 1
    DayOf <- MCDayOf
    DayLength = 1
    Null = Null
    SeatCounts = {2}
    Prices = {1}
    Dates = {0}
    Quantities = {2}
    MaxEvents = 1
    MaxHolds = 2
    MaxBookings = 2
    Horizon = 1
    Calls = {c1, c2}
    Job = job
    OpenEvent <- MCOpenEvent
    Statuses = {"Completed"}
SPECIFICATION TxFairSpec
PROPERTY
    CallsEnd
