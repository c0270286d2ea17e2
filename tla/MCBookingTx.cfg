CONSTANTS
    Users = {u1, u2}
    manager = m1
    Managers = {m1}
    MAX_EVENT_TICKETS_PER_DAY = 2
    HOLD_EXPIRE_TIME = 1
    BOOKING_PAYMENT_TIME = 1
    DayOf <- MCDayOf
    DayLength = 2
    Null = Null
    SeatCounts = {2}
    Prices = {1}
    Dates = {0}
    Quantities <- MCQuantities
    MaxEvents = 1
    MaxHolds = 2
    MaxBookings = 2
    Horizon = 2
    Calls = {c1, c2}
    Job = job
    OpenEvent <- MCOpenEvent
    Statuses = {"Completed"}
SPECIFICATION TxSpec
INVARIANTS
    TypeOK
    OneActiveHold
    DailyLimit
    TablesAgree
PROPERTIES
    SettledIsFinal
    SoldWithinCapacity
SYMMETRY Symmetry
