\* Two managers, two events, two bookings, three states per report.
SPECIFICATION RSpec
CONSTANTS
    Managers = {m1, m2}
    Shares <- MCShares
    SeatCounts = {1, 2}
    Prices = {2}
    Quantities <- MCQuantities
    MaxEvents = 2
    MaxBookings = 2
    RECENT = 2
    MaxPast = 3
SYMMETRY Symmetry
INVARIANTS
    ReportsAgree
    RowsAddUp
    DashboardOffBySalesMeanwhile
