----------------------------- MODULE Reporting ------------------------------
(***************************************************************************)
(* The reports of reporting.service.ts over the tables of Sales.           *)
(*                                                                         *)
(* A report changes nothing, but it is not one snapshot either.  Each      *)
(* query reads the tables as they are at its own moment, those of a        *)
(* Promise.all in any order, and a findMany with include is one query for  *)
(* each table: events, then their bookings, then the splits of these.      *)
(* "past" holds the states of the tables since a report was asked for; a   *)
(* report is a function of the states its queries happen to see.           *)
(*                                                                         *)
(* Names, places and dates, and the occupancy, which is bookedSeats and    *)
(* totalSeats as a percentage, are left out.                               *)
(***************************************************************************)
EXTENDS Sales

CONSTANTS
    RECENT,     \* take: 10 of the admin's dashboard
    MaxPast     \* bound: states of the tables one report may see

ASSUME ReportingAssumption == RECENT \in Nat /\ MaxPast \in Nat

VARIABLE past

rvars == <<event, booking, split, past>>

Now == [event |-> event, booking |-> booking, split |-> split]

-----------------------------------------------------------------------------
(* What one query selects from the tables t.                               *)

WithStatus(t, es, status) == {e \in es : t.event[e].status = status}

BookingsOf(t, es, status) ==
    {b \in DOMAIN t.booking : t.booking[b].eventId \in es /\ t.booking[b].status = status}

SplitsOf(t, bs, splitType) ==
    {s \in DOMAIN t.split : t.split[s].bookingId \in bs /\ t.split[s].splitType = splitType}

Tickets(t, bs) == Total([b \in bs |-> t.booking[b].quantity])

TotalSales(t, bs) == Total([b \in bs |-> t.booking[b].total])

Earnings(t, bs, splitType) ==
    Total([s \in SplitsOf(t, bs, splitType) |-> t.split[s].amount])

Seats(t, es) == Total([e \in es |-> t.event[e].totalSeats])

Booked(t, es) == Total([e \in es |-> t.event[e].bookedSeats])

-----------------------------------------------------------------------------
(* Slips that are easy to make in the definitions below.                   *)

\* InOrder with the splits read before the bookings.
SplitsFirst(i, j, k) == i <= k /\ k <= j

\* OfManager that selects the events of all managers.
OfAnyManager(t, m) == DOMAIN t.event

\* Recent by the number of the first event left out.
RecentButOne(t) == {e \in DOMAIN t.event : e > Len(t.event) - RECENT + 1}

-----------------------------------------------------------------------------
(* Reports made of one findMany with include, whose queries see r.         *)

\* Events, then their bookings, then the splits of these.
InOrder(i, j, k) == i <= j /\ j <= k

IncludeReads ==
    {[event |-> past[w[1]], booking |-> past[w[2]], split |-> past[w[3]]] :
        w \in {w \in (DOMAIN past) \X (DOMAIN past) \X (DOMAIN past) :
                  InOrder(w[1], w[2], w[3])}}

\* One moment for all three.
Snapshot == [event |-> Now, booking |-> Now, split |-> Now]

\* An event and its Confirmed bookings, the same in every report.
EventRow(r, e) ==
    LET row       == r.event.event[e]
        confirmed == BookingsOf(r.booking, {e}, "Confirmed")
        remaining == row.totalSeats - row.bookedSeats
    IN  [eventStatus |-> row.status, price |-> row.price,
         totalSeats |-> row.totalSeats, bookedSeats |-> row.bookedSeats,
         remainingSeats |-> remaining,
         totalConfirmedBookings |-> Cardinality(confirmed),
         totalPendingBookings |-> Cardinality(BookingsOf(r.booking, {e}, "Pending")),
         totalSales |-> TotalSales(r.booking, confirmed),
         managerEarnings |-> Earnings(r.split, confirmed, "Manager"),
         adminEarnings |-> Earnings(r.split, confirmed, "Admin"),
         estimatedLoss |-> IF row.status = "Completed" THEN remaining * row.price ELSE 0]

AdminEventWiseReport(r) == [e \in DOMAIN r.event.event |-> EventRow(r, e)]

\* At most one row: none is 'Event not found'.
AdminEventReport(r, id) == {EventRow(r, e) : e \in DOMAIN r.event.event \cap {id}}

OfManager(t, m) == {e \in DOMAIN t.event : t.event[e].managerId = m}

ManagerEventWiseReport(r, m) == [e \in OfManager(r.event, m) |-> EventRow(r, e)]

ManagerEventReport(r, m, id) == {EventRow(r, e) : e \in OfManager(r.event, m) \cap {id}}

\* totalBookings of a manager are the seats booked, not the bookings.
AdminManagerReport(r, m) ==
    LET es        == OfManager(r.event, m)
        confirmed == BookingsOf(r.booking, es, "Confirmed")
        count(status) == Cardinality(WithStatus(r.event, es, status))
    IN  [totalEvents |-> Cardinality(es), activeEvents |-> count("Active"),
         completedEvents |-> count("Completed"), suspendedEvents |-> count("Suspended"),
         totalBookings |-> Booked(r.event, es),
         totalRevenue |-> TotalSales(r.booking, confirmed),
         managerEarnings |-> Earnings(r.split, confirmed, "Manager"),
         adminEarnings |-> Earnings(r.split, confirmed, "Admin"),
         totalSeats |-> Seats(r.event, es), bookedSeats |-> Booked(r.event, es)]

\* managers: the users whose role is Manager now, from a table Sales does not
\* have.  For anyone else AdminManagerReport is 'Manager not found'.
AdminManagerWiseReport(r, managers) == [m \in managers |-> AdminManagerReport(r, m)]

-----------------------------------------------------------------------------
(* Dashboards.  Query i of the Promise.all sees the state q[i], the        *)
(* findMany with include among them sees r.                                *)

Recent(t) == {e \in DOMAIN t.event : e > Len(t.event) - RECENT}

\* The two counts of users come from a table that Sales does not have.
AdminDashboardReport(q, r) ==
    LET count(t, status) == Cardinality(WithStatus(t, DOMAIN t.event, status))
        tickets(t, status) == Tickets(t, BookingsOf(t, DOMAIN t.event, status))
        confirmed(t) == BookingsOf(t, DOMAIN t.event, "Confirmed")
        \* one groupBy for both types
        admin   == Earnings(q[8], confirmed(q[8]), "Admin")
        manager == Earnings(q[8], confirmed(q[8]), "Manager")
    IN  [totalEvents |-> Len(q[1].event), completedEvents |-> count(q[2], "Completed"),
         activeEvents |-> count(q[3], "Active"), suspendedEvents |-> count(q[4], "Suspended"),
         totalBookings |-> Tickets(q[5], DOMAIN q[5].booking),
         confirmedBookings |-> tickets(q[6], "Confirmed"),
         pendingBookings |-> tickets(q[7], "Pending"),
         totalRevenue |-> admin + manager,
         totalAdminRevenue |-> admin, totalManagerRevenue |-> manager,
         eventWiseReport |-> [e \in Recent(r.event) |-> EventRow(r, e)]]

\* Only the newest event is shown, with the tickets of all events for its own
\* totalConfirmedBookings; the loss is that of all events.
ManagerDashboardReport(q, r, m) ==
    LET count(t, status) == Cardinality(WithStatus(t, OfManager(t, m), status))
        bookings(t, status) == BookingsOf(t, OfManager(t, m), status)
        confirmed(t) == bookings(t, "Confirmed")
        tickets == Tickets(q[5], confirmed(q[5]))
        seats   == Seats(q[10], OfManager(q[10], m))
        booked  == Booked(q[10], OfManager(q[10], m))
        es      == OfManager(r.event, m)
    IN  [totalEvents |-> Cardinality(OfManager(q[1], m)), activeEvents |-> count(q[2], "Active"),
         suspendedEvents |-> count(q[3], "Suspended"),
         completedEvents |-> count(q[4], "Completed"),
         totalConfirmedBookings |-> tickets,
         totalPendingBookings |-> Cardinality(bookings(q[6], "Pending")),
         totalSales |-> TotalSales(q[7], confirmed(q[7])),
         managerEarnings |-> Earnings(q[8], confirmed(q[8]), "Manager"),
         adminEarnings |-> Earnings(q[9], confirmed(q[9]), "Admin"),
         totalSeats |-> seats, bookedSeats |-> booked, remainingSeats |-> seats - booked,
         totalEstimatedLoss |-> Total([e \in es |-> EventRow(r, e).estimatedLoss]),
         eventWiseReport |->
             [e \in {e \in es : \A d \in es : d <= e} |->
                 [EventRow(r, e) EXCEPT !.totalConfirmedBookings = tickets]]]

-----------------------------------------------------------------------------
RInit ==
    /\ Init
    /\ past = <<Now>>

\* A report is asked for.
Ask ==
    /\ past' = <<Now>>
    /\ UNCHANGED svars

\* Something is committed while it runs.
Commit ==
    /\ Len(past) < MaxPast
    /\ Next
    /\ past' = Append(past, Now')

RNext == Ask \/ Commit

RSpec == RInit /\ [][RNext]_rvars

-----------------------------------------------------------------------------
(* What must hold.                                                         *)

\* Every query of a dashboard at one moment.
AtOnce == [i \in 1..10 |-> Now]

\* Asked of one state, the eight reports, each of which selects and adds up for
\* itself, agree: events by status make up all events, the managers' reports and
\* dashboards make up the admin's dashboard, a manager's events make up the
\* manager's dashboard, and the counter bookedSeats is the tickets sold.  Of the
\* managers this holds as long as setRole has not made one with events a User.
ReportsAgree ==
    LET dashboard == AdminDashboardReport(AtOnce, Snapshot)
        rows      == AdminEventWiseReport(Snapshot)
        own(m)    == ManagerDashboardReport(AtOnce, Snapshot, m)
        ownRows(m) == ManagerEventWiseReport(Snapshot, m)
        withEvents == {event[e].managerId : e \in DOMAIN event}
    IN  /\ dashboard.totalEvents =
               dashboard.activeEvents + dashboard.suspendedEvents + dashboard.completedEvents
        /\ \A managers \in {ms \in SUBSET Managers : withEvents \subseteq ms} :
               LET ofManagers == AdminManagerWiseReport(Snapshot, managers) IN
               /\ dashboard.totalEvents = Total([m \in managers |-> ofManagers[m].totalEvents])
               /\ dashboard.confirmedBookings =
                      Total([m \in managers |-> ofManagers[m].totalBookings])
        /\ dashboard.totalBookings = dashboard.confirmedBookings + dashboard.pendingBookings
        /\ dashboard.totalAdminRevenue = Total([m \in Managers |-> own(m).adminEarnings])
        /\ dashboard.totalManagerRevenue = Total([e \in DOMAIN rows |-> rows[e].managerEarnings])
        /\ \A m \in Managers :
               LET es == DOMAIN ownRows(m) IN
               /\ own(m).totalConfirmedBookings = own(m).bookedSeats
               /\ own(m).totalSales = AdminManagerReport(Snapshot, m).totalRevenue
               /\ own(m).totalSales = Total([e \in es |-> ownRows(m)[e].totalSales])
               /\ own(m).managerEarnings = Total([e \in es |-> ownRows(m)[e].managerEarnings])
               /\ own(m).remainingSeats = Total([e \in es |-> ownRows(m)[e].remainingSeats])
               /\ own(m).totalEstimatedLoss = Total([e \in es |-> ownRows(m)[e].estimatedLoss])
               /\ \A e \in DOMAIN event :
                      ManagerEventReport(Snapshot, m, e) # {} =>
                          ManagerEventReport(Snapshot, m, e) = AdminEventReport(Snapshot, e)

\* Whatever is sold while a report runs, in each of its rows the earnings are
\* those of the sales beside them, within a cent for each booking: bookings are
\* read before their splits, which were committed with them.
RowsAddUp ==
    \A r \in IncludeReads :
        /\ \A e \in DOMAIN r.event.event :
               LET row == EventRow(r, e) IN
               row.managerEarnings + row.adminEarnings - row.totalSales
                   \in -row.totalConfirmedBookings .. row.totalConfirmedBookings
        /\ \A m \in Managers :
               LET row == AdminManagerReport(r, m)
                   cents == Cardinality(BookingsOf(r.booking, OfManager(r.event, m), "Confirmed"))
               IN  row.managerEarnings + row.adminEarnings - row.totalRevenue \in -cents .. cents

Size(amount) == IF amount < 0 THEN -amount ELSE amount

\* The splits committed while the report ran, whatever their sign.
SplitsMeanwhile ==
    [s \in DOMAIN split \ DOMAIN past[1].split |-> Size(split[s].amount)]

\* The admin's dashboard sums revenue in one query and lists it by event in
\* another: with no more events than it lists, sum and list differ by no more
\* than was paid and paid back while the report ran, the two not set off
\* against each other.
DashboardOffBySalesMeanwhile ==
    LET meanwhile == Total(SplitsMeanwhile)
    IN  Len(event) <= RECENT =>
            \A r \in IncludeReads : \A i \in DOMAIN past :
                LET d == AdminDashboardReport([j \in 1..8 |-> past[i]], r)
                    listed == Total([e \in DOMAIN d.eventWiseReport |->
                                        d.eventWiseReport[e].adminEarnings
                                        + d.eventWiseReport[e].managerEarnings])
                IN  d.totalRevenue - listed \in -meanwhile .. meanwhile
=============================================================================
