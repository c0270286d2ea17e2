----------------------------- MODULE BookingTx ------------------------------
(***************************************************************************)
(* holdSeats and book statement by statement.  Bookings takes each of them *)
(* for one step; here several transactions are open at once, wait for each *)
(* other's row locks, read an old snapshot, fail, and are broken up by the *)
(* deadlock detector, while the clock, the cron jobs and the managers go   *)
(* on.  event, hold and booking are what is committed, in commit order.    *)
(*                                                                         *)
(* Of PostgreSQL this models what Serializable promises: a snapshot that   *)
(* the first statement takes before it waits for its lock; an error for    *)
(* who locks or writes a row that changed since its snapshot; an error for *)
(* the later of two that each read what the other wrote.  A transaction    *)
(* may also fail without such a reason: Prisma ends it after five seconds, *)
(* the wallets may refuse to pay.  bookings.service.ts retries nothing.    *)
(***************************************************************************)
EXTENDS Bookings

CONSTANTS
    Calls,     \* the requests that may be open at a time
    Job,       \* the transaction of clearExpiredHolds
    OpenEvent, \* the event there is at first
    Statuses   \* the statuses managers set

\* A new event: bookedSeats is @default(0).
ASSUME TransactionsAssumption ==
    /\ OpenEvent \in Event /\ OpenEvent.bookedSeats = 0
    /\ Job \notin Calls
    /\ Statuses \subseteq EventStatus

VARIABLE tx    \* the transaction each call, and the job, has open

txvars == <<vars, tx>>

Transactions == Calls \cup {Job}

-----------------------------------------------------------------------------
(* Slips that are easy to make in the definitions below, as in Bookings.   *)

\* Serializable, the isolation level left at its default.
NotChecked(t) == TRUE

\* Stale at an isolation level that does not compare with the snapshot.
NeverStale(t, lock) == FALSE

\* Stale, where only holds are compared.
StaleHold(t, lock) == lock.table = "hold" /\ hold[lock.id] # tx[t].snapshot.hold[lock.id]

\* StillExpired without reading the row again.
OnceExpired(lock) == {lock}

\* RolledBack, the error swallowed inside the transaction.
LeftOpen(t) == [tx EXCEPT ![t].at = "failed"]

-----------------------------------------------------------------------------
(* A transaction: the statement it is at, the arguments of its call, its   *)
(* snapshot, the row locks it has, the expired holds its updateMany has    *)
(* still to take, and the times it read off the clock.                     *)

Closed == [at |-> "closed", locks |-> {}]

IsOpen(t) == tx[t] # Closed

\* What the first statement of a transaction fixes.
Opened(statement, user, id, quantity) ==
    [at |-> statement, user |-> user, id |-> id, quantity |-> quantity,
     snapshot |-> [event |-> event, hold |-> hold, booking |-> booking],
     locks |-> {}, rows |-> {}, startedAt |-> Null, createdAt |-> Null]

Lock(table, id, mode) == [table |-> table, id |-> id, mode |-> mode]

\* FOR UPDATE keeps everybody off a row.  An update that leaves the key alone
\* keeps other updates off it, but not the FOR KEY SHARE of a foreign key.
Conflict(k, l) ==
    /\ k.table = l.table
    /\ k.id = l.id
    /\ "KeyShare" \in {k.mode, l.mode} => "Update" \in {k.mode, l.mode}

Holders(lock) == {t \in Transactions : \E l \in tx[t].locks : Conflict(lock, l)}

Free(t, lock) == Holders(lock) \subseteq {t}

\* The event that a call is about.
EventOf(t) ==
    IF tx[t].at \in {"findHold", "createBooking", "countSeats", "settle"}
    THEN tx[t].snapshot.hold[tx[t].id].eventId ELSE tx[t].id

\* The locks that the statement a transaction is at asks for: an updateMany
\* takes its rows one at a time, in an order nobody promises.
Wanted(t) ==
    CASE tx[t].at = "findEvent"     -> {Lock("event", EventOf(t), "Update")}
      [] tx[t].at = "expireHolds"   -> {Lock("hold", h, "NoKeyUpdate") : h \in tx[t].rows}
      [] tx[t].at = "findHold"      -> {Lock("hold", tx[t].id, "Update")}
      [] tx[t].at = "createBooking" -> {Lock("event", EventOf(t), "KeyShare")}
      [] tx[t].at = "countSeats"    -> {Lock("event", EventOf(t), "NoKeyUpdate")}
      [] OTHER -> {}

\* The row has changed since the snapshot: told by its value, so a row that
\* was changed back passes here, where PostgreSQL is stricter.
Stale(t, lock) ==
    IF lock.table = "event" THEN event[lock.id] # tx[t].snapshot.event[lock.id]
                            ELSE hold[lock.id] # tx[t].snapshot.hold[lock.id]

\* A lock that t gets now.
Granted(t, lock) == lock \in Wanted(t) /\ Free(t, lock) /\ ~Stale(t, lock)

\* The holds that the updateMany of t has set to Expired.
SweptBy(t) == {l.id : l \in {k \in tx[t].locks : k.table = "hold"}}

WithSwept(table, t) ==
    [h \in DOMAIN table |->
        IF h \in SweptBy(t) THEN [table[h] EXCEPT !.status = "Expired"] ELSE table[h]]

\* The tables as t sees them: its snapshot and what it wrote itself.
View(t) == INSTANCE Bookings WITH
    event <- tx[t].snapshot.event,
    hold <- WithSwept(tx[t].snapshot.hold, t),
    booking <- tx[t].snapshot.booking

\* The later of two transactions that took seats of an event on hold fails:
\* each has read the rows of the event without the other's.
Serializable(t) ==
    \A h \in DOMAIN hold \ DOMAIN tx[t].snapshot.hold : hold[h].eventId # tx[t].id

TxInit ==
    /\ now = 0
    /\ event = <<OpenEvent>>
    /\ hold = <<>>
    /\ booking = <<>>
    /\ tx = [t \in Transactions |-> Closed]

-----------------------------------------------------------------------------
(* Opening, going on, and ending without effect.                           *)

Begin(t, statement, user, id, quantity) ==
    /\ ~IsOpen(t)
    /\ tx' = [tx EXCEPT ![t] = Opened(statement, user, id, quantity)]
    /\ UNCHANGED vars

\* t has run its statement, got these locks, and is at the next one.
GoesOn(t, next, locks) ==
    [tx EXCEPT ![t].at = next, ![t].locks = @ \cup locks]

\* ROLLBACK: nothing was written and every lock is given back.
RolledBack(t) == [tx EXCEPT ![t] = Closed]

Rollback(t) ==
    /\ tx' = RolledBack(t)
    /\ UNCHANGED vars

-----------------------------------------------------------------------------
(* holdSeats.                                                              *)

Holding == {c \in Calls : tx[c].at \in {"findEvent", "expireHolds", "createHold"}}

BeginHoldSeats(c, u, e, q) ==
    /\ Len(hold) + Cardinality(Holding) < MaxHolds
    /\ e \in DOMAIN event
    /\ Begin(c, "findEvent", u, e, q)

\* SELECT ... FOR UPDATE, and the holds that have expired by then.
FindEvent(c) ==
    /\ tx[c].at = "findEvent"
    /\ \E lock \in Wanted(c) :
           /\ Granted(c, lock)
           /\ event[tx[c].id].status = "Active"
           /\ tx' = [GoesOn(c, "expireHolds", {lock}) EXCEPT
                        ![c].rows = {h \in DOMAIN tx[c].snapshot.hold :
                                        IsExpired(tx[c].snapshot.hold[h])}]
    /\ UNCHANGED vars

\* updateMany, of one row.
ExpireHold(c) ==
    /\ c \in Calls
    /\ tx[c].at = "expireHolds"
    /\ \E lock \in Wanted(c) :
           /\ Granted(c, lock)
           /\ tx' = [GoesOn(c, "expireHolds", {lock}) EXCEPT ![c].rows = @ \ {lock.id}]
    /\ UNCHANGED vars

\* The checks of holdSeats, made in what the transaction sees.
MayHold(c) ==
    LET u == tx[c].user
        e == tx[c].id
        q == tx[c].quantity
        table == WithSwept(tx[c].snapshot.hold, c)
    IN  /\ ~HasExistingHold(table, u, e)
        /\ View(c)!TodayBooked(u, e) + TodayHold(table, u, e) + q <= MAX_EVENT_TICKETS_PER_DAY
        /\ ~View(c)!SeatsUnavailable(table, e, q)

CheckLimits(c) ==
    /\ c \in Calls
    /\ tx[c].at = "expireHolds"
    /\ tx[c].rows = {}
    /\ MayHold(c)
    /\ tx' = GoesOn(c, "createHold", {})
    /\ UNCHANGED vars

\* seatHold.create and COMMIT.
CreateHold(c) ==
    /\ tx[c].at = "createHold"
    /\ Serializable(c)
    /\ hold' = Append(WithSwept(hold, c), NewHold(tx[c].user, tx[c].id, tx[c].quantity))
    /\ tx' = [tx EXCEPT ![c] = Closed]
    /\ UNCHANGED <<now, event, booking>>

-----------------------------------------------------------------------------
(* book.                                                                   *)

Paying == {c \in Calls : tx[c].at \in {"findHold", "createBooking", "countSeats", "settle"}}

BeginBook(c, u, h) ==
    /\ Len(booking) + Cardinality(Paying) < MaxBookings
    /\ h \in DOMAIN hold
    /\ Begin(c, "findHold", u, h, hold[h].quantity)

\* SELECT ... FOR UPDATE, the checks of the row, and the row as Processing.
FindHold(c) ==
    /\ tx[c].at = "findHold"
    /\ \E lock \in Wanted(c) :
           /\ Granted(c, lock)
           /\ IsBookable(tx[c].user, tx[c].id)
           /\ tx' = [GoesOn(c, "createBooking", {lock}) EXCEPT ![c].startedAt = now]
    /\ UNCHANGED vars

\* booking.create: the foreign key asks for the event row.
CreateBooking(c) ==
    /\ tx[c].at = "createBooking"
    /\ \E lock \in Wanted(c) :
           /\ Granted(c, lock)
           /\ tx' = [GoesOn(c, "countSeats", {lock}) EXCEPT ![c].createdAt = now]
    /\ UNCHANGED vars

\* bookedSeats: { lte: event.totalSeats - quantity }, of the event as it was
\* read before.
SeatsLeft(c) ==
    event[EventOf(c)].bookedSeats + tx[c].quantity
        <= tx[c].snapshot.event[EventOf(c)].totalSeats

\* The conditional updateMany of processBookingPayment.
CountSeats(c) ==
    /\ tx[c].at = "countSeats"
    /\ \E lock \in Wanted(c) :
           /\ Granted(c, lock)
           /\ SeatsLeft(c)
           /\ tx' = GoesOn(c, "settle", {lock})
    /\ UNCHANGED vars

\* The rest of processBookingPayment, the hold as Completed, and COMMIT.
Settle(c) ==
    LET h == tx[c].id
    IN  /\ tx[c].at = "settle"
        /\ event' = [event EXCEPT ![EventOf(c)].bookedSeats = BookedSeatsAfter(h)]
        /\ booking' = Append(booking, [NewBooking(h) EXCEPT !.createdAt = tx[c].createdAt])
        /\ hold' = [hold EXCEPT ![h] =
               [CompletedHold(h) EXCEPT
                   !.processingExpiresAt = tx[c].startedAt + BOOKING_PAYMENT_TIME]]
        /\ tx' = [tx EXCEPT ![c] = Closed]
        /\ UNCHANGED now

-----------------------------------------------------------------------------
(* clearExpiredHolds, one updateMany at Read Committed: once a row that it *)
(* waited for is free, its condition is read again.                        *)

BeginJob ==
    /\ ~IsOpen(Job)
    /\ \E h \in DOMAIN hold : IsExpired(hold[h])
    /\ tx' = [tx EXCEPT ![Job] =
                 [Opened("expireHolds", Null, Null, Null) EXCEPT
                    !.rows = {h \in DOMAIN hold : IsExpired(hold[h])}]]
    /\ UNCHANGED vars

\* The rows the job updates out of those it comes across.
StillExpired(lock) == IF IsExpired(hold[lock.id]) THEN {lock} ELSE {}

JobTakesRow ==
    /\ \E lock \in Wanted(Job) :
           /\ Free(Job, lock)
           /\ tx' = [GoesOn(Job, "expireHolds", StillExpired(lock)) EXCEPT
                        ![Job].rows = @ \ {lock.id}]
    /\ UNCHANGED vars

JobCommits ==
    /\ IsOpen(Job)
    /\ tx[Job].rows = {}
    /\ hold' = WithSwept(hold, Job)
    /\ tx' = [tx EXCEPT ![Job] = Closed]
    /\ UNCHANGED <<now, event, booking>>

-----------------------------------------------------------------------------
(* The other writers: an update of one event row, once nobody keeps it off. *)

Unlocked(e) == Holders(Lock("event", e, "NoKeyUpdate")) = {}

EditEvent ==
    /\ \E m \in Managers, e \in DOMAIN event :
           /\ Unlocked(e)
           /\ \/ \E seats \in SeatCounts : UpdateEvent(m, e, seats, event[e].price, event[e].date)
              \/ \E status \in Statuses : UpdateEventStatus(m, e, status)
    /\ UNCHANGED tx

CompleteEvents ==
    /\ \A e \in DOMAIN event : IsOver(event[e]) => Unlocked(e)
    /\ HandleCompletedEvents
    /\ UNCHANGED tx

Clock == Tick /\ UNCHANGED tx

-----------------------------------------------------------------------------
(* Errors.                                                                 *)

\* An Error of bookings.service.ts about the row that is locked.
Rejects(t) ==
    \/ tx[t].at = "findEvent"  /\ event[tx[t].id].status # "Active"
    \/ tx[t].at = "findHold"   /\ ~IsBookable(tx[t].user, tx[t].id)
    \/ tx[t].at = "countSeats" /\ ~SeatsLeft(t)

\* The statement t is at throws: a serialization failure, or such an Error.
Throws(t) ==
    \/ \E lock \in Wanted(t) : Free(t, lock) /\ (Stale(t, lock) \/ Rejects(t))
    \/ tx[t].at = "expireHolds" /\ tx[t].rows = {} /\ ~MayHold(t)
    \/ tx[t].at = "createHold" /\ ~Serializable(t)

Throw(c) ==
    /\ c \in Calls
    /\ Throws(c)
    /\ Rollback(c)

\* The five seconds of Prisma, a refused payment, a connection that breaks.
Fail(t) ==
    /\ IsOpen(t)
    /\ Rollback(t)

\* Whom t waits for: nobody while one of the locks it wants is free.
WaitsFor(t) ==
    IF \E lock \in Wanted(t) : Free(t, lock) THEN {}
    ELSE UNION {Holders(lock) : lock \in Wanted(t)} \ {t}

\* Transactions of which each waits for another of them.
Cycle(ts) == ts # {} /\ \A t \in ts : WaitsFor(t) \cap ts # {}

\* The deadlock detector ends a transaction of a smallest cycle.
BreakDeadlock ==
    \E ts \in SUBSET Transactions :
        /\ Cycle(ts)
        /\ \A smaller \in SUBSET ts \ {ts} : ~Cycle(smaller)
        /\ \E t \in ts : Rollback(t)

-----------------------------------------------------------------------------

Call(c) ==
    \E u \in Users :
        \/ \E e \in DOMAIN event, q \in Quantities : BeginHoldSeats(c, u, e, q)
        \/ \E h \in DOMAIN hold : BeginBook(c, u, h)

Serve(c) ==
    \/ FindEvent(c)
    \/ ExpireHold(c)
    \/ CheckLimits(c)
    \/ CreateHold(c)
    \/ FindHold(c)
    \/ CreateBooking(c)
    \/ CountSeats(c)
    \/ Settle(c)
    \/ Throw(c)

ServeJob == JobTakesRow \/ JobCommits

TxNext ==
    \/ \E c \in Calls : Call(c) \/ Serve(c)
    \/ BeginJob
    \/ ServeJob
    \/ \E t \in Transactions : Fail(t)
    \/ BreakDeadlock
    \/ EditEvent
    \/ CompleteEvents
    \/ Clock

TxSpec == TxInit /\ [][TxNext]_txvars

\* PostgreSQL serves who waits for a row in turn, so a statement that could
\* run again and again runs; and its deadlock detector never sleeps for good.
\* Failing is not something a call can count on.
TxFairness ==
    /\ \A c \in Calls : SF_txvars(Serve(c))
    /\ SF_txvars(ServeJob)
    /\ WF_txvars(BreakDeadlock)

TxFairSpec == TxSpec /\ TxFairness

-----------------------------------------------------------------------------
(* What Bookings proves of transactions that are steps is checked here of  *)
(* the statements: its OneActiveHold, DailyLimit and SettledIsFinal, and   *)
(* the properties below.                                                   *)

\* The three tables agree after every commit, whichever transactions it
\* overlapped: the seats counted are those of the bookings, and bookings and
\* completed holds match one to one, also when two requests book one hold.
TablesAgree == SeatsMatchBookings /\ OneBookingPerHold

\* Seats are only sold while the event has them, although book compares with
\* a number of seats it read before it had the event's lock.
SoldWithinCapacity ==
    [][ \A e \in DOMAIN event :
            event'[e].bookedSeats > event[e].bookedSeats
                => event'[e].bookedSeats <= event'[e].totalSeats ]_txvars

\* Every call is answered, if only with an error: holdSeats, which has the
\* event and waits for expired holds, and book, which has a hold and waits
\* for the event, do not wait for each other for ever.
CallsEnd == \A c \in Calls : IsOpen(c) ~> ~IsOpen(c)
=============================================================================
