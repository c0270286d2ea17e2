# Ticket-Booking-App in TLA+

A formal model of the ticket booking backend in `src/` (NestJS, Prisma,
PostgreSQL): TLA+ modules translated from the code, TLC configurations that
check them on small instances, and theorems about them that TLAPS proves for
every value of the constants. `PROJECT.json` lists the components, the runs,
the source lines behind each definition, the hazards and the theorems.

## The system

| Component | State | Operations | Who calls it |
|---|---|---|---|
| bookings (`bookings.service.ts`) | tables `seat_hold`, `booking`; reads and locks `event` | `holdSeats`, `book`: one Serializable transaction each | HTTP, customers |
| payments (`payments.service.ts`) | `event.booked_seats`, `booking.status`, `revenue_split` | `processBookingPayment` | `book`, inside its transaction |
| wallet (`wallet.service.ts`) | `wallet`, `admin_wallet`, `transaction`, `admin_transactions` | `deposit`, `processBookingTransfer` | HTTP; `processBookingPayment` |
| event (`event.service.ts`) | table `event` | create, update, set status | HTTP, managers |
| scheduling (`scheduling.service.ts`) | none; writes `seat_hold`, `event` | three `updateMany`s, every minute or hour, in every worker | the clock |
| users (`users.service.ts`), seed | `user`, `user_meta`, `wallet`, `admin`, `admin_wallet` | create (with a wallet), profile, password, role, status | HTTP, auth, seed script |
| otp (`otp.service.ts`) | table `otp` | `send`, `verify`: read, decide, write back, no transaction | auth, password reset |
| auth | none | register (two verifications at once, then create), login | HTTP |
| access guard | cache, 5 minutes | answer from the cache or from `status`; `setStatus`, `setRole`, admin's `setStatus` delete the key | every guarded request |
| profile images, storage | files, `profile_image` | remove old, move new, inside a transaction that rolls back only the row | users, admin |
| utilities (`utils.service.ts`) | a batch's index and results | worker pool; retry loops and a timeout without callers | system, users' lists |
| settings, system | `user_setting`, `system_setting` | validated upserts, in batches by the worker pool; reads | HTTP (the modules are not imported by `AppModule` yet) |
| cluster (`main.ts`) | worker-to-index map | fork, respawn | the operating system |
| reporting | none | aggregates read in parallel, PDF files | HTTP, admin and managers |
| mail, sms, queue, metrics, redis, response cache | libraries' | add a job, count, connect | all |

What is hard in it: a booking takes two calls a minute apart, and what the
first one checked may have changed when the second one runs; the cron jobs
sweep the same rows in every worker; a payment writes six rows in five tables
and must be all or nothing; several counters (`booked_seats`, the balances) are
kept beside the rows they summarise; the verification codes and the access
cache are read, decided on and written without a transaction. `PROJECT.json`
lists each hazard at its line. The repository's own tests only check that the
classes can be constructed, so nothing of this is covered by a test.

What makes the parts correct:

- bookings: one active hold for a user and event; the daily limit, which only
  tickets given back can widen; the seat counter is the sum of the bookings and
  never passes the seats there are when it grows; holds and bookings match one
  to one; what is settled is final.
- wallets: no payment overdraws the wallet it is made from; the ledger explains
  the balance; the records of one payment agree; no money appears or disappears.
- both: every booking is paid once, at one price, or leaves no trace.
- scheduling: what ran out is eventually marked so.
- otp: the counts of attempts and wrong answers stay within their limits, a
  block lasts its time and no longer.
- access guard: nobody is let in long after a suspension; on the worker that
  ran it, nobody is let in at all.
- profile images: the image a row names is in storage, and no other is.
- reporting: reports agree with each other, and a report that is made while
  tickets are sold, or given back, is off by no more than what is paid and paid
  back meanwhile.
- accounts: the checks before a write look at every name that has an index, so
  that a call nobody interferes with is never refused by one; of users that
  want the same name one gets it; who proved a password or an email still has it
  when the row is written, unless the row was written meanwhile.
- batches: no element runs twice, a success means that all were written, and
  every batch ends.
- settings: what was accepted as a selection is shown as the selection.

## The modules

| Module | What it is |
|---|---|
| `Totals` | the sum over a column (`aggregate({ _sum })`) |
| `Bookings` | holds, bookings, events, cron jobs, the clock |
| `BookingTx` | `holdSeats` and `book` statement by statement: locks, snapshots, aborts |
| `TicketSale` | what the booking service promises: an abstract sale of tickets |
| `BookingsRefinement` | `Bookings` implements `TicketSale` |
| `WalletParameters` | the constants of the wallets |
| `Wallets` | wallets, ledgers, deposits, transfers, splits |
| `Ticketing` | `Bookings` and `Wallets` composed by `book` |
| `Otp` | the verification codes of one target |
| `AccessCache` | the access guard's caches, and the changes of status and role |
| `ProfileImage` | one user's profile image: row and files |
| `Sales` | what happens to the three tables that reports read |
| `SalesRefinement` | `Ticketing` implements `Sales` |
| `Reporting` | the eight reports, and what their queries may see |
| `Accounts` | users, what they are called and how they log in |
| `Settings` | settings, and the worker pool that updates them |
| `TotalsProofs`, `BookingsProofs`, `BookingTxProofs`, `WalletsProofs`, `TicketingProofs`, `AccessProofs`, `UsersProofs`, `ReportingProofs` | the theorems |
| `MCBookings`, `MCBookingTx`, `MCTicketing`, `MCOtp`, `MCAccessCache`, `MCProfileImage`, `MCReporting`, `MCAccounts`, `MCSettings` | small instances for TLC |

### Bookings

The tables are sequences of rows, since ids come from `autoincrement` and no
row of theirs is ever deleted; `now` is the clock. Each action is one committed
transaction or one statement:

| Action | Code |
|---|---|
| `HoldSeats(u, e, q)` | `holdSeats`: event Active, sweep of expired holds, no existing hold, today's bookings and holds within the limit, seats left, new hold |
| `Book(u, h)` | `book` with the seat part of `processBookingPayment`: the caller's hold, not settled, not past its expiry; the conditional increment of `bookedSeats`; the hold Completed, the booking Confirmed |
| `CreateEvent`, `UpdateEvent`, `UpdateEventStatus` | `event.service.ts`, for the event's manager only |
| `ClearExpiredHolds`, `ClearExpiredProcessingHolds`, `HandleCompletedEvents` | the cron jobs |
| `Tick` | time passes |

A call that throws inside `$transaction` is rolled back, so it is no step at
all: that includes `book` marking an expired hold Expired before it throws. The
rollback also means that the `Processing` and `Pending` states of one `book`
are never visible to anyone, and `CompletedHold` and `NewBooking` are the rows
as they are after the transaction. Three details of the code are kept because
properties depend on them: `expiresAt` is compared with `<` by the sweeps and
by `book`, and with `>` by the sums, so that an instant lies between; the sum
of holds has no condition on the status; and `SELECT *` through `$queryRaw`
returns the database's column names, so that the check of the seats left
(`SeatsUnavailable`) compares with `NaN` and refuses nothing.

A quantity is any integer. `CreateBookingDto` asks only that `ticketQuantity` is
there (`@IsNotEmpty()`), the global pipe converts and does not compare, and
neither service looks at the sign; so a user can hold and book a negative
number, which lowers `bookedSeats` and the sums of the day. What is left of the
limit then is `DailyLimit`: nobody books more of an event on a day than
`Allowance`, the maximum plus twice what the user's negative bookings gave back
(`GivenBack`). The factor is the code's, not slack: for the rest of its minute a
hold that was booked is counted besides its booking, so five tickets given back
make room for ten more. That the day stays within the maximum itself, which is
what the error message says, is `MaximumPerDay`, and is violated.

### BookingTx

`Bookings` takes a transaction for one step; `BookingTx` checks that this is
sound where its properties depend on it. `Call` opens a transaction,
`FindEvent`, `ExpireHold`, `CheckLimits`, `CreateHold` are the statements of
`holdSeats`, `FindHold`, `CreateBooking`, `CountSeats`, `Settle` those of `book`
with `processBookingPayment`, and `JobTakesRow`, `JobCommits` the sweep of a cron
job, which is a single `updateMany` and takes its rows one at a time. `tx`
holds, for each of them, its snapshot, its row locks and the times it read off
the clock; `event`, `hold` and `booking` are what is committed. The checks are
those of `Bookings`, instantiated with what the transaction sees (`View`).

PostgreSQL is external, and modelled by what Serializable promises: the snapshot
is that of the first statement, before it waits; a row changed since then cannot
be locked or written (`Stale`); of two transactions that each read what the
other wrote the later fails (`Serializable`: two holds of one event taken at
once). A single `updateMany` runs at Read Committed and reads its condition
again once it has the row (`StillExpired`). `BreakDeadlock` ends one transaction
of a circular wait. `Fail` is Prisma's five seconds, a refused payment or a
broken connection. Nothing in the code retries.

Left out: the wallets' rows, which `book` locks after the event's and always in
one order, so that they add no wait for holds or events; the other writes of
events are single statements of one row (`EditEvent`, `CompleteEvents`), which
wait for its lock. `Stale` compares values, so a row that was changed and changed
back passes, where PostgreSQL is stricter: the model has every behaviour of the
code and a few more. `BookingTx` is not stated to refine `Bookings` step by
step, for it does not: the clock moves inside a transaction, and a booking's
`createdAt` may be earlier than its commit. The properties of `Bookings` are
checked of `BookingTx` directly, and proved of it in `BookingTxProofs`.

### TicketSale and its refinement

`TicketSale` has no holds, rows or clock: events open and are resized, tickets
are sold within the seats an event has at that moment and within a user's
allowance of the day, and a new day clears what was bought. An order may be for
a negative number: it is added to what the user gave back, which widens the
allowance by twice as many. In the refinement mapping a booking is a sale, a
hold is invisible, `sold` is the column `bookedSeats`, `today` is the sum
`holdSeats` computes and `returned` is `GivenBack`; that the step of `Book` is a
`Sell` needs the daily limit, which `Book` does not check.

### Wallets and Ticketing

Balances are whole cents. `Transfer` is `processBookingTransfer` with the split
rows its caller writes: the conditional decrement, the two shares, the
manager's payout, the commission and the debit. The shares are the two roundings
`toFixed(2)` makes, each within half a cent of 18.8% and 81.2%; where half a cent
is exact either side is allowed, since the binary product may lie on either.
A total has the sign of the quantity. A negative one passes `balance gte total`:
the decrement credits the customer, and the increments of the manager's and the
admin's wallet, which have no condition, take from them. So a manager's balance
may be below zero, by no more than such payouts took (`TakenFrom`), and that is
what `NoOverdraft` says.
Nothing in the repository says that a manager's balance stays positive, so there
is no run that reports it. Customer and manager may be the same user. `Register` is the transaction that
creates a user with its wallet; `Account` is any of the wallet operations that is no payment; `SeedAdminWallet` is the second step of the
seed, before which every payment is refused.

`Ticketing` instantiates both: `Book` is `Bookings!Book` and `Wallets!Transfer`
in one step, with the event's present price, its manager and the id of the new
booking. If either refuses, neither happens. `TicketingProofs` shows that the
composition implements each of them, and the run checks the wallets' properties
on it, with the payments that bookings really make.

### Otp

`send` and `verify` use no transaction. Each call is two steps: one reads the
row and decides (`SendFirst`, `SendAgain`, `Verify`), one writes what was
decided (`WriteFirst`, `WriteResend`, `WriteBlock`, `WriteWrong`,
`WriteRight`); anything may happen between them. A call that throws before it
writes is no step. The time since `lastSentAt` has three values, for `timeout`
and `blockTimeout` are all it is compared with. The counts are compared with
their limits by `=== 0` of a difference only, so the limits hold because no
count ever skips its limit, which is what `LimitsKept` says for every
interleaving. For calls that overlap nothing more is claimed: a wrong answer
written late counts once for two, or unblocks a row (`blocked` is written with
every wrong answer). The history variables `overlap` and `wrong` let
`WrongAnswersBounded` and `BlockLasts` speak of calls one after another.

### AccessCache

The cache is Nest's `CacheModule` with its default store: a map in the memory
of each worker. A request that finds a cached yes is let in and is no step;
otherwise it looks (`BeginRequest`), reads the row (`ReadStatus`) and caches
its answer (`CacheAnswer`). `setStatus` and `setRole` delete a key on their own
worker (`DeleteForStatus`, `DeleteForRole`) and then write the row
(`WriteStatus`, `WriteRole`). A cached no is falsy, so it is as if there were
none. Managers' tokens have their own key and are never looked up in the
database. `Respawn` is a worker that dies and is forked again. `sinceActive`
and `fresh` are history: how long ago the user was Active, and on which worker
the last change ran without a request of the account under way. `PATIENCE` is
an assumption, not code: every request ends within that time. Without one,
`YesIsRecent` has no bound to state.

### ProfileImage

`updateProfileImage` reads the user, and then in a transaction updates the row,
removes the previous file and moves the uploaded one. Each of these is a step;
the row's lock is held from its update to the end of the transaction, and the
new value is invisible until `Commit`. Files are not rolled back. `Fail` is an
error, or the end of the process, at any step; `Expire` is the transaction's
timeout, after which the function goes on with its files and only the commit is
refused. Users and administrators have the same code.

### Sales and Reporting

`Sales` is the rest of the system as reports see it: events are created, edited
and change status, and a sale adds a booking, its seats and its two splits in
one step. The run of `Ticketing` shows that this is all that happens to those
columns (`ImplementsSales`), so that `Reporting` need not carry holds, wallets
and the clock.

A report reads only, but in several queries. The eleven of a dashboard are
sent together (`Promise.all`), each by a connection of its own, without a
transaction; a `findMany` with `include` is again a query for each table:
events, then their bookings, then the splits of these (no `relationJoins` in the
schema). `past` is the sequence of states the tables have had since the report
was asked for. Each report of `reporting.service.ts` is an operator whose
arguments are the states its queries saw; `IncludeReads` are the combinations
an `include` may see. `EventRow` is written out once, though the code has it six
times in two styles (`filter` and `reduce`, or a loop); `ReportsAgree` compares
what the reports select and add up. Two rows differ from the rest, as in the
code: the manager's dashboard shows the newest event only, with the number of
all tickets of the manager as its `totalConfirmedBookings`. Who is a manager
comes from the table of users: the reports by manager leave out one who was
made a User, whose revenue the dashboard goes on counting.

A `reduce` is `Total`, which counts the units of a column that are above zero,
less those that are below. It is no fold, so that `ReportingProofs` can follow
it.

Bookings of negative quantities have negative totals, so revenue may fall and
rise again while a report is made, and its queries may be apart although nothing
was earned in between. `DashboardOffBySalesMeanwhile` therefore bounds how far
two figures are apart by the sizes of the splits written since the report was
asked for (`SplitsMeanwhile`), whatever their signs.

### Accounts

Registration, Google login, profile updates, change and reset of a password
are calls, each of several queries on different connections. `RegisterUser`,
`LoginByGoogle`, `UpdateProfileDetails`, `ChangePassword` and `ResetPassword`
begin a call; `Look` and `FindEmail` are its queries, one name each, in the
code's order; `Create`, `Link` and `Update` write, and `Refused` is the same
statement when a unique index (`email`, `username`, `mobile`, `google_id`)
refuses it or finds no row. A call that finds a name taken ends without a
write. `GiveUp` is a wrong code, or the timeout of the transaction in which an
administrator's update runs. A user and its `user_meta` are one row: they are
created together, and what is written of one call is written at once.
`meanwhile` is history: the rows others have written since a call began. The
circular wait for connections that an administrator's update can cause (it
queries outside its transaction while it holds one) is listed as a hazard and
left out. Administrators' accounts have the same code with one unique column.
Hashing, people's names, letter case and the form of a username are left out.

### Settings

`setting` and `setting_option` are constants, since no code writes them.
`SystemSelection` and `UserSelection` are the validation of the two updates: what
is stored for the data of a request, or nothing where the code throws. A
request's strings are model values, and `NumberOf` is what `Number()` makes of
each: two of them are the same number, one is none. `MapSetting` is what reading
makes of a stored selection, where an option is looked up with `===`;
`MapSelectionsToOption` keeps, in their order, the selections that are found.

`PATCH /system/settings` runs the elements of its body with `batchable`: up to
`BatchSize` workers that share `currentIndex`. Node runs the code between two
`await`s in one piece, so a step of a worker is the end of one element and the
choice of its next one (`RunElement`, `Took`); the first elements are taken as
the workers are started, one after the other (`Started`). An element that
throws ends its worker and rejects the request (`Rejected`), but the other
workers go on, and may write after the error has been answered: `answer` and
the end of the work are two things in the model. `runs` and `failed` are
history. `updateUserSetting` has no callers yet and is an action all the same.
A `PATCH` that names a setting of users is accepted, and `GET` does not show it:
`SelectionsShown` is about the settings that are shown.

### Idealisations

- A transaction is one instant, at the clock's value then. `holdSeats`, `book`
  and the deposits are Serializable; the other writes are single statements
  that read only the rows they update. Locks, aborts and a clock that moves
  inside a transaction are the subject of `BookingTx`, for holds and bookings.
- The quantity of a hold is any integer, since the request may carry any; one
  that does not fit the column's 32 bits is refused by the database, and so is
  out of `Quantities`. Event sizes, prices and dates are naturals.
- Amounts are exact: the binary floats of the balance columns lose less than a
  cent in each addition, which the model does not show.
- Workers and database share one clock, and days follow each other.
- `Otp`, `AccessCache` and `ProfileImage` are about one target, account or
  user: no state is shared between two of them. A read and the decisions made
  on it are one step, since nothing is awaited between them.
- Times in `Otp` and `AccessCache` are ages that count up with a `Tick`.

## What the runs check

| Run | Instance | Shows |
|---|---|---|
| `bookings` | 2 customers, 1 event, 3 holds, 2 bookings, limit 1, quantities -1, 1 and 3, sizes 1 and 4, dates 1 and 2, 4 instants, days of 2 instants, holds of 1; fair cron jobs | the limit, the seat counter, the match of holds and bookings, the refinement of `TicketSale`; expired holds are released, past events completed |
| `maximum_per_day` | as above, an event of 20 seats, 5 instants, days of 3 | **violated**: after tickets were given back, more than the maximum are booked |
| `booking_tx` | 2 calls at a time and the job, 2 customers, 1 event of 4 seats that may shrink to 2, 2 holds of -2, 2 or 6 tickets, 2 bookings, limit 2, 3 instants, days of 2, holds of 1 | what `bookings` shows of transactions, of their statements; nothing is oversold |
| `booking_tx_ends` | the same with holds of 2 tickets, limit 3, 2 instants, holds of 0, days of 1; fair statements | every call ends, however the calls, the job and the managers wait for each other |
| `ticketing` | 2 users of whom one is the manager, 1 event, 2 holds, 2 bookings, prices 1.00 and 1.25, quantities -1, 1 and 2, limit 2, 1 top-up, 3 instants | no overdraft, ledgers, records of a payment, conservation; bookings are paid, splits match revenue, and the tables that reports read change as `Sales` says |
| `otp` | 3 calls at a time, 2 codes, 3 wrong answers | limits, blocks, and that a code can be had again |
| `access` | 2 workers, 2 requests and 2 changes at a time, answers live 1 tick, requests 1 | how long, and where, a suspended user is let in |
| `images` | 3 uploads, 2 calls at a time, any failure | an image is missing, or left behind, only for a known cause |
| `reporting` | 2 managers, 2 events, 2 bookings of 1 ticket or -1, 3 states of the tables in one report | reports agree, and are off by no more than what is paid and paid back meanwhile |
| `accounts` | 2 calls at a time, 2 rows, 2 emails, 2 passwords, 1 each of the other names | a check is stale only for rows written meanwhile; one of competing creations wins |
| `settings` | 2 requests at a time, 2 workers each, batches of up to 3 elements, settings of every type | selections are shown again, batches run each element once and end |
| `image_repeat` | 2 uploads, 1 call at a time, no failure | **violated**: a repeated call loses the image |

The bounds are names in the guards: `MaxEvents`, `MaxHolds`, `MaxBookings`,
`MaxTopups`, `MaxPayments`, `Horizon`. They are chosen so that the cases happen: three holds let
a user book, let a hold expire and take another; days of two instants with
holds of one let a hold cross midnight, and let it be booked at the very instant of
its expiry; with a limit of 1, a ticket given back makes room for exactly 3, so
that the allowance is reached and nothing less would do; a size of 1 after a
size of 4 puts `totalSeats` below `bookedSeats`. 125 and 250 cents, and -125,
are totals where a share falls on half a
cent, so that the rounding gains or loses. An opening balance of 100 pays some and not all
payments. The limit's 5 tickets, the minute of a hold and the ten minutes of a
payment are constants that the theorems leave open. Customers are symmetric:
no definition tells them apart. For `otp`, three calls are the fewest with which
a wrong answer, another one and a new code can all be pending together; limits
of 2 and 3 keep attempts and retries apart and are both reached. For `access`,
two of everything give a change racing with a request and with another change
on the same and on another worker; a time to live of 1 is enough for an answer
to be alive at the end of it, and `sinceActive` stops one past the bound it is
compared with. For `images`, three uploads are an image, the one that replaces
it, and one that a stale call brings. Workers, calls and files are symmetric in
the runs without a liveness property, and so are the customers of `booking_tx`. For `reporting`, three states put two
commits between the queries of a report: an event and its first sale, or two
sales of different managers; sizes 1 and 2 make an event smaller than what it
has sold; a ticket and one given back are a sum of nothing earned and two splits paid. `RECENT` is 2 for the code's 10: with two events the dashboard lists
them all, and would not if it listed one less. For `accounts`, two calls
give every race of a check with a write, and two rows one to update and one to
clash with; a second email is needed to change one, a second password to change
it under a call that proved the first. The forms
are two registrations with the same mobile, and edits of one and of two names.
For `booking_tx`, two calls and the job are three transactions, enough for a
circular wait of each kind: of two bookings and holds, and of a hold and the
job; holds that expire by the third instant, or at once in `booking_tx_ends`, let
the sweeps meet calls that settle, an event
that shrinks to two seats leaves room for one of two bookings, and midnight may
come between two statements. Two given back make room for exactly 6 at a limit
of 2. `booking_tx_ends` is a run of its own, and has one quantity, since a
liveness property excludes symmetry and costs more for each state: the signs
change what the checks allow and not who waits for whom. For `settings`, three elements and two workers leave an element to
be taken when the first ones end, or fail.

Deadlock is checked in every run: something may always happen.

Liveness assumes weak fairness of `ClearExpiredHolds` and
`HandleCompletedEvents`: `@Cron` runs them every minute and every hour in every
worker, and a job that throws runs again the next time. Nothing is assumed of
customers, managers or the clock, and nothing of `ClearExpiredProcessingHolds`,
whose filter (a Processing hold with a Pending booking) matches no row that is
ever committed. `NeverLockedOut` assumes of `Otp` only that time passes
(`WF(OtpTick)`): no caller has to call and no call has to come to its end.
`OneCreationWins` assumes of `Accounts` that a statement that was sent is
answered (`WF(Step)` for each call), and nothing of the callers. `CallsEnd`
assumes of `BookingTx` that a statement that could run again and again does run
(`SF(Serve)` for each call, `SF(ServeJob)`): PostgreSQL queues those who wait
for a row and serves them in turn, so others who take the row again and again
cannot keep one out; and that its deadlock detector runs (`WF(BreakDeadlock)`).
Failing is not something a call can count on, so `Fail` has no fairness.
`BatchesEnd` assumes that the database answers every query, if only with an
error (`WorkGoesOn`: `WF(Work)` for each request).

Every property of a passing run is also run against a plausible slip in the
code (the sections "Slips" of the modules and `mutants` in `PROJECT.json`), and
is violated by it.

### The divergences

Reported by a run:

1. `bookings.service.ts:110`, `create-booking.dto.ts:9-11`. `Maximum 5 tickets
   allowed per event per day` (line 114) is checked with sums of quantities of
   either sign, and nothing asks that a quantity is positive. A user who holds
   and books -5 is granted a hold of 15 within the minute, since -5 stands in
   both sums, and books it: 10 tickets that day (`maximum_per_day`).
2. `users.service.ts:402-411`, and the same in `admin.service.ts:174-183`. The
   previous image is removed before the new one is moved, without a look whether
   they are the same file. A call repeated with the image that is already set
   removes it, fails in `move`, and rolls the row back to the name of the file
   it has just removed, against the comment `Remove previous profile image from
   storage` (`image_repeat`).

Modelled as the code has them, without a run of their own:

3. `bookings.service.ts:144-148`. The raw row has `total_seats` and
   `booked_seats`; the code reads `totalSeats` and `bookedSeats`. The
   difference is `NaN`, `NaN < quantity` is false, and the error
   `Seats unavailable` (line 147) is unreachable. Holds beyond the seats left
   are granted; overselling is prevented only by the conditional update in
   `payments.service.ts:27-34`, which is what `ImplementsTicketSale` and
   `SoldWithinCapacity` show of it.
4. `bookings.service.ts:88-103`. The sum of today's holds includes Completed
   ones that have not reached `expiresAt`. Together with the booking they became
   they count twice, and a user who booked 3 tickets is told for the rest of the
   minute that the maximum is reached when asking for one more. It is why
   the allowance grows by twice what is given back.

## What is proved

Every safety invariant and every action property of the passing runs is a
theorem. TLAPS proves them for every value of the constants that satisfies the
named assumptions of the modules (limits, times and opening balances are
naturals, quantities and payments are integers, managers are finitely many, days
follow each other, a batch is not empty, `Null`,
`None` and `Undefined` are not numbers, names or answers). The bounds are
arbitrary too, so the theorems hold of the unbounded system.

- `BookingsProofs`: `TypeOK`, `OneActiveHold`, `AllowanceKept`, `DailyLimit`,
  `SeatsMatchBookings`, `OneBookingPerHold` are invariants, and `SettledIsFinal`
  holds of every step.
- `BookingsProofs`: `Spec => ImplementsTicketSale`.
- `BookingTxProofs`: `TypeOK`, `OneActiveHold`, `DailyLimit` and `TablesAgree`
  are invariants, `SettledIsFinal` and `SoldWithinCapacity` hold of every step,
  for any number of transactions whose statements interleave in any way.
- `WalletsProofs`: `TypeOK`, `NoOverdraft`, `LedgerMatchesBalance`,
  `PaymentsBalance` and `MoneyConserved` are invariants.
- `TicketingProofs`: the composition implements `Bookings` and `Wallets`, so what
  is proved of them holds there; `NoOverdraft`, `LedgerMatchesBalance`,
  `PaymentsBalance`, `MoneyConserved`, `PaidAsBooked` and `SplitsMatchRevenue` of
  the composition are theorems of their own, and so is
  `Spec => ImplementsSales`.
- `AccessProofs`, of `Otp`: `OtpTypeOK`, `LimitsKept` and `WrongAnswersBounded`
  are invariants, and `BlockLasts` holds of every step, for any number of calls
  and any limits. Of `AccessCache`: `TypeOK`, `YesIsRecent` and `SuspendedAtOnce`
  are invariants, for any cluster and any number of requests and changes.
- `UsersProofs`, of `Accounts`: `TypeOK` and `ChecksSuffice` are invariants, for
  any number of calls, names and rows. Of `ProfileImage`: `ImageTypeOK`,
  `ImageMissingHasCause` and `NoImageLeftBehind` are, for any number of files and
  calls. Of `Settings`: `SettingsTypeOK`, `SelectionsShown` and `BatchIsRun` are,
  for any settings, batches and number of workers.
- `ReportingProofs`: `RowsAddUp`, `DashboardOffBySalesMeanwhile` and `ReportsAgree`
  are invariants, for any number of managers, events, bookings and states that
  a report may see.

**The daily limit.** `DailyLimit` is not inductive: `Book` adds to a user's
day without looking at the limit. What makes it hold is that every active hold
already fits (`AllowanceKept`): the hold's own tickets, and with those the user
has booked today, are within the allowance. `HoldSeats` establishes that for the
new hold, out of a check that compares with the maximum (`CheckFitsAllowance`):
neither of the two sums it adds can be further below zero than the user ever
gave back. For the bookings that is so by definition (`BookedFloor`); for the
holds because those that still count, after the sweep and without an active one,
were booked (`HeldFloor`), each by a booking of its own. Hence the twice. The
allowance never shrinks (`AllowanceGrows`), since no booking is taken back. A
second active hold of the same user and event would break `AllowanceKept` as soon as
one of them is booked, so `OneActiveHold` is needed; and `OneActiveHold` holds
because `HoldSeats` refuses a second hold and no settled row becomes active
again. At midnight today's bookings are none, so `AllowanceKept` survives
the clock by its first half, and past days do not change. The inductive
invariant, `LimitInv`, is `TypeOK`, `OneActiveHold`, `HoldsLive` (no
commit leaves a hold Processing or Cancelled, and one marked Expired is past its
expiry), `OneBookingPerHold`,
`AllowanceKept` and `DailyLimit` together.

**The seat counter and the match of holds and bookings** are inductive with
`TypeOK`: the sums over rows are followed with `TotalsProofs`, where a total is
the number of units in a column less that of its opposite, so that adding a row
is a disjoint union on either side and no induction over rows is needed.

**The refinement** maps each action to a step of `TicketSale` or to none:
`Book` to `Sell` (the seats from `EnoughSeats`, the limit from `AllowanceKept`),
`CreateEvent` to `Open`, `UpdateEvent` to `Resize`, `Tick` to `NewDay` or to
nothing, and everything else leaves the mapped state alone.

**The statements of holdSeats and book.** `BookingTxProofs` proves the same of
transactions that are open at once, and here the argument is another one: a check
is made in a snapshot, so the invariant says what a snapshot is still worth
(`Good`, for the row of each open transaction).

- `SnapshotIsPast`: its rows are still there, and those settled in it have not
  changed. `BookedMeanwhile`: a booking it lacks came of a hold that it has not
  seen settled.
- `LockedAsRead` and `LocksExclusive`: a row that a transaction has locked is as
  it was read, since nobody else's lock goes with it and every write takes one.
- `Checked`, between the checks of `holdSeats` and its commit: every active hold
  of the user for the event is one the transaction sweeps itself, and the
  tickets fit into the allowance of today and of every later day.
- `BookInv`: `book` has its hold locked, the times it read are in order, and after
  `CountSeats` the event has the seats.

`CreateHold` may commit because of `Serializable`: no hold of the event was
committed that the snapshot lacks. Then no booking was either
(`NothingBookedMeanwhile`), for it would come of a hold the check saw active,
which the transaction has swept and so still has locked. The
mutant run without `Serializable` violates both `OneActiveHold` and `DailyLimit`.
The limit is carried by `AllowanceAhead`, which unlike `AllowanceKept` does not
mention the clock, for the clock goes on between two statements: an active hold
fits into the allowance of the day it was made on and of every later one.
`SaleKeepsTables` is what `Book` and `Settle` share. That a booking is counted
within capacity needs the comparison with the snapshot when `book` takes the
event's lock (`Stale`): the total it read before is then the present one, and
stays so until the commit.

**Wallets.** `TransferStep` and `AccountStep` say once what each action does to
the tables; the sums over a user's ledger are followed row by row. A new wallet
starts with the opening balance because a user without a wallet has no ledger
rows, which is part of `TypeOK`. `NoOverdraft` is inductive with `TypeOK`: the debit
is guarded, and a payout that is negative lowers `TakenFrom` by what it takes.
`MoneyConserved` sums over all wallets, which is
a sum over a finite set only with `FiniteWallets`; a payment changes it by what the two
roundings lose or gain (`SharesAddUp`).

**The composition.** `Ticketing` takes a step of `Bookings`, of `Wallets`, or of
both, and a step of both is a `Transfer` with the total of the hold. That it is
one that `Wallets` allows needs an invariant: totals are a price times a quantity
of the tables, which are among the amounts `Wallets` is checked with (`Priced`),
and there are as many payments as bookings, so that the next booking's id is the
next payment's number (`Counted`). `Priced` follows from the steps of `Bookings`
alone, `Counted` from those of `Wallets` and the type invariants of both. The
theorems of `WalletsProofs` are then instantiated with the composition's
constants. `PaidAsBooked` and `SplitsMatchRevenue` need that no payment and no
split is about a booking that does not exist yet (`SplitsNamed`), so that the
records of the next booking are all its own, and that an event keeps its manager
(`ManagersKept`). For `ImplementsSales`, each action changes the three columns
that reports read as a step of `Sales` or not at all; that a sale is of as many
tickets as the hold asked for is `HeldAsAsked`, an invariant of `Bookings`.

**Codes.** `LimitsKept` is inductive with `PendingWithinLimits`: what a call is
about to write was within the limits it read, and limits do not change, however
stale the rest of what it read is. For calls one after another the invariant
adds that the pending write still fits the row (`PendingIsCurrent`), and counts
the wrong answers against attempts and retries together
(`WrongAnswersSoFar`): each code before the last has been answered wrongly less
than `MAX_RETRIES` times, for otherwise it would be blocked and no other sent.

**The guard.** `YesIsRecent` follows from `Recent`: a request that read Active
was right at most its own age ago, and a cached yes adds to that its age in the
cache. `SuspendedAtOnce` needs `QuietMeansNothing`: between the deletion of the
key and the write of the status, a worker without requests of the account has
nothing to put back into its cache.

**Accounts.** The inductive invariant is `TypeOK`, the uniqueness of the names,
and for each call what it knows: a column it has looked at is free but for rows
written since it began (`SeenIsFree`), what it has read of its row is so unless
that row was written (`ReadIsSo`), and an email it has found is still somebody's
unless it was changed (`LinkHasRow`). Every write adds its row to the
`meanwhile` of all other calls, which is why it cannot falsify any of the three.

**Profile images.** That a missing image was lost by a call that did not commit
needs only what the call that holds the lock has done: the image it is about to
commit is in storage, or lost (`NextIsStored`). Calls that go on after their
timeout hold no lock, but what they remove is lost by definition. For
`NoImageLeftBehind`, `LeftBehindInv` says what is in storage after each step of
a call that neither overlaps another nor fails: the image of the row, nothing
between the removal and the move, then the new one.

**Batches and selections.** Workers share one index, so the elements that have
run, or are running, are those before it, once each (`TakenOnce`). Each worker
is at one of them, has failed, or has found none left (`WorkersAtIt`); while
there is no error, what was taken is written or being written (`NoneForgotten`).
When all have stopped, either the index is past the last element or every worker
has failed. `SelectionsShown` rests on `SettingsTypeOK`, which says that the
stored selections are out of the options of their setting: then the search
finds every one, at its own place (`AllFound`).

**Reports.** The inductive invariant, `ReportingInv`, is about the states of the
tables since the report was asked for. Each is `Consistent`: `bookedSeats` is the
sum of the event's bookings, and booking `b` has the splits `2b - 1` and `2b`,
within a cent of its total. Each later one `Continues` the earlier: it has all
their rows, unchanged. `RowsAddUp` then compares the splits read last with the
bookings read before them, booking by booking, each off by a cent at most
(`TotalsWithin`): splits of later bookings are not among those selected. For the
dashboard, every sum of earnings is over a set of splits that has all of those
there were when the report was asked for (`EarlierSplits`, for the list by event
with `AllAreListed`, where `RECENT` enters) and none that is not there now. Two
such sums are no further apart than the sizes of the splits in between
(`SumsApart`), whatever their signs.
`ReportsAgree` is about one state, where all sums are over the same rows: those of
all bookings fall into those of each event, and of each manager (`TotalOfParts`, which
is where managers must be finitely many).
The total of the remaining seats is the difference of two sums (`TotalOfRest`).

Model-checked only:

- the liveness properties (`ExpiredHoldsReleased`, `PastEventsComplete`,
  `CallsEnd`, `NeverLockedOut`, `OneCreationWins`, `BatchesEnd`): they need fairness
  and `ENABLED`, which TLAPS does not handle;
- the two divergences with a run, which are counterexamples.

The theorems are about specifications without fairness (`Spec`, and `TxSpec`,
`OtpSpec`, `ImageSpec`, `RSpec`), which the specifications of the runs imply.
`SettingsSpec` states its fairness, and the proofs do not use it.

## Plan

What is left: registration and password reset composed with `Otp`, so that a
verification and the write it permits are in one model.

## Not modelled

- `rerunnable`, `retryable`, `occrunnable`, `timeout` and `waitUntilValue` of
  `utils.service.ts`: nothing calls them. Its other helpers are pure.
- The response cache: entries live for one millisecond (`app.config.ts:12`).
- The map from worker to index in `main.ts`: the index only names a worker.
- Mail, sms and queue: a job is added to BullMQ, whose delivery and retries are
  the library's, and no state above depends on whether it arrives.
- Request plumbing (controllers' validation, guards by role, filters,
  decorators), metrics, connections and configuration, PDF layout,
  mail templates, token signing and password hashing. They keep no state the
  properties above rest on, or are libraries.
