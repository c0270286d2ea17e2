--------------------------- MODULE BookingTxProofs --------------------------
(* Proofs about BookingTx for every value of its constants: what Bookings  *)
(* promises of transactions that are steps holds of their statements.      *)
EXTENDS BookingTx, BookingsProofs

-----------------------------------------------------------------------------
(* What the row of an open transaction knows of the tables.  r is that row *)
(* throughout, so that it stays the same while the tables change.          *)

Statements ==
    {"findEvent", "expireHolds", "createHold",
     "findHold", "createBooking", "countSeats", "settle"}

HoldStatements == {"findEvent", "expireHolds", "createHold"}
BookStatements == {"findHold", "createBooking", "countSeats", "settle"}

Settled == {"Completed", "Expired"}

Locks == [table : {"event", "hold"}, id : Nat, mode : {"Update", "NoKeyUpdate", "KeyShare"}]

Snapshots == [event : Seq(Event), hold : Seq(SeatHold), booking : Seq(Booking)]

OpenTx ==
    [at : Statements, user : Users \cup {Null}, id : Nat \cup {Null},
     quantity : Int \cup {Null}, snapshot : Snapshots, locks : SUBSET Locks,
     rows : SUBSET Nat, startedAt : Nat \cup {Null}, createdAt : Nat \cup {Null}]

\* What no statement changes in a hold.
SameRequest(one, other) ==
    /\ one.userId = other.userId
    /\ one.eventId = other.eventId
    /\ one.quantity = other.quantity
    /\ one.createdAt = other.createdAt
    /\ one.expiresAt = other.expiresAt

\* The rows of the snapshot are still there, the settled ones as they were.
SnapshotIsPast(r) ==
    /\ \A h \in DOMAIN r.snapshot.hold :
           /\ h \in DOMAIN hold
           /\ SameRequest(hold[h], r.snapshot.hold[h])
           /\ r.snapshot.hold[h].status # "Cancelled"
           /\ r.snapshot.hold[h].status \in Settled => hold[h] = r.snapshot.hold[h]
    /\ \A b \in DOMAIN r.snapshot.booking :
           b \in DOMAIN booking /\ booking[b] = r.snapshot.booking[b]

\* A booking the snapshot lacks comes of a hold that was not settled in it.
BookedMeanwhile(r) ==
    \A b \in DOMAIN booking \ DOMAIN r.snapshot.booking :
        \E g \in DOMAIN hold :
            /\ hold[g].status = "Completed"
            /\ hold[g].userId = booking[b].userId
            /\ hold[g].eventId = booking[b].eventId
            /\ g \in DOMAIN r.snapshot.hold => r.snapshot.hold[g].status \notin Settled

\* A row is what it was in the snapshot for as long as it is locked.
LockedAsRead(t, r) ==
    /\ \A l \in r.locks :
           l.table = "hold" =>
               /\ l.mode # "KeyShare"
               /\ l.id \in DOMAIN hold
               /\ hold[l.id].status \notin Settled
               /\ t \in Calls => /\ l.id \in DOMAIN r.snapshot.hold
                                 /\ hold[l.id] = r.snapshot.hold[l.id]
    /\ \A l \in r.locks :
           l.table = "event" /\ l.mode # "KeyShare" =>
               l.id \in DOMAIN event /\ event[l.id] = r.snapshot.event[l.id]

\* The tickets of an event that a user has booked for a day, in a table.
BookedIn(table, u, e, day) ==
    Total([b \in {i \in DOMAIN table :
                     /\ table[i].userId = u
                     /\ table[i].eventId = e
                     /\ table[i].status = "Confirmed"
                     /\ DayOf[table[i].createdAt] = day} |-> table[b].quantity])

\* The updateMany of r has taken the hold.
Sweeps(r, h) == \E l \in r.locks : l.table = "hold" /\ l.id = h

\* What the checks of holdSeats found: every active hold of the user is one
\* that r sweeps, and the tickets fit into the allowance of today and every
\* later day, which bookings of others only widen.
Checked(r) ==
    /\ \A h \in DOMAIN r.snapshot.hold :
           /\ r.snapshot.hold[h].userId = r.user
           /\ r.snapshot.hold[h].eventId = r.id
           /\ r.snapshot.hold[h].status \in ActiveStatuses
           => Sweeps(r, h)
    /\ \A day \in Days :
           DayOf[now] <= day =>
               BookedIn(r.snapshot.booking, r.user, r.id, day) + r.quantity
                   <= Allowance(r.user, r.id)

\* holdSeats, and the updateMany of the job.
HoldingInv(t, r) ==
    r.at \in HoldStatements =>
        /\ t \in Calls => r.user \in Users /\ r.id \in DOMAIN event /\ r.quantity \in Quantities
        /\ \A l \in r.locks : l.table = "hold" => IsExpired(hold[l.id])
        /\ \A h \in r.rows : h \in DOMAIN r.snapshot.hold /\ IsExpired(r.snapshot.hold[h])
        /\ r.at = "findEvent" => r.locks = {}
        /\ r.at # "expireHolds" => t \in Calls
        /\ r.at = "createHold" => Checked(r)

\* book: the hold it has locked, the times it read, the seats it compared.
BookInv(t, r) ==
    r.at \in BookStatements =>
        /\ t \in Calls
        /\ r.id \in DOMAIN r.snapshot.hold
        /\ r.quantity = r.snapshot.hold[r.id].quantity
        /\ r.at = "findHold" => r.locks = {}
        /\ r.at # "findHold" => /\ Lock("hold", r.id, "Update") \in r.locks
                                /\ r.startedAt \in 0..Horizon
        /\ r.at \in {"countSeats", "settle"} =>
               /\ r.createdAt \in 0..Horizon
               /\ r.createdAt <= now
               /\ r.snapshot.hold[r.id].createdAt <= r.createdAt
        /\ r.at = "settle" =>
               LET e == r.snapshot.hold[r.id].eventId
               IN  /\ Lock("event", e, "NoKeyUpdate") \in r.locks
                   /\ r.snapshot.event[e].bookedSeats + r.quantity
                          <= r.snapshot.event[e].totalSeats

Good(t, r) ==
    /\ r \in OpenTx
    /\ SnapshotIsPast(r)
    /\ BookedMeanwhile(r)
    /\ LockedAsRead(t, r)
    /\ HoldingInv(t, r)
    /\ BookInv(t, r)

TxOK ==
    /\ tx = [t \in Transactions |-> tx[t]]
    /\ \A t \in Transactions : tx[t] = Closed \/ Good(t, tx[t])

\* No two transactions have locks that keep each other off.
LocksExclusive ==
    \A s, t \in Transactions :
        s # t => \A k \in tx[s].locks, l \in tx[t].locks : ~Conflict(k, l)

\* An active hold fits into the allowance of its day and of every later one:
\* AllowanceKept without the clock, which goes on between the statements.
AllowanceAhead ==
    \A h \in DOMAIN hold :
        hold[h].status \in ActiveStatuses =>
            \A day \in Days :
                DayOf[hold[h].createdAt] <= day =>
                    BookedOn(hold[h].userId, hold[h].eventId, day) + hold[h].quantity
                        <= Allowance(hold[h].userId, hold[h].eventId)

TablesOK ==
    /\ TypeOK
    /\ HoldsLive
    /\ OneActiveHold
    /\ AllowanceAhead
    /\ DailyLimit
    /\ TablesAgree

Inv == TablesOK /\ TxOK /\ LocksExclusive

-----------------------------------------------------------------------------
(* The tables as they stand.                                               *)

LEMMA RowTypes ==
    ASSUME TypeOK
    PROVE  /\ \A h \in DOMAIN hold : h \in Nat /\ hold[h] \in SeatHold
           /\ \A e \in DOMAIN event : e \in Nat /\ event[e] \in Event
           /\ \A b \in DOMAIN booking : b \in Nat /\ booking[b] \in Booking
           /\ Len(hold) \in Nat /\ DOMAIN hold = 1..Len(hold)
           /\ Len(booking) \in Nat /\ DOMAIN booking = 1..Len(booking)
<1>1. /\ hold \in Seq(SeatHold) /\ event \in Seq(Event) /\ booking \in Seq(Booking)
  BY DEF TypeOK
<1>2. /\ Len(hold) \in Nat /\ DOMAIN hold = 1..Len(hold)
      /\ \A h \in 1..Len(hold) : hold[h] \in SeatHold
  BY <1>1, TableShape
<1>3. /\ Len(event) \in Nat /\ DOMAIN event = 1..Len(event)
      /\ \A h \in 1..Len(event) : event[h] \in Event
  BY <1>1, TableShape
<1>4. /\ Len(booking) \in Nat /\ DOMAIN booking = 1..Len(booking)
      /\ \A h \in 1..Len(booking) : booking[h] \in Booking
  BY <1>1, TableShape
<1>5. QED BY <1>2, <1>3, <1>4

\* The sum of a day, in the table that is committed and in that of a snapshot.
LEMMA BookedInTables ==
    \A u, e, day : BookedOn(u, e, day) = BookedIn(booking, u, e, day)
BY DEF BookedOn, BookingsOn, BookedIn

LEMMA BookedInSnapshot ==
    \A t, u, e :
        View(t)!TodayBooked(u, e) = BookedIn(tx[t].snapshot.booking, u, e, DayOf[now])
<1> SUFFICES ASSUME NEW t, NEW u, NEW e
             PROVE  View(t)!TodayBooked(u, e) = BookedIn(tx[t].snapshot.booking, u, e, DayOf[now])
  OBVIOUS
<1>1. \A c : View(t)!Total(c) = Total(c)
  BY DEF Total, Count, Opposite, Units, Cardinality,
         View!Total, View!Count, View!Opposite, View!Units, View!Cardinality
<1>2. View(t)!TodayBooked(u, e)
         = View(t)!Total([b \in View(t)!BookingsToday(u, e) |-> tx[t].snapshot.booking[b].quantity])
  BY DEF View!TodayBooked
<1>3. QED BY <1>1, <1>2 DEF BookedIn, View!BookingsToday, View!IsToday

LEMMA BookedInType ==
    ASSUME NEW table \in Seq(Booking), NEW u, NEW e, NEW day
    PROVE  BookedIn(table, u, e, day) \in Int
<1> DEFINE ids == {i \in DOMAIN table :
                     /\ table[i].userId = u
                     /\ table[i].eventId = e
                     /\ table[i].status = "Confirmed"
                     /\ DayOf[table[i].createdAt] = day}
           c == [b \in ids |-> table[b].quantity]
<1>1. Len(table) \in Nat /\ ids \in SUBSET (1..Len(table))
  BY TableShape
<1>2. \A b \in ids : table[b].quantity \in Int
  <2> HIDE DEF ids
  <2>1. \A b \in ids : table[b] \in Booking
    BY <1>1, TableShape
  <2>2. QED BY <2>1 DEF Booking
<1> HIDE DEF ids
<1>3. Total(c) \in Int
  BY <1>1, <1>2, SumOfRows
<1>4. QED BY <1>3 DEF BookedIn, c, ids

\* What an old table of bookings says is no less than what was given back.
LEMMA BookedInFloor ==
    ASSUME TypeOK, NEW table \in Seq(Booking), NEW u, NEW e, NEW day,
           \A b \in DOMAIN table : b \in DOMAIN booking /\ booking[b] = table[b]
    PROVE  BookedIn(table, u, e, day) + GivenBack(u, e) >= 0
<1> DEFINE ids == {i \in DOMAIN table :
                     /\ table[i].userId = u
                     /\ table[i].eventId = e
                     /\ table[i].status = "Confirmed"
                     /\ DayOf[table[i].createdAt] = day}
           c == [b \in ids |-> table[b].quantity]
           f == [b \in ids |-> b]
<1>1. IsFiniteSet(ids)
  <2>1. DOMAIN table = 1..Len(table) /\ Len(table) \in Nat
    BY TableShape
  <2>2. ids \in SUBSET (1..Len(table)) /\ IsFiniteSet(1..Len(table))
    BY <2>1, FS_Interval
  <2>3. QED BY <2>2, FS_Subset
<1>2. c \in [ids -> Int]
  <2>1. \A b \in DOMAIN table : table[b] \in Booking
    BY TableShape
  <2>2. \A b \in ids : table[b].quantity \in Int
    BY <2>1 DEF Booking
  <2> HIDE DEF ids
  <2>3. QED BY <2>2
<1>3. AreBookedBy(c, f, u, e)
  <2>1. \A b \in ids : /\ b \in DOMAIN booking /\ booking[b] = table[b]
                       /\ table[b].userId = u /\ table[b].eventId = e
    OBVIOUS
  <2> HIDE DEF ids
  <2>2. DOMAIN c = ids /\ f \in [ids -> DOMAIN booking]
    BY <2>1
  <2>3. QED BY <2>1, <2>2 DEF AreBookedBy
<1>4. BookedIn(table, u, e, day) = Total(c)
  BY DEF BookedIn
<1> HIDE DEF ids, c, f
<1>5. QED BY <1>1, <1>2, <1>3, <1>4, NoLessThanGivenBack

AsExpired(row) == [row EXCEPT !.status = "Expired"]

\* The tables a transaction has swept, its snapshot's or the committed one.
LEMMA SweptTable ==
    ASSUME NEW table \in Seq(SeatHold), NEW t
    PROVE  /\ WithSwept(table, t) \in Seq(SeatHold)
           /\ Len(WithSwept(table, t)) = Len(table)
           /\ DOMAIN WithSwept(table, t) = DOMAIN table
           /\ \A h \in DOMAIN table :
                 /\ ~Sweeps(tx[t], h) => WithSwept(table, t)[h] = table[h]
                 /\ Sweeps(tx[t], h) => WithSwept(table, t)[h] = AsExpired(table[h])
                 /\ SameRequest(WithSwept(table, t)[h], table[h])
<1> DEFINE f == WithSwept(table, t)
<1>1. \A h \in DOMAIN table : table[h] \in SeatHold
  BY TableShape
<1>2. f = [h \in DOMAIN table |-> f[h]]
  BY DEF WithSwept
<1>3. \A h \in DOMAIN table :
         /\ ~Sweeps(tx[t], h) => f[h] = table[h]
         /\ Sweeps(tx[t], h) => f[h] = AsExpired(table[h])
  BY DEF WithSwept, SweptBy, Sweeps, AsExpired
<1> HIDE DEF f
<1>4. \A h \in DOMAIN table : f[h] \in SeatHold /\ SameRequest(f[h], table[h])
  <2> SUFFICES ASSUME NEW h \in DOMAIN table
               PROVE  f[h] \in SeatHold /\ SameRequest(f[h], table[h])
    OBVIOUS
  <2>1. table[h] \in SeatHold
    BY <1>1
  <2>2. CASE f[h] = table[h]
    BY <2>1, <2>2 DEF SameRequest
  <2>3. CASE f[h] = AsExpired(table[h])
    BY <2>1, <2>3 DEF SeatHold, SeatHoldStatus, SameRequest, AsExpired
  <2>4. QED BY <1>3, <2>2, <2>3
<1>5. f \in Seq(SeatHold) /\ Len(f) = Len(table) /\ DOMAIN f = DOMAIN table
  BY <1>2, <1>4, RewriteRows
<1>6. QED BY <1>3, <1>4, <1>5 DEF f

-----------------------------------------------------------------------------
(* Statements that leave the tables alone.                                 *)

LEMMA QuietTables == TablesOK /\ UNCHANGED vars => TablesOK'
<1> SUFFICES ASSUME TablesOK, UNCHANGED vars PROVE TablesOK'
  OBVIOUS
<1>1. now' = now /\ event' = event /\ hold' = hold /\ booking' = booking
  BY DEF vars
<1>2. TypeOK' /\ HoldsLive' /\ OneActiveHold'
  BY <1>1 DEF TablesOK, TypeOK, HoldsLive, OneActiveHold
<1>3. AllowanceAhead' /\ DailyLimit'
  BY <1>1, SumsStay DEF TablesOK, AllowanceAhead, DailyLimit
<1>4. SeatsMatchBookings'
  BY <1>1 DEF TablesOK, TablesAgree, SeatsMatchBookings, BookingsOf
<1>5. OneBookingPerHold'
  BY <1>1 DEF TablesOK, TablesAgree, OneBookingPerHold
<1>6. QED BY <1>2, <1>3, <1>4, <1>5 DEF TablesOK, TablesAgree

LEMMA QuietRows ==
    ASSUME UNCHANGED vars
    PROVE  \A t, r : Good(t, r) => Good(t, r)'
<1> SUFFICES ASSUME NEW t, NEW r, Good(t, r) PROVE Good(t, r)'
  OBVIOUS
<1>1. now' = now /\ event' = event /\ hold' = hold /\ booking' = booking
  BY DEF vars
<1>2. SnapshotIsPast(r)' /\ BookedMeanwhile(r)' /\ LockedAsRead(t, r)'
  BY <1>1 DEF Good, SnapshotIsPast, BookedMeanwhile, LockedAsRead
<1>3. Checked(r) => Checked(r)'
  BY <1>1, SumsStay DEF Checked
<1>4. HoldingInv(t, r)' /\ BookInv(t, r)'
  BY <1>1, <1>3 DEF Good, HoldingInv, BookInv, IsExpired
<1>5. QED BY <1>2, <1>4 DEF Good

\* t has a new row, whose locks nobody else's keep off, and nothing else
\* has changed.
LEMMA RowStep ==
    ASSUME Inv, UNCHANGED vars, NEW t \in Transactions, NEW r, r = Closed \/ Good(t, r),
           \A s \in Transactions : s # t =>
               \A k \in tx[s].locks, l \in r.locks : ~Conflict(k, l) /\ ~Conflict(l, k),
           tx' = [tx EXCEPT ![t] = r]
    PROVE  Inv'
<1>1. TablesOK'
  BY QuietTables DEF Inv
<1>2. tx = [s \in Transactions |-> tx[s]] /\ \A s \in Transactions : tx[s] = Closed \/ Good(s, tx[s])
  BY DEF Inv, TxOK
<1>3. /\ tx'[t] = r
      /\ \A s \in Transactions : s # t => tx'[s] = tx[s]
      /\ tx' = [s \in Transactions |-> tx'[s]]
  BY <1>2
<1>4. ASSUME NEW s \in Transactions
      PROVE  (tx[s] = Closed \/ Good(s, tx[s]))'
  <2>1. PICK q : q = tx'[s]
    OBVIOUS
  <2>2. q = Closed \/ Good(s, q)
    BY <1>2, <1>3, <2>1
  <2>3. q = Closed \/ Good(s, q)'
    BY <2>2, QuietRows
  <2>4. QED BY <2>1, <2>3 DEF Closed
<1>5. TxOK'
  BY <1>3, <1>4 DEF TxOK
<1>6. LocksExclusive'
  <2> SUFFICES ASSUME NEW s \in Transactions, NEW v \in Transactions, s # v,
                      NEW k \in tx'[s].locks, NEW l \in tx'[v].locks
               PROVE  ~Conflict(k, l)
    BY DEF LocksExclusive, Conflict
  <2>1. CASE s # t /\ v # t
    BY <1>3, <2>1 DEF Inv, LocksExclusive
  <2>2. CASE s = t
    BY <1>3, <2>2
  <2>3. CASE v = t
    BY <1>3, <2>3
  <2>4. QED BY <2>1, <2>2, <2>3
<1>7. QED BY <1>1, <1>5, <1>6 DEF Inv

\* A transaction without effect.
LEMMA RollbackStep ==
    ASSUME Inv, NEW t \in Transactions, Rollback(t)
    PROVE  Inv'
<1>1. tx' = [tx EXCEPT ![t] = Closed] /\ UNCHANGED vars
  BY DEF Rollback, RolledBack
<1>2. Closed.locks = {}
  BY DEF Closed
<1>3. PICK r : r = Closed
  OBVIOUS
<1>4. QED BY <1>1, <1>2, <1>3, RowStep

-----------------------------------------------------------------------------
(* The row of a transaction that has run one more statement.               *)

Onward(r, next, locks) == [r EXCEPT !.at = next, !.locks = @ \cup locks]

LEMMA OnwardRow ==
    ASSUME NEW r \in OpenTx, NEW next \in Statements, NEW locks \in SUBSET Locks
    PROVE  /\ Onward(r, next, locks) \in OpenTx
           /\ Onward(r, next, locks).at = next
           /\ Onward(r, next, locks).locks = r.locks \cup locks
           /\ Onward(r, next, locks).user = r.user
           /\ Onward(r, next, locks).id = r.id
           /\ Onward(r, next, locks).quantity = r.quantity
           /\ Onward(r, next, locks).snapshot = r.snapshot
           /\ Onward(r, next, locks).rows = r.rows
           /\ Onward(r, next, locks).startedAt = r.startedAt
           /\ Onward(r, next, locks).createdAt = r.createdAt
BY DEF Onward, OpenTx

LEMMA OpenRow ==
    ASSUME Inv, NEW t \in Transactions, tx[t].at # "closed"
    PROVE  /\ Good(t, tx[t])
           /\ tx[t] \in OpenTx
           /\ tx = [s \in Transactions |-> tx[s]]
<1>1. tx[t] # Closed
  BY DEF Closed
<1>2. QED BY <1>1 DEF Inv, TxOK, Good

LEMMA GoesOnRow ==
    ASSUME Inv, NEW t \in Transactions, tx[t].at # "closed",
           NEW next, NEW locks, NEW g, g = GoesOn(t, next, locks)
    PROVE  /\ g = [tx EXCEPT ![t] = Onward(tx[t], next, locks)]
           /\ g[t] = Onward(tx[t], next, locks)
           /\ \A q : [g EXCEPT ![t] = q] = [tx EXCEPT ![t] = q]
<1>1. tx[t] \in OpenTx /\ tx = [s \in Transactions |-> tx[s]]
  BY OpenRow
<1>2. g = [tx EXCEPT ![t] = Onward(tx[t], next, locks)]
  BY <1>1 DEF GoesOn, Onward, OpenTx
<1>3. QED BY <1>1, <1>2

LEMMA LockFields ==
    ASSUME NEW table \in {"event", "hold"}, NEW id \in Nat,
           NEW mode \in {"Update", "NoKeyUpdate", "KeyShare"}
    PROVE  /\ Lock(table, id, mode) \in Locks
           /\ Lock(table, id, mode).table = table
           /\ Lock(table, id, mode).id = id
           /\ Lock(table, id, mode).mode = mode
BY DEF Lock, Locks

\* A lock that is free goes with those of everybody else.
LEMMA FreeLock ==
    ASSUME Inv, NEW t \in Transactions, NEW more,
           \A l \in more : Free(t, l)
    PROVE  \A s \in Transactions : s # t =>
              \A k \in tx[s].locks, l \in tx[t].locks \cup more : ~Conflict(k, l) /\ ~Conflict(l, k)
<1> SUFFICES ASSUME NEW s \in Transactions, s # t, NEW k \in tx[s].locks,
                    NEW l \in tx[t].locks \cup more
             PROVE  ~Conflict(k, l) /\ ~Conflict(l, k)
  OBVIOUS
<1>1. Conflict(k, l) <=> Conflict(l, k)
  BY DEF Conflict
<1>2. CASE l \in tx[t].locks
  BY <1>1, <1>2 DEF Inv, LocksExclusive
<1>3. CASE l \in more
  <2>1. Holders(l) \subseteq {t}
    BY <1>3 DEF Free
  <2>2. ~Conflict(l, k)
    BY <2>1 DEF Holders
  <2>3. QED BY <1>1, <2>2
<1>4. QED BY <1>2, <1>3

\* What t knows of the tables does not depend on the statement it is at.
LEMMA SameSnapshot ==
    ASSUME NEW r, NEW q, q.snapshot = r.snapshot, SnapshotIsPast(r), BookedMeanwhile(r)
    PROVE  SnapshotIsPast(q) /\ BookedMeanwhile(q)
BY DEF SnapshotIsPast, BookedMeanwhile

\* A statement that has run: its row and its locks.
LEMMA StatementStep ==
    ASSUME Inv, UNCHANGED vars, NEW t \in Transactions, NEW q, Good(t, q),
           NEW more, \A l \in more : Free(t, l), q.locks = tx[t].locks \cup more,
           tx' = [tx EXCEPT ![t] = q]
    PROVE  Inv'
<1>1. \A s \in Transactions : s # t =>
         \A k \in tx[s].locks, l \in q.locks : ~Conflict(k, l) /\ ~Conflict(l, k)
  BY FreeLock
<1>2. QED BY <1>1, RowStep

-----------------------------------------------------------------------------
(* The statements of holdSeats and of the job.                             *)

\* The row of a transaction that begins has the tables as they are.
LEMMA OpenedRow ==
    ASSUME Inv, NEW statement \in Statements, NEW user \in Users \cup {Null},
           NEW id \in Nat \cup {Null}, NEW quantity \in Int \cup {Null}
    PROVE  /\ Opened(statement, user, id, quantity) \in OpenTx
           /\ SnapshotIsPast(Opened(statement, user, id, quantity))
           /\ BookedMeanwhile(Opened(statement, user, id, quantity))
           /\ Opened(statement, user, id, quantity).at = statement
           /\ Opened(statement, user, id, quantity).user = user
           /\ Opened(statement, user, id, quantity).id = id
           /\ Opened(statement, user, id, quantity).quantity = quantity
           /\ Opened(statement, user, id, quantity).locks = {}
           /\ Opened(statement, user, id, quantity).rows = {}
           /\ Opened(statement, user, id, quantity).snapshot
                 = [event |-> event, hold |-> hold, booking |-> booking]
<1> DEFINE q == Opened(statement, user, id, quantity)
<1>1. q.snapshot = [event |-> event, hold |-> hold, booking |-> booking]
  BY DEF Opened
<1>2. q.snapshot \in Snapshots
  BY <1>1 DEF Inv, TablesOK, TypeOK, Snapshots
<1>3. q \in OpenTx
  BY <1>2 DEF Opened, OpenTx
<1>4. /\ q.snapshot.hold = hold /\ q.snapshot.booking = booking
      /\ \A h \in DOMAIN hold : hold[h].status # "Cancelled"
  BY <1>1 DEF Inv, TablesOK, HoldsLive
<1> HIDE DEF q
<1>5. SnapshotIsPast(q)
  BY <1>4 DEF SnapshotIsPast, SameRequest
<1>6. BookedMeanwhile(q)
  BY <1>4 DEF BookedMeanwhile
<1>7. QED BY <1>1, <1>3, <1>5, <1>6 DEF q, Opened

LEMMA BeginStep ==
    ASSUME Inv, UNCHANGED vars, NEW t \in Transactions, ~IsOpen(t), NEW q, Good(t, q),
           q.locks = {}, tx' = [tx EXCEPT ![t] = q]
    PROVE  Inv'
<1>1. tx[t].locks = {}
  BY DEF IsOpen, Closed
<1>2. q.locks = tx[t].locks \cup {} /\ \A l \in {} : Free(t, l)
  BY <1>1
<1>3. QED BY <1>2, StatementStep

LEMMA BeginHoldSeatsStep ==
    ASSUME Inv, NEW c \in Calls, NEW u \in Users, NEW e \in DOMAIN event, NEW n \in Quantities,
           BeginHoldSeats(c, u, e, n)
    PROVE  Inv'
<1>1. c \in Transactions /\ "findEvent" \in Statements /\ n \in Int /\ e \in Nat
  BY InputsAssumption, RowTypes DEF Transactions, Statements, Inv, TablesOK
<1>2. PICK q : q = Opened("findEvent", u, e, n)
  OBVIOUS
<1>3. /\ q \in OpenTx /\ SnapshotIsPast(q) /\ BookedMeanwhile(q)
      /\ q.at = "findEvent" /\ q.user = u /\ q.id = e /\ q.quantity = n
      /\ q.locks = {} /\ q.rows = {}
  BY <1>1, <1>2, OpenedRow
<1>4. Good(c, q)
  BY <1>3 DEF Good, LockedAsRead, HoldingInv, BookInv, BookStatements
<1>5. ~IsOpen(c) /\ tx' = [tx EXCEPT ![c] = q] /\ UNCHANGED vars
  BY <1>2 DEF BeginHoldSeats, Begin
<1>6. QED BY <1>1, <1>3, <1>4, <1>5, BeginStep

LEMMA BeginJobStep ==
    ASSUME Inv, BeginJob
    PROVE  Inv'
<1>1. Job \in Transactions /\ Job \notin Calls /\ "expireHolds" \in Statements
  BY TransactionsAssumption DEF Transactions, Statements
<1>2. PICK o : o = Opened("expireHolds", Null, Null, Null)
  OBVIOUS
<1>3. PICK expired : expired = {h \in DOMAIN hold : IsExpired(hold[h])}
  OBVIOUS
<1>4. PICK q : q = [o EXCEPT !.rows = expired]
  OBVIOUS
<1>5. /\ o \in OpenTx /\ SnapshotIsPast(o) /\ BookedMeanwhile(o)
      /\ o.at = "expireHolds" /\ o.locks = {} /\ o.snapshot.hold = hold
  <2>1. /\ Null \in Users \cup {Null}
        /\ Null \in Nat \cup {Null}
        /\ Null \in Int \cup {Null}
    OBVIOUS
  <2>2. /\ Opened("expireHolds", Null, Null, Null) \in OpenTx
        /\ SnapshotIsPast(Opened("expireHolds", Null, Null, Null))
        /\ BookedMeanwhile(Opened("expireHolds", Null, Null, Null))
    BY <1>1, <2>1, OpenedRow, Zenon
  <2>3. /\ o.at = "expireHolds" /\ o.locks = {}
        /\ o.snapshot = [event |-> event, hold |-> hold, booking |-> booking]
    BY <1>2 DEF Opened
  <2>4. QED BY <1>2, <2>2, <2>3
<1>6. expired \in SUBSET Nat
  BY <1>3, RowTypes DEF Inv, TablesOK
<1>7. /\ q \in OpenTx /\ q.at = "expireHolds" /\ q.locks = {} /\ q.rows = expired
      /\ q.snapshot = o.snapshot
  BY <1>4, <1>5, <1>6 DEF OpenTx
<1>8. SnapshotIsPast(q) /\ BookedMeanwhile(q)
  BY <1>5, <1>7, SameSnapshot
<1>9. \A h \in q.rows : h \in DOMAIN q.snapshot.hold /\ IsExpired(q.snapshot.hold[h])
  BY <1>3, <1>5, <1>7
<1>10. Good(Job, q)
  BY <1>1, <1>7, <1>8, <1>9 DEF Good, LockedAsRead, HoldingInv, BookInv, BookStatements
<1>11. ~IsOpen(Job) /\ tx' = [tx EXCEPT ![Job] = q] /\ UNCHANGED vars
  BY <1>2, <1>3, <1>4 DEF BeginJob
<1>12. QED BY <1>1, <1>7, <1>10, <1>11, BeginStep

LEMMA FindEventStep ==
    ASSUME Inv, NEW c \in Calls, FindEvent(c)
    PROVE  Inv'
<1>1. c \in Transactions /\ tx[c].at = "findEvent" /\ UNCHANGED vars
  BY DEF FindEvent, Transactions
<1>2. PICK r : r = tx[c]
  OBVIOUS
<1>3. Good(c, r) /\ r \in OpenTx /\ r.at = "findEvent"
  BY <1>1, <1>2, OpenRow
<1>4. /\ r.user \in Users /\ r.id \in DOMAIN event /\ r.quantity \in Quantities /\ r.locks = {}
      /\ r.id \in Nat
  BY <1>3, RowTypes DEF Good, HoldingInv, HoldStatements, Inv, TablesOK
<1>5. PICK lock : lock = Lock("event", r.id, "Update")
  OBVIOUS
<1>6. Wanted(c) = {lock}
  BY <1>1, <1>2, <1>5 DEF Wanted, EventOf
<1>7. lock \in Locks /\ lock.table = "event" /\ lock.id = r.id /\ lock.mode = "Update"
  BY <1>4, <1>5, LockFields
<1>8. PICK expired : expired = {h \in DOMAIN r.snapshot.hold : IsExpired(r.snapshot.hold[h])}
  OBVIOUS
<1>9. PICK n : n = Onward(r, "expireHolds", {lock})
  OBVIOUS
<1>10. PICK q : q = [n EXCEPT !.rows = expired]
  OBVIOUS
<1>11. /\ Granted(c, lock)
       /\ tx' = [GoesOn(c, "expireHolds", {lock}) EXCEPT ![c].rows = expired]
  BY <1>2, <1>6, <1>8 DEF FindEvent
<1>12. tx' = [tx EXCEPT ![c] = q]
  <2>1. PICK g : g = GoesOn(c, "expireHolds", {lock})
    OBVIOUS
  <2>2. g[c] = n /\ [g EXCEPT ![c] = q] = [tx EXCEPT ![c] = q]
    BY <1>1, <1>2, <1>9, <2>1, GoesOnRow
  <2>3. QED BY <1>10, <1>11, <2>1, <2>2
<1>13. expired \in SUBSET Nat
  <2>1. r.snapshot.hold \in Seq(SeatHold)
    BY <1>3 DEF OpenTx, Snapshots
  <2>2. QED BY <1>8, <2>1, TableShape
<1>14. /\ n \in OpenTx /\ n.at = "expireHolds" /\ n.locks = r.locks \cup {lock} /\ n.snapshot = r.snapshot
       /\ n.user = r.user /\ n.id = r.id /\ n.quantity = r.quantity
  BY <1>3, <1>7, <1>9, OnwardRow DEF Statements
<1>15. /\ q \in OpenTx /\ q.at = "expireHolds" /\ q.locks = {lock} /\ q.snapshot = r.snapshot
       /\ q.rows = expired /\ q.user = r.user /\ q.id = r.id /\ q.quantity = r.quantity
  BY <1>4, <1>10, <1>13, <1>14 DEF OpenTx
<1>16. SnapshotIsPast(q) /\ BookedMeanwhile(q)
  BY <1>3, <1>15, SameSnapshot DEF Good
<1>17. event[r.id] = r.snapshot.event[r.id] /\ Free(c, lock)
  BY <1>2, <1>7, <1>11 DEF Granted, Stale
<1>18. LockedAsRead(c, q)
  BY <1>4, <1>7, <1>15, <1>17 DEF LockedAsRead
<1>19. \A h \in q.rows : h \in DOMAIN q.snapshot.hold /\ IsExpired(q.snapshot.hold[h])
  BY <1>8, <1>15
<1>20. HoldingInv(c, q) /\ BookInv(c, q)
  BY <1>4, <1>7, <1>15, <1>19 DEF HoldingInv, BookInv, BookStatements
<1>21. Good(c, q)
  BY <1>15, <1>16, <1>18, <1>20 DEF Good
<1>22. q.locks = tx[c].locks \cup {lock} /\ \A l \in {lock} : Free(c, l)
  BY <1>2, <1>4, <1>15, <1>17
<1>23. QED BY <1>1, <1>12, <1>21, <1>22, StatementStep

LEMMA ExpireHoldStep ==
    ASSUME Inv, NEW c \in Calls, ExpireHold(c)
    PROVE  Inv'
<1>1. c \in Transactions /\ tx[c].at = "expireHolds" /\ UNCHANGED vars
  BY DEF ExpireHold, Transactions
<1>2. PICK r : r = tx[c]
  OBVIOUS
<1>3. Good(c, r) /\ r \in OpenTx /\ r.at = "expireHolds"
  BY <1>1, <1>2, OpenRow
<1>4. Wanted(c) = {Lock("hold", h, "NoKeyUpdate") : h \in r.rows}
  BY <1>1, <1>2 DEF Wanted
<1>5. PICK h, lock : /\ h \in r.rows
                     /\ lock = Lock("hold", h, "NoKeyUpdate")
                     /\ Granted(c, lock)
                     /\ tx' = [GoesOn(c, "expireHolds", {lock}) EXCEPT ![c].rows = @ \ {lock.id}]
  BY <1>4 DEF ExpireHold, Granted
<1>6. /\ h \in DOMAIN r.snapshot.hold /\ IsExpired(r.snapshot.hold[h])
      /\ h \in DOMAIN hold
  BY <1>3, <1>5 DEF Good, HoldingInv, HoldStatements, SnapshotIsPast
<1>7. /\ lock \in Locks /\ lock.table = "hold" /\ lock.id = h /\ lock.mode = "NoKeyUpdate"
  BY <1>5, <1>6, LockFields, RowTypes DEF Inv, TablesOK
<1>8. PICK n : n = Onward(r, "expireHolds", {lock})
  OBVIOUS
<1>9. PICK q : q = [n EXCEPT !.rows = @ \ {h}]
  OBVIOUS
<1>10. tx' = [tx EXCEPT ![c] = q]
  <2>1. PICK g : g = GoesOn(c, "expireHolds", {lock})
    OBVIOUS
  <2>2. g[c] = n /\ [g EXCEPT ![c] = q] = [tx EXCEPT ![c] = q]
    BY <1>1, <1>2, <1>8, <2>1, GoesOnRow
  <2>3. QED BY <1>5, <1>7, <1>9, <2>1, <2>2
<1>11. /\ n \in OpenTx /\ n.at = "expireHolds" /\ n.locks = r.locks \cup {lock} /\ n.snapshot = r.snapshot
       /\ n.user = r.user /\ n.id = r.id /\ n.quantity = r.quantity /\ n.rows = r.rows
  BY <1>3, <1>7, <1>8, OnwardRow DEF Statements
<1>12. /\ q \in OpenTx /\ q.at = "expireHolds" /\ q.locks = r.locks \cup {lock}
       /\ q.snapshot = r.snapshot /\ q.rows = r.rows \ {h}
       /\ q.user = r.user /\ q.id = r.id /\ q.quantity = r.quantity
  BY <1>9, <1>11 DEF OpenTx
<1>13. SnapshotIsPast(q) /\ BookedMeanwhile(q)
  BY <1>3, <1>12, SameSnapshot DEF Good
<1>14. hold[h] = r.snapshot.hold[h] /\ Free(c, lock)
  BY <1>2, <1>5, <1>7 DEF Granted, Stale
<1>15. LockedAsRead(c, q)
  BY <1>3, <1>6, <1>7, <1>12, <1>14 DEF Good, LockedAsRead, Settled, IsExpired
<1>16. HoldingInv(c, q) /\ BookInv(c, q)
  BY <1>3, <1>6, <1>7, <1>12, <1>14 DEF Good, HoldingInv, BookInv, HoldStatements, BookStatements
<1>17. Good(c, q)
  BY <1>12, <1>13, <1>15, <1>16 DEF Good
<1>18. q.locks = tx[c].locks \cup {lock} /\ \A l \in {lock} : Free(c, l)
  BY <1>2, <1>12, <1>14
<1>19. QED BY <1>1, <1>10, <1>17, <1>18, StatementStep

LEMMA JobTakesRowStep ==
    ASSUME Inv, JobTakesRow
    PROVE  Inv'
<1>1. Job \in Transactions /\ Job \notin Calls /\ UNCHANGED vars
  BY TransactionsAssumption DEF JobTakesRow, Transactions
<1>2. PICK r : r = tx[Job]
  OBVIOUS
<1>3. PICK lock : /\ lock \in Wanted(Job) /\ Free(Job, lock)
                  /\ tx' = [GoesOn(Job, "expireHolds", StillExpired(lock)) EXCEPT
                               ![Job].rows = @ \ {lock.id}]
  BY DEF JobTakesRow
<1>4. r.at # "closed"
  BY <1>2, <1>3 DEF Wanted
<1>5. Good(Job, r) /\ r \in OpenTx
  BY <1>1, <1>2, <1>4, OpenRow
<1>6. r.at = "expireHolds"
  BY <1>1, <1>5 DEF Good, HoldingInv, BookInv, OpenTx, Statements, HoldStatements, BookStatements
<1>7. PICK h : h \in r.rows /\ lock = Lock("hold", h, "NoKeyUpdate")
  BY <1>2, <1>3, <1>6 DEF Wanted
<1>8. h \in DOMAIN hold
  BY <1>5, <1>6, <1>7 DEF Good, HoldingInv, HoldStatements, SnapshotIsPast
<1>9. /\ lock \in Locks /\ lock.table = "hold" /\ lock.id = h /\ lock.mode = "NoKeyUpdate"
  BY <1>7, <1>8, LockFields, RowTypes DEF Inv, TablesOK
<1>10. PICK taken : taken = StillExpired(lock)
  OBVIOUS
<1>11. \A l \in taken : l = lock /\ IsExpired(hold[h])
  BY <1>9, <1>10 DEF StillExpired
<1>12. PICK n : n = Onward(r, "expireHolds", taken)
  OBVIOUS
<1>13. PICK q : q = [n EXCEPT !.rows = @ \ {h}]
  OBVIOUS
<1>14. tx' = [tx EXCEPT ![Job] = q]
  <2>1. PICK g : g = GoesOn(Job, "expireHolds", taken)
    OBVIOUS
  <2>2. g[Job] = n /\ [g EXCEPT ![Job] = q] = [tx EXCEPT ![Job] = q]
    BY <1>1, <1>2, <1>4, <1>12, <2>1, GoesOnRow
  <2>3. QED BY <1>3, <1>9, <1>10, <1>13, <2>1, <2>2
<1>15. /\ n \in OpenTx /\ n.at = "expireHolds" /\ n.locks = r.locks \cup taken
       /\ n.snapshot = r.snapshot /\ n.rows = r.rows
  <2>1. taken \in SUBSET Locks
    BY <1>9, <1>11
  <2>2. QED BY <1>5, <1>12, <2>1, OnwardRow DEF Statements
<1>16. /\ q \in OpenTx /\ q.at = "expireHolds" /\ q.locks = r.locks \cup taken
       /\ q.snapshot = r.snapshot /\ q.rows = r.rows \ {h}
  BY <1>13, <1>15 DEF OpenTx
<1>17. SnapshotIsPast(q) /\ BookedMeanwhile(q)
  BY <1>5, <1>16, SameSnapshot DEF Good
<1>18. LockedAsRead(Job, q)
  BY <1>1, <1>5, <1>8, <1>9, <1>11, <1>16 DEF Good, LockedAsRead, Settled, IsExpired
<1>19. HoldingInv(Job, q) /\ BookInv(Job, q)
  BY <1>1, <1>5, <1>6, <1>9, <1>11, <1>16 DEF Good, HoldingInv, BookInv, HoldStatements, BookStatements
<1>20. Good(Job, q)
  BY <1>16, <1>17, <1>18, <1>19 DEF Good
<1>21. q.locks = tx[Job].locks \cup taken /\ \A l \in taken : Free(Job, l)
  BY <1>2, <1>3, <1>11, <1>16
<1>22. QED BY <1>1, <1>14, <1>20, <1>21, StatementStep

\* A hold of the snapshot that still runs, beside no active one, was booked:
\* what is swept, or was Expired before, has run out.
LEMMA RunningInSnapshot ==
    ASSUME Inv, NEW c \in Calls, NEW r, r = tx[c], Good(c, r), r.at = "expireHolds",
           NEW table, ~HasExistingHold(table, r.user, r.id),
           DOMAIN table = DOMAIN r.snapshot.hold,
           \A h \in DOMAIN r.snapshot.hold :
              /\ ~Sweeps(r, h) => table[h] = r.snapshot.hold[h]
              /\ SameRequest(table[h], r.snapshot.hold[h])
    PROVE  \A h \in DOMAIN table :
              table[h].userId = r.user /\ table[h].eventId = r.id /\ table[h].expiresAt > now =>
                 h \in DOMAIN hold /\ hold[h] = table[h] /\ hold[h].status = "Completed"
<1> SUFFICES ASSUME NEW h \in DOMAIN table, table[h].userId = r.user,
                    table[h].eventId = r.id, table[h].expiresAt > now
             PROVE  h \in DOMAIN hold /\ hold[h] = table[h] /\ hold[h].status = "Completed"
  OBVIOUS
<1>1. /\ h \in DOMAIN r.snapshot.hold /\ h \in DOMAIN hold
      /\ SameRequest(hold[h], r.snapshot.hold[h]) /\ SameRequest(table[h], r.snapshot.hold[h])
      /\ r.snapshot.hold[h].status \in Settled => hold[h] = r.snapshot.hold[h]
      /\ r.snapshot.hold[h].status # "Cancelled"
  BY DEF Good, SnapshotIsPast
<1>2. ~(hold[h].expiresAt < now)
  <2>1. hold[h].expiresAt \in Int /\ now \in Int
    BY <1>1, RowTypes, ParametersAssumption DEF Inv, TablesOK, TypeOK, SeatHold
  <2>2. hold[h].expiresAt > now
    BY <1>1 DEF SameRequest
  <2>3. QED BY <2>1, <2>2
<1>3. ~Sweeps(r, h)
  <2>1. Sweeps(r, h) => IsExpired(hold[h])
    BY DEF Good, HoldingInv, HoldStatements, Sweeps
  <2>2. QED BY <1>2, <2>1 DEF IsExpired
<1>4. table[h] = r.snapshot.hold[h] /\ table[h].status \notin ActiveStatuses
  BY <1>1, <1>3 DEF HasExistingHold
<1>5. r.snapshot.hold[h].status \in Settled
  <2>1. r.snapshot.hold \in Seq(SeatHold)
    BY DEF Good, OpenTx, Snapshots
  <2>2. r.snapshot.hold[h] \in SeatHold
    BY <1>1, <2>1, TableShape
  <2>3. QED BY <1>1, <1>4, <2>2 DEF SeatHold, SeatHoldStatus, Settled, ActiveStatuses
<1>6. hold[h] = table[h] /\ hold[h].status \in Settled
  BY <1>1, <1>4, <1>5
<1>7. hold[h].status # "Expired"
  BY <1>1, <1>2 DEF Inv, TablesOK, HoldsLive
<1>8. QED BY <1>1, <1>6, <1>7 DEF Settled

\* The allowance of today is that of every later day, on which nothing is booked
\* yet; and a hold that is not swept is a hold the check has seen.
LEMMA CheckedByMayHold ==
    ASSUME Inv, NEW c \in Calls, NEW r, r = tx[c], Good(c, r), r.at = "expireHolds", MayHold(c)
    PROVE  Checked(r)
<1>1. /\ r \in OpenTx /\ r.user \in Users /\ r.id \in DOMAIN event /\ r.quantity \in Quantities
      /\ SnapshotIsPast(r)
  BY DEF Good, HoldingInv, HoldStatements
<1>2. r.snapshot.hold \in Seq(SeatHold) /\ r.snapshot.booking \in Seq(Booking)
  BY <1>1 DEF OpenTx, Snapshots
<1>3. PICK table : table = WithSwept(r.snapshot.hold, c)
  OBVIOUS
<1>4. /\ table \in Seq(SeatHold)
      /\ DOMAIN table = DOMAIN r.snapshot.hold
      /\ \A h \in DOMAIN r.snapshot.hold :
            /\ ~Sweeps(r, h) => table[h] = r.snapshot.hold[h]
            /\ SameRequest(table[h], r.snapshot.hold[h])
  <2>1. PICK past : past = r.snapshot.hold /\ past \in Seq(SeatHold) /\ table = WithSwept(past, c)
    BY <1>2, <1>3
  <2>2. /\ table \in Seq(SeatHold)
        /\ DOMAIN table = DOMAIN past
        /\ \A h \in DOMAIN past :
              /\ ~Sweeps(tx[c], h) => table[h] = past[h]
              /\ SameRequest(table[h], past[h])
    BY <2>1, SweptTable
  <2>3. QED BY <2>1, <2>2
<1>5. /\ ~HasExistingHold(table, r.user, r.id)
      /\ View(c)!TodayBooked(r.user, r.id) + TodayHold(table, r.user, r.id) + r.quantity
             <= MAX_EVENT_TICKETS_PER_DAY
  BY <1>3 DEF MayHold
<1>6. \A h \in DOMAIN r.snapshot.hold :
         /\ r.snapshot.hold[h].userId = r.user
         /\ r.snapshot.hold[h].eventId = r.id
         /\ r.snapshot.hold[h].status \in ActiveStatuses
         => Sweeps(r, h)
  BY <1>4, <1>5 DEF HasExistingHold
<1>7. PICK sum : sum = BookedIn(r.snapshot.booking, r.user, r.id, DayOf[now])
  OBVIOUS
<1>8. PICK held, back : held = TodayHold(table, r.user, r.id) /\ back = GivenBack(r.user, r.id)
  OBVIOUS
<1>9. /\ sum \in Int /\ back \in Nat /\ sum + back >= 0
      /\ r.quantity \in Int
  <2>1. back \in Nat
    <3>1. PICK day : day = DayOf[now]
      OBVIOUS
    <3>2. QED BY <1>8, BookedFloor DEF Inv, TablesOK
  <2>2. sum + back >= 0
    BY <1>1, <1>2, <1>7, <1>8, BookedInFloor DEF Inv, TablesOK, SnapshotIsPast
  <2>3. QED BY <1>1, <1>2, <1>7, <2>1, <2>2, BookedInType, InputsAssumption
<1>10. held \in Int /\ held + back >= 0
  <2>1. \A h \in DOMAIN table :
           table[h].userId = r.user /\ table[h].eventId = r.id /\ table[h].expiresAt > now =>
              h \in DOMAIN hold /\ hold[h] = table[h] /\ hold[h].status = "Completed"
    BY <1>1, <1>3, <1>4, <1>5, RunningInSnapshot
  <2>2. QED BY <1>4, <1>8, <2>1, HeldFloor DEF Inv, TablesOK, TablesAgree
<1>11. /\ sum + r.quantity <= Allowance(r.user, r.id)
       /\ r.quantity <= Allowance(r.user, r.id)
  <2>1. View(c)!TodayBooked(r.user, r.id) = sum
    BY <1>7, BookedInSnapshot
  <2>2. sum + held + r.quantity <= MAX_EVENT_TICKETS_PER_DAY
    BY <1>5, <1>8, <2>1
  <2>3. QED BY <1>8, <1>9, <1>10, <2>2, CheckFitsAllowance DEF Allowance
<1>12. ASSUME NEW day \in Days, DayOf[now] <= day
       PROVE  BookedIn(r.snapshot.booking, r.user, r.id, day) + r.quantity
                 <= Allowance(r.user, r.id)
  <2>1. CASE day = DayOf[now]
    BY <1>7, <1>11, <2>1
  <2>2. CASE day # DayOf[now]
    <3>1. \A b \in DOMAIN r.snapshot.booking : DayOf[r.snapshot.booking[b].createdAt] # day
      <4> SUFFICES ASSUME NEW b \in DOMAIN r.snapshot.booking
                   PROVE  DayOf[r.snapshot.booking[b].createdAt] # day
        OBVIOUS
      <4>1. b \in DOMAIN booking /\ r.snapshot.booking[b] = booking[b]
        BY <1>1 DEF SnapshotIsPast
      <4>2. booking[b].createdAt \in 0..Horizon /\ booking[b].createdAt <= now
        BY <4>1, RowTypes DEF Inv, TablesOK, TypeOK, Booking
      <4>3. now \in 0..Horizon
        BY DEF Inv, TablesOK, TypeOK
      <4>4. DayOf[booking[b].createdAt] <= DayOf[now]
        BY <4>2, <4>3, CalendarAssumption
      <4>5. day \in Nat /\ DayOf[now] \in Nat /\ DayOf[booking[b].createdAt] \in Nat
        BY <4>2, <4>3, CalendarAssumption DEF Days
      <4>6. QED BY <1>12, <2>2, <4>1, <4>4, <4>5
    <3> DEFINE ids == {i \in DOMAIN r.snapshot.booking :
                         /\ r.snapshot.booking[i].userId = r.user
                         /\ r.snapshot.booking[i].eventId = r.id
                         /\ r.snapshot.booking[i].status = "Confirmed"
                         /\ DayOf[r.snapshot.booking[i].createdAt] = day}
               none == [b \in ids |-> r.snapshot.booking[b].quantity]
    <3>2. DOMAIN none = {}
      BY <3>1
    <3> HIDE DEF none
    <3>3. Total(none) = 0
      BY <3>2, TotalEmpty
    <3>4. BookedIn(r.snapshot.booking, r.user, r.id, day) = 0
      BY <3>3 DEF BookedIn, none
    <3>5. QED BY <1>9, <1>11, <3>4
  <2>3. QED BY <2>1, <2>2
<1>13. QED BY <1>6, <1>12 DEF Checked

LEMMA CheckLimitsStep ==
    ASSUME Inv, NEW c \in Calls, CheckLimits(c)
    PROVE  Inv'
<1>1. /\ c \in Transactions /\ tx[c].at = "expireHolds" /\ tx[c].rows = {} /\ MayHold(c)
      /\ UNCHANGED vars
  BY DEF CheckLimits, Transactions
<1>2. PICK r : r = tx[c]
  OBVIOUS
<1>3. Good(c, r) /\ r \in OpenTx /\ r.at = "expireHolds" /\ r.rows = {}
  BY <1>1, <1>2, OpenRow
<1>4. Checked(r)
  BY <1>1, <1>2, <1>3, CheckedByMayHold
<1>5. PICK q : q = Onward(r, "createHold", {})
  OBVIOUS
<1>6. tx' = [tx EXCEPT ![c] = q]
  <2>1. PICK g : g = GoesOn(c, "createHold", {})
    OBVIOUS
  <2>2. g = [tx EXCEPT ![c] = q]
    BY <1>1, <1>2, <1>5, <2>1, GoesOnRow
  <2>3. QED BY <2>1, <2>2 DEF CheckLimits
<1>7. /\ q \in OpenTx /\ q.at = "createHold" /\ q.locks = r.locks /\ q.snapshot = r.snapshot
      /\ q.user = r.user /\ q.id = r.id /\ q.quantity = r.quantity /\ q.rows = r.rows
  <2>1. PICK none : none = {}
    OBVIOUS
  <2>2. none \in SUBSET Locks /\ r.locks \cup none = r.locks /\ "createHold" \in Statements
    BY <2>1 DEF Statements
  <2>3. q = Onward(r, "createHold", none)
    BY <1>5, <2>1
  <2>4. /\ q \in OpenTx /\ q.at = "createHold" /\ q.locks = r.locks \cup none
        /\ q.snapshot = r.snapshot /\ q.user = r.user /\ q.id = r.id
        /\ q.quantity = r.quantity /\ q.rows = r.rows
    BY <1>3, <2>2, <2>3, OnwardRow
  <2>5. QED BY <2>2, <2>4
<1>8. SnapshotIsPast(q) /\ BookedMeanwhile(q)
  BY <1>3, <1>7, SameSnapshot DEF Good
<1>9. LockedAsRead(c, q)
  BY <1>3, <1>7 DEF Good, LockedAsRead
<1>10. Checked(q)
  BY <1>4, <1>7 DEF Checked, Sweeps
<1>11. HoldingInv(c, q) /\ BookInv(c, q)
  BY <1>3, <1>7, <1>10 DEF Good, HoldingInv, BookInv, HoldStatements, BookStatements
<1>12. Good(c, q)
  BY <1>7, <1>8, <1>9, <1>11 DEF Good
<1>13. q.locks = tx[c].locks \cup {} /\ \A l \in {} : Free(c, l)
  BY <1>2, <1>7
<1>14. QED BY <1>1, <1>6, <1>12, <1>13, StatementStep

-----------------------------------------------------------------------------
(* The statements of book.                                                 *)

LEMMA BeginBookStep ==
    ASSUME Inv, NEW c \in Calls, NEW u \in Users, NEW h \in DOMAIN hold, BeginBook(c, u, h)
    PROVE  Inv'
<1>1. /\ c \in Transactions /\ "findHold" \in Statements /\ h \in Nat
      /\ hold[h].quantity \in Int
  BY RowTypes, ParametersAssumption DEF Transactions, Statements, Inv, TablesOK, SeatHold
<1>2. PICK n : n = hold[h].quantity
  OBVIOUS
<1>3. PICK q : q = Opened("findHold", u, h, n)
  OBVIOUS
<1>4. /\ q \in OpenTx /\ SnapshotIsPast(q) /\ BookedMeanwhile(q)
      /\ q.at = "findHold" /\ q.id = h /\ q.quantity = n
      /\ q.locks = {} /\ q.snapshot.hold = hold
  BY <1>1, <1>2, <1>3, OpenedRow
<1>5. Good(c, q)
  BY <1>2, <1>4 DEF Good, LockedAsRead, HoldingInv, BookInv, HoldStatements
<1>6. ~IsOpen(c) /\ tx' = [tx EXCEPT ![c] = q] /\ UNCHANGED vars
  BY <1>2, <1>3 DEF BeginBook, Begin
<1>7. QED BY <1>1, <1>4, <1>5, <1>6, BeginStep

\* The hold that book is about, and its event.
LEMMA HoldOfBook ==
    ASSUME Inv, NEW c \in Calls, NEW r, r = tx[c], r.at \in BookStatements
    PROVE  /\ c \in Transactions
           /\ Good(c, r)
           /\ r \in OpenTx
           /\ r.id \in DOMAIN hold
           /\ r.id \in Nat
           /\ SameRequest(hold[r.id], r.snapshot.hold[r.id])
           /\ r.snapshot.hold[r.id].eventId \in DOMAIN event
           /\ r.snapshot.hold[r.id].eventId \in Nat
           /\ EventOf(c) = r.snapshot.hold[r.id].eventId
<1>1. c \in Transactions /\ r.at # "closed"
  BY DEF Transactions, BookStatements
<1>2. Good(c, r) /\ r \in OpenTx
  BY <1>1, OpenRow
<1>3. r.id \in DOMAIN hold /\ SameRequest(hold[r.id], r.snapshot.hold[r.id])
  BY <1>2 DEF Good, BookInv, SnapshotIsPast
<1>4. r.id \in Nat /\ hold[r.id].eventId \in DOMAIN event /\ hold[r.id].eventId \in Nat
  BY <1>3, RowTypes DEF Inv, TablesOK, TypeOK
<1>5. EventOf(c) = r.snapshot.hold[r.id].eventId
  BY DEF EventOf, BookStatements
<1>6. QED BY <1>1, <1>2, <1>3, <1>4, <1>5 DEF SameRequest

LEMMA FindHoldStep ==
    ASSUME Inv, NEW c \in Calls, FindHold(c)
    PROVE  Inv'
<1>1. tx[c].at = "findHold" /\ UNCHANGED vars
  BY DEF FindHold
<1>2. PICK r : r = tx[c]
  OBVIOUS
<1>3. r.at = "findHold" /\ r.at \in BookStatements
  BY <1>1, <1>2 DEF BookStatements
<1>4. /\ c \in Transactions /\ Good(c, r) /\ r \in OpenTx
      /\ r.id \in DOMAIN hold /\ r.id \in Nat
  BY <1>2, <1>3, HoldOfBook
<1>5. /\ r.id \in DOMAIN r.snapshot.hold /\ r.quantity = r.snapshot.hold[r.id].quantity
      /\ r.locks = {}
  BY <1>3, <1>4 DEF Good, BookInv
<1>6. PICK lock : lock = Lock("hold", r.id, "Update")
  OBVIOUS
<1>7. Wanted(c) = {lock}
  BY <1>1, <1>2, <1>6 DEF Wanted
<1>8. lock \in Locks /\ lock.table = "hold" /\ lock.id = r.id /\ lock.mode = "Update"
  BY <1>4, <1>6, LockFields
<1>9. PICK n : n = Onward(r, "createBooking", {lock})
  OBVIOUS
<1>10. PICK q : q = [n EXCEPT !.startedAt = now]
  OBVIOUS
<1>11. /\ Granted(c, lock) /\ IsBookable(r.user, r.id)
       /\ tx' = [GoesOn(c, "createBooking", {lock}) EXCEPT ![c].startedAt = now]
  BY <1>2, <1>7 DEF FindHold
<1>12. tx' = [tx EXCEPT ![c] = q]
  <2>1. PICK g : g = GoesOn(c, "createBooking", {lock})
    OBVIOUS
  <2>2. g[c] = n /\ [g EXCEPT ![c] = q] = [tx EXCEPT ![c] = q]
    BY <1>1, <1>2, <1>4, <1>9, <2>1, GoesOnRow
  <2>3. QED BY <1>10, <1>11, <2>1, <2>2
<1>13. /\ n \in OpenTx /\ n.at = "createBooking" /\ n.locks = r.locks \cup {lock}
       /\ n.snapshot = r.snapshot /\ n.id = r.id /\ n.quantity = r.quantity
  BY <1>4, <1>8, <1>9, OnwardRow DEF Statements
<1>14. now \in 0..Horizon /\ now \in Nat
  BY ParametersAssumption DEF Inv, TablesOK, TypeOK
<1>15. /\ q \in OpenTx /\ q.at = "createBooking" /\ q.locks = {lock}
       /\ q.snapshot = r.snapshot /\ q.id = r.id /\ q.quantity = r.quantity /\ q.startedAt = now
  BY <1>5, <1>10, <1>13, <1>14 DEF OpenTx
<1>16. SnapshotIsPast(q) /\ BookedMeanwhile(q)
  BY <1>4, <1>15, SameSnapshot DEF Good
<1>17. hold[r.id] = r.snapshot.hold[r.id] /\ Free(c, lock) /\ hold[r.id].status \notin Settled
  BY <1>2, <1>8, <1>11 DEF Granted, Stale, IsBookable, Settled
<1>18. LockedAsRead(c, q)
  BY <1>4, <1>5, <1>8, <1>15, <1>17 DEF LockedAsRead
<1>19. HoldingInv(c, q) /\ BookInv(c, q)
  BY <1>5, <1>6, <1>14, <1>15 DEF HoldingInv, BookInv, HoldStatements
<1>20. Good(c, q)
  BY <1>15, <1>16, <1>18, <1>19 DEF Good
<1>21. q.locks = tx[c].locks \cup {lock} /\ \A l \in {lock} : Free(c, l)
  BY <1>2, <1>5, <1>15, <1>17
<1>22. QED BY <1>1, <1>4, <1>12, <1>20, <1>21, StatementStep

LEMMA CreateBookingStep ==
    ASSUME Inv, NEW c \in Calls, CreateBooking(c)
    PROVE  Inv'
<1>1. tx[c].at = "createBooking" /\ UNCHANGED vars
  BY DEF CreateBooking
<1>2. PICK r : r = tx[c]
  OBVIOUS
<1>3. r.at = "createBooking" /\ r.at \in BookStatements
  BY <1>1, <1>2 DEF BookStatements
<1>4. PICK e : e = r.snapshot.hold[r.id].eventId
  OBVIOUS
<1>5. /\ c \in Transactions /\ Good(c, r) /\ r \in OpenTx /\ r.id \in DOMAIN hold
      /\ e \in Nat /\ EventOf(c) = e /\ SameRequest(hold[r.id], r.snapshot.hold[r.id])
  BY <1>2, <1>3, <1>4, HoldOfBook
<1>6. PICK lock : lock = Lock("event", e, "KeyShare")
  OBVIOUS
<1>7. Wanted(c) = {lock}
  BY <1>1, <1>2, <1>5, <1>6 DEF Wanted
<1>8. lock \in Locks /\ lock.table = "event" /\ lock.id = e /\ lock.mode = "KeyShare"
  BY <1>5, <1>6, LockFields
<1>9. PICK n : n = Onward(r, "countSeats", {lock})
  OBVIOUS
<1>10. PICK q : q = [n EXCEPT !.createdAt = now]
  OBVIOUS
<1>11. /\ Granted(c, lock)
       /\ tx' = [GoesOn(c, "countSeats", {lock}) EXCEPT ![c].createdAt = now]
  BY <1>7 DEF CreateBooking
<1>12. tx' = [tx EXCEPT ![c] = q]
  <2>1. PICK g : g = GoesOn(c, "countSeats", {lock})
    OBVIOUS
  <2>2. g[c] = n /\ [g EXCEPT ![c] = q] = [tx EXCEPT ![c] = q]
    BY <1>1, <1>2, <1>5, <1>9, <2>1, GoesOnRow
  <2>3. QED BY <1>10, <1>11, <2>1, <2>2
<1>13. /\ n \in OpenTx /\ n.at = "countSeats" /\ n.locks = r.locks \cup {lock}
       /\ n.snapshot = r.snapshot /\ n.id = r.id /\ n.quantity = r.quantity
       /\ n.startedAt = r.startedAt
  BY <1>5, <1>8, <1>9, OnwardRow DEF Statements
<1>14. now \in 0..Horizon /\ now \in Nat
  BY ParametersAssumption DEF Inv, TablesOK, TypeOK
<1>15. /\ q \in OpenTx /\ q.at = "countSeats" /\ q.locks = r.locks \cup {lock}
       /\ q.snapshot = r.snapshot /\ q.id = r.id /\ q.quantity = r.quantity
       /\ q.startedAt = r.startedAt /\ q.createdAt = now
  BY <1>10, <1>13, <1>14 DEF OpenTx
<1>16. SnapshotIsPast(q) /\ BookedMeanwhile(q)
  BY <1>5, <1>15, SameSnapshot DEF Good
<1>17. Free(c, lock)
  BY <1>11 DEF Granted
<1>18. LockedAsRead(c, q)
  BY <1>5, <1>8, <1>15 DEF Good, LockedAsRead
<1>19. r.snapshot.hold[r.id].createdAt <= now
  BY <1>5 DEF SameRequest, Inv, TablesOK, TypeOK
<1>20. HoldingInv(c, q) /\ BookInv(c, q)
  BY <1>3, <1>5, <1>14, <1>15, <1>19 DEF Good, HoldingInv, BookInv, HoldStatements
<1>21. Good(c, q)
  BY <1>15, <1>16, <1>18, <1>20 DEF Good
<1>22. q.locks = tx[c].locks \cup {lock} /\ \A l \in {lock} : Free(c, l)
  BY <1>2, <1>15, <1>17
<1>23. QED BY <1>1, <1>5, <1>12, <1>21, <1>22, StatementStep

LEMMA CountSeatsStep ==
    ASSUME Inv, NEW c \in Calls, CountSeats(c)
    PROVE  Inv'
<1>1. tx[c].at = "countSeats" /\ UNCHANGED vars
  BY DEF CountSeats
<1>2. PICK r : r = tx[c]
  OBVIOUS
<1>3. r.at = "countSeats" /\ r.at \in BookStatements
  BY <1>1, <1>2 DEF BookStatements
<1>4. PICK e : e = r.snapshot.hold[r.id].eventId
  OBVIOUS
<1>5. /\ c \in Transactions /\ Good(c, r) /\ r \in OpenTx
      /\ e \in Nat /\ e \in DOMAIN event /\ EventOf(c) = e
  BY <1>2, <1>3, <1>4, HoldOfBook
<1>6. PICK lock : lock = Lock("event", e, "NoKeyUpdate")
  OBVIOUS
<1>7. Wanted(c) = {lock}
  BY <1>1, <1>2, <1>5, <1>6 DEF Wanted
<1>8. lock \in Locks /\ lock.table = "event" /\ lock.id = e /\ lock.mode = "NoKeyUpdate"
  BY <1>5, <1>6, LockFields
<1>9. PICK q : q = Onward(r, "settle", {lock})
  OBVIOUS
<1>10. /\ Granted(c, lock) /\ SeatsLeft(c)
       /\ tx' = GoesOn(c, "settle", {lock})
  BY <1>7 DEF CountSeats
<1>11. tx' = [tx EXCEPT ![c] = q]
  <2>1. PICK g : g = GoesOn(c, "settle", {lock})
    OBVIOUS
  <2>2. g[c] = q /\ [g EXCEPT ![c] = q] = [tx EXCEPT ![c] = q]
    BY <1>1, <1>2, <1>5, <1>9, <2>1, GoesOnRow
  <2>3. g = [g EXCEPT ![c] = q]
    BY <2>1, <2>2 DEF GoesOn
  <2>4. QED BY <1>10, <2>1, <2>2, <2>3
<1>12. /\ q \in OpenTx /\ q.at = "settle" /\ q.locks = r.locks \cup {lock}
       /\ q.snapshot = r.snapshot /\ q.id = r.id /\ q.quantity = r.quantity
       /\ q.startedAt = r.startedAt /\ q.createdAt = r.createdAt
  BY <1>5, <1>8, <1>9, OnwardRow DEF Statements
<1>13. SnapshotIsPast(q) /\ BookedMeanwhile(q)
  BY <1>5, <1>12, SameSnapshot DEF Good
<1>14. event[e] = r.snapshot.event[e] /\ Free(c, lock)
  BY <1>2, <1>8, <1>10 DEF Granted, Stale
<1>15. r.snapshot.event[e].bookedSeats + r.quantity <= r.snapshot.event[e].totalSeats
  BY <1>2, <1>5, <1>10, <1>14 DEF SeatsLeft
<1>16. LockedAsRead(c, q)
  BY <1>5, <1>8, <1>12, <1>14 DEF Good, LockedAsRead
<1>17. HoldingInv(c, q) /\ BookInv(c, q)
  BY <1>3, <1>4, <1>5, <1>6, <1>12, <1>15 DEF Good, HoldingInv, BookInv, HoldStatements, BookStatements
<1>18. Good(c, q)
  BY <1>12, <1>13, <1>16, <1>17 DEF Good
<1>19. q.locks = tx[c].locks \cup {lock} /\ \A l \in {lock} : Free(c, l)
  BY <1>2, <1>12, <1>14
<1>20. QED BY <1>1, <1>5, <1>11, <1>18, <1>19, StatementStep

-----------------------------------------------------------------------------
(* Commits, and what they mean to the transactions that are still open.    *)

\* What a commit, an edit or the clock may do to the tables.
TablesGrow ==
    /\ now <= now'
    /\ DOMAIN event \subseteq DOMAIN event'
    /\ \A h \in DOMAIN hold :
           /\ h \in DOMAIN hold'
           /\ SameRequest(hold'[h], hold[h])
           /\ hold[h].status \in Settled => hold'[h] = hold[h]
    /\ \A b \in DOMAIN booking : b \in DOMAIN booking' /\ booking'[b] = booking[b]
    /\ \A b \in DOMAIN booking' \ DOMAIN booking :
           \E g \in DOMAIN hold :
               /\ hold[g].status \notin Settled
               /\ hold'[g].status = "Completed"
               /\ hold'[g].userId = booking'[b].userId
               /\ hold'[g].eventId = booking'[b].eventId
    /\ \A u, e : /\ Allowance(u, e) \in Int /\ Allowance(u, e)' \in Int
                 /\ Allowance(u, e) <= Allowance(u, e)'

\* ... and not to the rows that r has locked.
Untouched(r) ==
    \A l \in r.locks :
        /\ l.table = "hold" => hold'[l.id] = hold[l.id]
        /\ l.table = "event" /\ l.mode # "KeyShare" => event'[l.id] = event[l.id]

LEMMA GoodKept ==
    ASSUME TypeOK, TypeOK', TablesGrow, NEW t, NEW r, Good(t, r), Untouched(r)
    PROVE  Good(t, r)'
<1>1. /\ r \in OpenTx /\ SnapshotIsPast(r) /\ BookedMeanwhile(r) /\ LockedAsRead(t, r)
      /\ HoldingInv(t, r) /\ BookInv(t, r)
  BY DEF Good
<1>2. SnapshotIsPast(r)'
  BY <1>1 DEF SnapshotIsPast, TablesGrow, SameRequest
<1>3. BookedMeanwhile(r)'
  <2> SUFFICES ASSUME NEW b \in DOMAIN booking' \ DOMAIN r.snapshot.booking
               PROVE  \E g \in DOMAIN hold' :
                         /\ hold'[g].status = "Completed"
                         /\ hold'[g].userId = booking'[b].userId
                         /\ hold'[g].eventId = booking'[b].eventId
                         /\ g \in DOMAIN r.snapshot.hold => r.snapshot.hold[g].status \notin Settled
    BY DEF BookedMeanwhile
  <2>1. CASE b \in DOMAIN booking
    <3>1. PICK g \in DOMAIN hold :
             /\ hold[g].status = "Completed"
             /\ hold[g].userId = booking[b].userId
             /\ hold[g].eventId = booking[b].eventId
             /\ g \in DOMAIN r.snapshot.hold => r.snapshot.hold[g].status \notin Settled
      BY <1>1, <2>1 DEF BookedMeanwhile
    <3>2. g \in DOMAIN hold' /\ hold'[g] = hold[g] /\ booking'[b] = booking[b]
      BY <2>1, <3>1 DEF TablesGrow, Settled
    <3>3. QED BY <3>1, <3>2
  <2>2. CASE b \notin DOMAIN booking
    <3>1. PICK g \in DOMAIN hold :
             /\ hold[g].status \notin Settled
             /\ hold'[g].status = "Completed"
             /\ hold'[g].userId = booking'[b].userId
             /\ hold'[g].eventId = booking'[b].eventId
      BY <2>2 DEF TablesGrow
    <3>2. g \in DOMAIN hold'
      BY <3>1 DEF TablesGrow
    <3>3. g \in DOMAIN r.snapshot.hold => r.snapshot.hold[g].status \notin Settled
      BY <1>1, <3>1 DEF SnapshotIsPast
    <3>4. QED BY <3>1, <3>2, <3>3
  <2>3. QED BY <2>1, <2>2
<1>4. LockedAsRead(t, r)'
  BY <1>1 DEF LockedAsRead, TablesGrow, Untouched
<1>5. r.at = "createHold" /\ Checked(r) => Checked(r)'
  <2>1. now \in 0..Horizon /\ now' \in 0..Horizon /\ now <= now'
    BY DEF TypeOK, TablesGrow
  <2>2. DayOf[now] <= DayOf[now'] /\ DayOf[now] \in Nat /\ DayOf[now'] \in Nat
    BY <2>1, CalendarAssumption
  <2>3. \A day \in Days : day \in Nat
    BY CalendarAssumption DEF Days
  <2>4. \A day \in Days : DayOf[now'] <= day => DayOf[now] <= day
    BY <2>2, <2>3
  <2>5. \A day : BookedIn(r.snapshot.booking, r.user, r.id, day) \in Int
    BY <1>1, BookedInType DEF OpenTx, Snapshots
  <2>6. r.at = "createHold" => r.quantity \in Int
    BY <1>1, InputsAssumption DEF HoldingInv, HoldStatements
  <2>7. /\ Allowance(r.user, r.id) \in Int /\ Allowance(r.user, r.id)' \in Int
        /\ Allowance(r.user, r.id) <= Allowance(r.user, r.id)'
    BY DEF TablesGrow
  <2>8. ASSUME r.at = "createHold", Checked(r), NEW day \in Days, DayOf[now'] <= day
        PROVE  BookedIn(r.snapshot.booking, r.user, r.id, day) + r.quantity
                  <= Allowance(r.user, r.id)'
    <3>1. BookedIn(r.snapshot.booking, r.user, r.id, day) + r.quantity <= Allowance(r.user, r.id)
      BY <2>4, <2>8 DEF Checked
    <3>2. PICK sum : sum = BookedIn(r.snapshot.booking, r.user, r.id, day) + r.quantity
      OBVIOUS
    <3>3. sum \in Int
      BY <2>5, <2>6, <2>8, <3>2
    <3>4. QED BY <2>7, <3>1, <3>2, <3>3
  <2>9. QED BY <2>8 DEF Checked, Days
<1>6. HoldingInv(t, r)'
  <2>1. \A l \in r.locks : l.table = "hold" => hold'[l.id] = hold[l.id]
    BY DEF Untouched
  <2>2. r.id \in DOMAIN event => r.id \in DOMAIN event'
    BY DEF TablesGrow
  <2>3. now \in Int /\ now' \in Int /\ now <= now'
    BY ParametersAssumption DEF TypeOK, TablesGrow
  <2>4. ASSUME NEW l \in r.locks, l.table = "hold", IsExpired(hold[l.id])
        PROVE  IsExpired(hold[l.id])'
    <3>1. l.id \in DOMAIN hold
      BY <1>1, <2>4 DEF LockedAsRead
    <3>2. hold[l.id].expiresAt \in Int
      BY <3>1, RowTypes DEF SeatHold
    <3>3. QED BY <2>1, <2>3, <2>4, <3>2 DEF IsExpired
  <2>5. ASSUME NEW h \in DOMAIN r.snapshot.hold, IsExpired(r.snapshot.hold[h])
        PROVE  IsExpired(r.snapshot.hold[h])'
    <3>1. r.snapshot.hold \in Seq(SeatHold)
      BY <1>1 DEF OpenTx, Snapshots
    <3>2. r.snapshot.hold[h] \in SeatHold
      BY <3>1, TableShape
    <3>3. r.snapshot.hold[h].expiresAt \in Int
      BY <3>2 DEF SeatHold
    <3>4. QED BY <2>3, <2>5, <3>3 DEF IsExpired
  <2>6. QED BY <1>1, <1>5, <2>2, <2>4, <2>5 DEF HoldingInv
<1>7. BookInv(t, r)'
  <2>1. r.createdAt \in 0..Horizon /\ r.createdAt <= now => r.createdAt <= now'
    BY ParametersAssumption DEF TypeOK, TablesGrow
  <2>2. QED BY <1>1, <2>1 DEF BookInv
<1>8. QED BY <1>1, <1>2, <1>3, <1>4, <1>6, <1>7 DEF Good

\* The tables have changed, some transactions have ended, the others are
\* where they were.
LEMMA TablesStep ==
    ASSUME Inv, TablesOK', TablesGrow, NEW done,
           tx' = [s \in Transactions |-> IF s \in done THEN Closed ELSE tx[s]],
           \A s \in Transactions : s \notin done => Untouched(tx[s])
    PROVE  Inv'
<1>1. TypeOK /\ TypeOK' /\ \A s \in Transactions : tx[s] = Closed \/ Good(s, tx[s])
  BY DEF Inv, TablesOK, TxOK
<1>2. tx' = [s \in Transactions |-> tx'[s]]
  OBVIOUS
<1>3. ASSUME NEW s \in Transactions
      PROVE  (tx[s] = Closed \/ Good(s, tx[s]))'
  <2>1. PICK q : q = tx'[s]
    OBVIOUS
  <2>2. q = Closed \/ (q = tx[s] /\ Good(s, q) /\ Untouched(q))
    BY <1>1, <2>1
  <2>3. q = Closed \/ Good(s, q)'
    BY <1>1, <2>2, GoodKept
  <2>4. QED BY <2>1, <2>3 DEF Closed
<1>4. TxOK'
  BY <1>2, <1>3 DEF TxOK
<1>5. LocksExclusive'
  <2> SUFFICES ASSUME NEW s \in Transactions, NEW v \in Transactions, s # v,
                      NEW k \in tx'[s].locks, NEW l \in tx'[v].locks
               PROVE  ~Conflict(k, l)
    BY DEF LocksExclusive, Conflict
  <2>1. Closed.locks = {}
    BY DEF Closed
  <2>2. tx'[s] = tx[s] /\ tx'[v] = tx[v]
    BY <2>1
  <2>3. QED BY <2>2 DEF Inv, LocksExclusive
<1>6. QED BY <1>4, <1>5 DEF Inv

-----------------------------------------------------------------------------
(* The commits of holdSeats and of the job.                                *)

LEMMA AllowanceType ==
    ASSUME TypeOK, NEW u, NEW e
    PROVE  Allowance(u, e) \in Int /\ Allowance(u, e) <= Allowance(u, e)
<1>1. GivenBack(u, e) \in Nat
  BY BookedFloor
<1>2. QED BY <1>1, ParametersAssumption DEF Allowance

\* Holds are swept and a new one may be added: what it takes for the tables
\* to stay right.
LEMMA HoldsStep ==
    ASSUME TablesOK, UNCHANGED <<now, event, booking>>, hold' \in Seq(SeatHold),
           \A h \in DOMAIN hold :
              /\ h \in DOMAIN hold'
              /\ SameRequest(hold'[h], hold[h])
              /\ hold'[h] = hold[h] \/ (IsExpired(hold[h]) /\ hold'[h].status = "Expired"),
           \A n \in DOMAIN hold' \ DOMAIN hold :
              /\ hold'[n].status = "Hold"
              /\ hold'[n].eventId \in DOMAIN event
              /\ hold'[n].createdAt <= now
              /\ \A g \in DOMAIN hold' :
                    /\ hold'[g].userId = hold'[n].userId
                    /\ hold'[g].eventId = hold'[n].eventId
                    /\ hold'[g].status \in ActiveStatuses
                    => g = n
              /\ \A day \in Days :
                    DayOf[hold'[n].createdAt] <= day =>
                        BookedOn(hold'[n].userId, hold'[n].eventId, day) + hold'[n].quantity
                            <= Allowance(hold'[n].userId, hold'[n].eventId)
    PROVE  TablesOK' /\ TablesGrow
<1>1. now' = now /\ event' = event /\ booking' = booking
  OBVIOUS
<1>2. TypeOK'
  <2>1. TypeOK
    BY DEF TablesOK
  <2>2. ASSUME NEW h \in DOMAIN hold'
        PROVE  hold'[h].eventId \in DOMAIN event /\ hold'[h].createdAt <= now
    <3>1. CASE h \in DOMAIN hold
      BY <2>1, <3>1 DEF TypeOK, SameRequest
    <3>2. CASE h \notin DOMAIN hold
      BY <3>2
    <3>3. QED BY <3>1, <3>2
  <2>3. QED BY <1>1, <2>1, <2>2 DEF TypeOK
<1>3. HoldsLive'
  BY <1>1 DEF TablesOK, HoldsLive, IsExpired, SameRequest
<1>4. \A h \in DOMAIN hold : hold'[h].status \in ActiveStatuses => hold'[h] = hold[h]
  BY DEF ActiveStatuses, IsExpired
<1>5. OneActiveHold'
  <2> SUFFICES ASSUME NEW g \in DOMAIN hold', NEW h \in DOMAIN hold',
                      hold'[g].userId = hold'[h].userId,
                      hold'[g].eventId = hold'[h].eventId,
                      hold'[g].status \in ActiveStatuses,
                      hold'[h].status \in ActiveStatuses
               PROVE  g = h
    BY DEF OneActiveHold
  <2>1. CASE g \in DOMAIN hold /\ h \in DOMAIN hold
    BY <1>4, <2>1 DEF TablesOK, OneActiveHold
  <2>2. CASE h \notin DOMAIN hold
    BY <2>2
  <2>3. CASE g \notin DOMAIN hold
    BY <2>3
  <2>4. QED BY <2>1, <2>2, <2>3
<1>6. /\ \A u, e, day : BookedOn(u, e, day)' = BookedOn(u, e, day)
      /\ \A u, e : Allowance(u, e)' = Allowance(u, e)
  BY <1>1, SumsStay
<1>7. AllowanceAhead'
  <2> SUFFICES ASSUME NEW h \in DOMAIN hold', hold'[h].status \in ActiveStatuses,
                      NEW day \in Days, DayOf[hold'[h].createdAt] <= day
               PROVE  BookedOn(hold'[h].userId, hold'[h].eventId, day) + hold'[h].quantity
                         <= Allowance(hold'[h].userId, hold'[h].eventId)
    BY <1>6 DEF AllowanceAhead, Days
  <2>1. CASE h \in DOMAIN hold
    BY <1>4, <2>1 DEF TablesOK, AllowanceAhead
  <2>2. CASE h \notin DOMAIN hold
    BY <2>2
  <2>3. QED BY <2>1, <2>2
<1>8. DailyLimit'
  BY <1>1, <1>6 DEF TablesOK, DailyLimit, Days
<1>9. SeatsMatchBookings'
  BY <1>1 DEF TablesOK, TablesAgree, SeatsMatchBookings, BookingsOf
<1>10. OneBookingPerHold'
  <2>1. \A h \in DOMAIN hold :
           /\ h \in DOMAIN hold'
           /\ hold[h].status = "Completed" => hold'[h] = hold[h]
           /\ hold'[h].status = "Completed" => hold'[h] = hold[h]
    BY DEF IsExpired
  <2>2. \A h \in DOMAIN hold' \ DOMAIN hold : hold'[h].status = "Hold"
    OBVIOUS
  <2>3. QED BY <1>1, <2>1, <2>2, LinksKept DEF TablesOK, TablesAgree
<1>11. TablesOK'
  BY <1>2, <1>3, <1>5, <1>7, <1>8, <1>9, <1>10 DEF TablesOK, TablesAgree
<1>12. TablesGrow
  <2>1. now <= now'
    BY <1>1, ParametersAssumption DEF TablesOK, TypeOK
  <2>2. \A h \in DOMAIN hold : hold[h].status \in Settled => hold'[h] = hold[h]
    BY DEF Settled, IsExpired
  <2>3. \A u, e : Allowance(u, e) \in Int /\ Allowance(u, e) <= Allowance(u, e)
    BY AllowanceType DEF TablesOK
  <2>4. QED BY <1>1, <1>6, <2>1, <2>2, <2>3 DEF TablesGrow
<1>13. QED BY <1>11, <1>12

\* What an updateMany writes when it commits: the rows it has taken, each a
\* hold that nobody else had locked.
LEMMA SweepCommits ==
    ASSUME Inv, NEW t \in Transactions, tx[t].at \in HoldStatements,
           NEW swept, swept = WithSwept(hold, t)
    PROVE  /\ swept \in Seq(SeatHold) /\ Len(swept) = Len(hold) /\ DOMAIN swept = DOMAIN hold
           /\ \A h \in DOMAIN hold :
                 /\ SameRequest(swept[h], hold[h])
                 /\ swept[h] = hold[h] \/ (IsExpired(hold[h]) /\ swept[h].status = "Expired")
                 /\ Sweeps(tx[t], h) => swept[h].status = "Expired"
           /\ \A s \in Transactions : s # t =>
                 \A l \in tx[s].locks : l.table = "hold" =>
                    l.id \in DOMAIN hold /\ swept[l.id] = hold[l.id]
<1>1. Good(t, tx[t])
  BY OpenRow DEF HoldStatements
<1>2. hold \in Seq(SeatHold) /\ \A h \in DOMAIN hold : hold[h] \in SeatHold
  BY RowTypes DEF Inv, TablesOK, TypeOK
<1>3. /\ swept \in Seq(SeatHold) /\ Len(swept) = Len(hold) /\ DOMAIN swept = DOMAIN hold
      /\ \A h \in DOMAIN hold :
            /\ ~Sweeps(tx[t], h) => swept[h] = hold[h]
            /\ Sweeps(tx[t], h) => swept[h] = AsExpired(hold[h])
            /\ SameRequest(swept[h], hold[h])
  BY <1>2, SweptTable
<1>4. ASSUME NEW h \in DOMAIN hold, Sweeps(tx[t], h)
      PROVE  IsExpired(hold[h]) /\ swept[h].status = "Expired"
  <2>1. IsExpired(hold[h])
    BY <1>1, <1>4 DEF Good, HoldingInv, Sweeps
  <2>2. AsExpired(hold[h]).status = "Expired"
    BY <1>2 DEF AsExpired, SeatHold
  <2>3. QED BY <1>3, <1>4, <2>1, <2>2
<1>5. ASSUME NEW s \in Transactions, s # t, NEW l \in tx[s].locks, l.table = "hold"
      PROVE  l.id \in DOMAIN hold /\ swept[l.id] = hold[l.id]
  <2>1. tx[s] # Closed
    BY <1>5 DEF Closed
  <2>2. LockedAsRead(s, tx[s])
    BY <2>1 DEF Inv, TxOK, Good
  <2>3. l.id \in DOMAIN hold /\ l.mode # "KeyShare"
    BY <1>5, <2>2 DEF LockedAsRead
  <2>4. ~Sweeps(tx[t], l.id)
    <3> SUFFICES ASSUME NEW k \in tx[t].locks, k.table = "hold", k.id = l.id PROVE FALSE
      BY DEF Sweeps
    <3>1. k.mode # "KeyShare"
      BY <1>1 DEF Good, LockedAsRead
    <3>2. Conflict(k, l)
      BY <1>5, <2>3, <3>1 DEF Conflict
    <3>3. QED BY <1>5, <3>2 DEF Inv, LocksExclusive
  <2>5. QED BY <1>3, <2>3, <2>4
<1>6. QED BY <1>3, <1>4, <1>5

LEMMA JobCommitsStep ==
    ASSUME Inv, JobCommits
    PROVE  Inv' /\ TablesGrow
<1>1. /\ Job \in Transactions /\ Job \notin Calls /\ tx[Job] # Closed
      /\ hold' = WithSwept(hold, Job) /\ tx' = [tx EXCEPT ![Job] = Closed]
      /\ now' = now /\ event' = event /\ booking' = booking
  BY TransactionsAssumption DEF JobCommits, Transactions, IsOpen
<1>2. Good(Job, tx[Job]) /\ tx = [s \in Transactions |-> tx[s]]
  BY <1>1 DEF Inv, TxOK
<1>3. tx[Job].at \in HoldStatements
  BY <1>1, <1>2 DEF Good, BookInv, OpenTx, Statements, HoldStatements, BookStatements
<1>4. /\ hold' \in Seq(SeatHold) /\ DOMAIN hold' = DOMAIN hold
      /\ \A h \in DOMAIN hold :
            /\ SameRequest(hold'[h], hold[h])
            /\ hold'[h] = hold[h] \/ (IsExpired(hold[h]) /\ hold'[h].status = "Expired")
      /\ \A s \in Transactions : s # Job =>
            \A l \in tx[s].locks : l.table = "hold" => hold'[l.id] = hold[l.id]
  <2>1. PICK swept : swept = WithSwept(hold, Job)
    OBVIOUS
  <2>2. /\ swept \in Seq(SeatHold) /\ DOMAIN swept = DOMAIN hold
        /\ \A h \in DOMAIN hold :
              /\ SameRequest(swept[h], hold[h])
              /\ swept[h] = hold[h] \/ (IsExpired(hold[h]) /\ swept[h].status = "Expired")
        /\ \A s \in Transactions : s # Job =>
              \A l \in tx[s].locks : l.table = "hold" => swept[l.id] = hold[l.id]
    BY <1>1, <1>3, <2>1, SweepCommits
  <2>3. QED BY <1>1, <2>1, <2>2
<1>5. TablesOK' /\ TablesGrow
  BY <1>1, <1>4, HoldsStep DEF Inv
<1>6. PICK done : done = {Job}
  OBVIOUS
<1>7. tx' = [s \in Transactions |-> IF s \in done THEN Closed ELSE tx[s]]
  BY <1>1, <1>2, <1>6
<1>8. \A s \in Transactions : s \notin done => Untouched(tx[s])
  <2> SUFFICES ASSUME NEW s \in Transactions, s # Job PROVE Untouched(tx[s])
    BY <1>6
  <2>1. QED BY <1>1, <1>4 DEF Untouched
<1>9. QED BY <1>5, <1>7, <1>8, TablesStep

\* Serializable keeps every hold of the event in sight of the check: what was
\* booked meanwhile came of a hold that the check had seen, and such a hold is
\* swept, hence still locked.
LEMMA NothingBookedMeanwhile ==
    ASSUME Inv, NEW c \in Calls, NEW r, r = tx[c], r.at = "createHold", Serializable(c)
    PROVE  /\ Good(c, r) /\ Checked(r)
           /\ \A h \in DOMAIN hold :
                 /\ hold[h].userId = r.user
                 /\ hold[h].eventId = r.id
                 /\ hold[h].status \in ActiveStatuses
                 => Sweeps(r, h)
           /\ \A day : BookedOn(r.user, r.id, day) = BookedIn(r.snapshot.booking, r.user, r.id, day)
<1>1. c \in Transactions /\ Good(c, r) /\ r \in OpenTx
  BY OpenRow DEF Transactions
<1>2. Checked(r) /\ SnapshotIsPast(r) /\ BookedMeanwhile(r) /\ LockedAsRead(c, r)
  BY <1>1 DEF Good, HoldingInv, HoldStatements
<1>3. \A h \in DOMAIN hold : hold[h].eventId = r.id => h \in DOMAIN r.snapshot.hold
  BY DEF Serializable
<1>4. \A h \in DOMAIN r.snapshot.hold :
         /\ r.snapshot.hold[h] \in SeatHold
         /\ r.snapshot.hold[h].status \notin Settled => r.snapshot.hold[h].status \in ActiveStatuses
  <2>1. r.snapshot.hold \in Seq(SeatHold)
    BY <1>1 DEF OpenTx, Snapshots
  <2>2. \A h \in DOMAIN r.snapshot.hold : r.snapshot.hold[h] \in SeatHold
    BY <2>1, TableShape
  <2>3. QED BY <1>2, <2>2 DEF SnapshotIsPast, SeatHold, SeatHoldStatus, Settled, ActiveStatuses
<1>5. ASSUME NEW h \in DOMAIN hold, hold[h].userId = r.user, hold[h].eventId = r.id,
             hold[h].status \in ActiveStatuses
      PROVE  Sweeps(r, h)
  <2>1. h \in DOMAIN r.snapshot.hold /\ SameRequest(hold[h], r.snapshot.hold[h])
    BY <1>2, <1>3, <1>5 DEF SnapshotIsPast
  <2>2. r.snapshot.hold[h].status \notin Settled
    BY <1>2, <1>5, <2>1 DEF SnapshotIsPast, Settled, ActiveStatuses
  <2>3. QED BY <1>2, <1>4, <1>5, <2>1, <2>2 DEF Checked, SameRequest
<1>6. ASSUME NEW b \in DOMAIN booking, booking[b].userId = r.user, booking[b].eventId = r.id
      PROVE  b \in DOMAIN r.snapshot.booking
  <2> SUFFICES ASSUME b \notin DOMAIN r.snapshot.booking PROVE FALSE
    OBVIOUS
  <2>1. PICK g \in DOMAIN hold :
           /\ hold[g].status = "Completed"
           /\ hold[g].userId = r.user
           /\ hold[g].eventId = r.id
           /\ g \in DOMAIN r.snapshot.hold => r.snapshot.hold[g].status \notin Settled
    BY <1>2, <1>6 DEF BookedMeanwhile
  <2>2. g \in DOMAIN r.snapshot.hold /\ SameRequest(hold[g], r.snapshot.hold[g])
    BY <1>2, <1>3, <2>1 DEF SnapshotIsPast
  <2>3. Sweeps(r, g)
    BY <1>2, <1>4, <2>1, <2>2 DEF Checked, SameRequest
  <2>4. hold[g].status \notin Settled
    BY <1>2, <2>3 DEF LockedAsRead, Sweeps
  <2>5. QED BY <2>1, <2>4 DEF Settled
<1>7. ASSUME NEW day
      PROVE  BookedOn(r.user, r.id, day) = BookedIn(r.snapshot.booking, r.user, r.id, day)
  <2>1. \A b \in DOMAIN r.snapshot.booking : b \in DOMAIN booking /\ booking[b] = r.snapshot.booking[b]
    BY <1>2 DEF SnapshotIsPast
  <2> DEFINE was == {i \in DOMAIN r.snapshot.booking :
                       /\ r.snapshot.booking[i].userId = r.user
                       /\ r.snapshot.booking[i].eventId = r.id
                       /\ r.snapshot.booking[i].status = "Confirmed"
                       /\ DayOf[r.snapshot.booking[i].createdAt] = day}
             is == {i \in DOMAIN booking :
                       /\ booking[i].userId = r.user
                       /\ booking[i].eventId = r.id
                       /\ booking[i].status = "Confirmed"
                       /\ DayOf[booking[i].createdAt] = day}
  <2>2. is = was
    BY <1>6, <2>1
  <2>3. \A i \in was : booking[i].quantity = r.snapshot.booking[i].quantity
    BY <2>1
  <2> HIDE DEF is, was
  <2>4. [i \in is |-> booking[i].quantity] = [i \in was |-> r.snapshot.booking[i].quantity]
    BY <2>2, <2>3
  <2>5. BookedIn(booking, r.user, r.id, day) = BookedIn(r.snapshot.booking, r.user, r.id, day)
    BY <2>4 DEF BookedIn, is, was
  <2>6. QED BY <2>5, BookedInTables
<1>8. QED BY <1>1, <1>2, <1>5, <1>7

LEMMA CreateHoldStep ==
    ASSUME Inv, NEW c \in Calls, CreateHold(c)
    PROVE  Inv' /\ TablesGrow
<1>1. PICK r : r = tx[c]
  OBVIOUS
<1>2. PICK swept, row : swept = WithSwept(hold, c) /\ row = NewHold(r.user, r.id, r.quantity)
  OBVIOUS
<1>3. /\ c \in Transactions /\ r.at = "createHold" /\ Serializable(c)
      /\ hold' = Append(swept, row) /\ tx' = [tx EXCEPT ![c] = Closed]
      /\ now' = now /\ event' = event /\ booking' = booking
  BY <1>1, <1>2 DEF CreateHold, Transactions
<1>4. /\ Good(c, r) /\ Checked(r)
      /\ \A h \in DOMAIN hold :
            /\ hold[h].userId = r.user
            /\ hold[h].eventId = r.id
            /\ hold[h].status \in ActiveStatuses
            => Sweeps(r, h)
      /\ \A day : BookedOn(r.user, r.id, day) = BookedIn(r.snapshot.booking, r.user, r.id, day)
  BY <1>1, <1>3, NothingBookedMeanwhile
<1>5. r.user \in Users /\ r.id \in DOMAIN event /\ r.quantity \in Quantities /\ r.id \in Nat
  BY <1>3, <1>4, RowTypes DEF Good, HoldingInv, HoldStatements, Inv, TablesOK
<1>6. /\ swept \in Seq(SeatHold) /\ Len(swept) = Len(hold) /\ DOMAIN swept = DOMAIN hold
      /\ \A h \in DOMAIN hold :
            /\ SameRequest(swept[h], hold[h])
            /\ swept[h] = hold[h] \/ (IsExpired(hold[h]) /\ swept[h].status = "Expired")
            /\ Sweeps(r, h) => swept[h].status = "Expired"
      /\ \A s \in Transactions : s # c =>
            \A l \in tx[s].locks : l.table = "hold" =>
               l.id \in DOMAIN hold /\ swept[l.id] = hold[l.id]
  BY <1>1, <1>2, <1>3, SweepCommits DEF HoldStatements
<1>7. now \in 0..Horizon /\ DayOf[now] \in Nat
  BY CalendarAssumption DEF Inv, TablesOK, TypeOK
<1>8. \A day \in Days : DayOf[now] <= day =>
         BookedOn(r.user, r.id, day) + r.quantity <= Allowance(r.user, r.id)
  BY <1>4 DEF Checked
<1>9. r.quantity \in Int
  BY <1>5, InputsAssumption
<1>10. /\ row \in SeatHold /\ row.userId = r.user /\ row.eventId = r.id
       /\ row.quantity = r.quantity /\ row.status = "Hold" /\ row.createdAt = now
  <2>1. now + HOLD_EXPIRE_TIME \in Nat
    BY <1>7, ParametersAssumption
  <2>2. QED BY <1>2, <1>5, <1>7, <1>9, <2>1 DEF NewHold, SeatHold, SeatHoldStatus
<1>11. PICK n : n = Len(hold) + 1
  OBVIOUS
<1>12. /\ hold' \in Seq(SeatHold) /\ DOMAIN hold' = DOMAIN hold \cup {n} /\ n \notin DOMAIN hold
       /\ hold'[n] = row
       /\ \A h \in DOMAIN hold : hold'[h] = swept[h]
  <2>1. Len(hold) \in Nat /\ DOMAIN hold = 1..Len(hold)
    BY RowTypes DEF Inv, TablesOK
  <2>2. /\ hold' \in Seq(SeatHold) /\ Len(hold') = Len(hold) + 1
        /\ \A h \in 1..Len(hold) : hold'[h] = swept[h]
        /\ hold'[Len(hold) + 1] = row
    BY <1>3, <1>6, <1>10, AppendProperties
  <2>3. DOMAIN hold' = 1..(Len(hold) + 1)
    BY <2>2, TableShape
  <2>4. QED BY <1>11, <2>1, <2>2, <2>3
<1>13. \A g \in DOMAIN hold' :
          /\ hold'[g].userId = r.user
          /\ hold'[g].eventId = r.id
          /\ hold'[g].status \in ActiveStatuses
          => g = n
  <2> SUFFICES ASSUME NEW g \in DOMAIN hold, hold'[g].userId = r.user,
                      hold'[g].eventId = r.id, hold'[g].status \in ActiveStatuses
               PROVE  FALSE
    BY <1>12
  <2>1. swept[g].status \in ActiveStatuses /\ SameRequest(swept[g], hold[g]) /\ hold'[g] = swept[g]
    BY <1>6, <1>12
  <2>2. hold[g].status \in ActiveStatuses
    BY <1>6, <2>1 DEF ActiveStatuses, IsExpired
  <2>3. Sweeps(r, g)
    BY <1>4, <2>1, <2>2 DEF SameRequest
  <2>4. QED BY <1>6, <2>1, <2>3 DEF ActiveStatuses
<1>14. TablesOK' /\ TablesGrow
  <2>1. \A h \in DOMAIN hold :
           /\ h \in DOMAIN hold'
           /\ SameRequest(hold'[h], hold[h])
           /\ hold'[h] = hold[h] \/ (IsExpired(hold[h]) /\ hold'[h].status = "Expired")
    BY <1>6, <1>12
  <2>2. ASSUME NEW m \in DOMAIN hold' \ DOMAIN hold
        PROVE  /\ hold'[m].status = "Hold"
               /\ hold'[m].eventId \in DOMAIN event
               /\ hold'[m].createdAt <= now
               /\ \A g \in DOMAIN hold' :
                     /\ hold'[g].userId = hold'[m].userId
                     /\ hold'[g].eventId = hold'[m].eventId
                     /\ hold'[g].status \in ActiveStatuses
                     => g = m
               /\ \A day \in Days :
                     DayOf[hold'[m].createdAt] <= day =>
                         BookedOn(hold'[m].userId, hold'[m].eventId, day) + hold'[m].quantity
                             <= Allowance(hold'[m].userId, hold'[m].eventId)
    <3>1. m = n /\ hold'[m] = row
      BY <1>12
    <3>2. now <= now
      BY <1>7
    <3>3. QED BY <1>5, <1>8, <1>10, <1>13, <3>1, <3>2
  <2>3. QED BY <1>3, <1>12, <2>1, <2>2, HoldsStep DEF Inv
<1>15. PICK done : done = {c}
  OBVIOUS
<1>16. tx' = [s \in Transactions |-> IF s \in done THEN Closed ELSE tx[s]]
  BY <1>3, <1>15 DEF Inv, TxOK
<1>17. \A s \in Transactions : s \notin done => Untouched(tx[s])
  <2> SUFFICES ASSUME NEW s \in Transactions, s # c PROVE Untouched(tx[s])
    BY <1>15
  <2>1. QED BY <1>3, <1>6, <1>12 DEF Untouched
<1>18. QED BY <1>14, <1>16, <1>17, TablesStep

-----------------------------------------------------------------------------
(* The commit of book.                                                     *)

\* A booking confirmed at an instant not before its hold: the tickets move
\* from the hold, which is settled, to the bookings of that day.
LEMMA SaleKeepsTables ==
    ASSUME TablesOK, NEW h \in DOMAIN hold, hold[h].status \in ActiveStatuses,
           NEW at \in 0..Horizon, at <= now, hold[h].createdAt <= at,
           NEW until \in Nat, Sells(h, at, until)
    PROVE  TablesOK' /\ TablesGrow
<1>1. TypeOK /\ hold[h].status \notin Settled /\ hold[h].status # "Completed"
  BY DEF TablesOK, ActiveStatuses, Settled
<1>2. /\ TypeOK'
      /\ DOMAIN hold' = DOMAIN hold
      /\ \A g \in DOMAIN hold : g # h => hold'[g] = hold[g]
      /\ DOMAIN booking' = 1..(Len(booking) + 1)
      /\ \A b \in DOMAIN booking : booking'[b] = booking[b]
      /\ booking'[Len(booking) + 1] = BookingAt(h, at)
  BY <1>1, SellStep
<1>3. /\ hold'[h].status = "Completed"
      /\ hold'[h].userId = hold[h].userId
      /\ hold'[h].eventId = hold[h].eventId
      /\ hold'[h].quantity = hold[h].quantity
      /\ hold'[h].createdAt = hold[h].createdAt
      /\ hold'[h].expiresAt = hold[h].expiresAt
  BY <1>1, SoldRow
<1>4. /\ BookingAt(h, at).userId = hold[h].userId
      /\ BookingAt(h, at).eventId = hold[h].eventId
  BY DEF BookingAt, NewBooking
<1>5. DOMAIN event' = DOMAIN event /\ now' = now
  BY DEF Sells
<1>6. HoldsLive'
  BY <1>2, <1>3, <1>5 DEF TablesOK, HoldsLive
<1>7. \A g \in DOMAIN hold : hold'[g].status \in ActiveStatuses => g # h /\ hold'[g] = hold[g]
  BY <1>2, <1>3 DEF ActiveStatuses
<1>8. OneActiveHold'
  BY <1>2, <1>7 DEF TablesOK, OneActiveHold
<1>9. \A v, f, day :
         BookedOn(v, f, day)' =
            IF v = hold[h].userId /\ f = hold[h].eventId /\ day = DayOf[at]
            THEN BookedOn(v, f, day) + hold[h].quantity ELSE BookedOn(v, f, day)
  BY <1>1, SellSums
<1>9a. \A v, f : /\ Allowance(v, f) \in Int /\ Allowance(v, f)' \in Int
                 /\ Allowance(v, f) <= Allowance(v, f)'
  BY <1>1, SaleWidens
<1>10. AllowanceAhead'
  <2> SUFFICES ASSUME NEW g \in DOMAIN hold', hold'[g].status \in ActiveStatuses,
                      NEW day \in Days, DayOf[hold'[g].createdAt] <= day
               PROVE  /\ ~(hold'[g].userId = hold[h].userId /\ hold'[g].eventId = hold[h].eventId)
                      /\ \A v, f : v = hold'[g].userId /\ f = hold'[g].eventId =>
                            BookedOn(v, f, day) + hold'[g].quantity <= Allowance(v, f)'
    BY <1>9 DEF AllowanceAhead, Days
  <2>1. g \in DOMAIN hold /\ g # h /\ hold'[g] = hold[g] /\ hold[g].status \in ActiveStatuses
    BY <1>2, <1>7
  <2>2. ~(hold[g].userId = hold[h].userId /\ hold[g].eventId = hold[h].eventId)
    BY <2>1 DEF TablesOK, OneActiveHold
  <2> SUFFICES ASSUME NEW v, NEW f, v = hold[g].userId, f = hold[g].eventId
               PROVE  BookedOn(v, f, day) + hold[g].quantity <= Allowance(v, f)'
    BY <2>1, <2>2
  <2>3. PICK q : q = hold[g].quantity
    OBVIOUS
  <2>4. BookedOn(v, f, day) + q <= Allowance(v, f)
    BY <2>1, <2>3 DEF TablesOK, AllowanceAhead
  <2>5. BookedOn(v, f, day) \in Int /\ q \in Int
    BY <1>1, <2>1, <2>3, BookedFloor, RowTypes DEF SeatHold
  <2>6. BookedOn(v, f, day) + q <= Allowance(v, f)'
    BY <1>9a, <2>4, <2>5
  <2>7. QED BY <2>3, <2>6
<1>11. DailyLimit'
  <2> SUFFICES ASSUME NEW v \in Users, NEW f \in DOMAIN event, NEW day \in Days
               PROVE  BookedOn(v, f, day)' <= Allowance(v, f)'
    BY <1>5 DEF DailyLimit, Days
  <2>1. BookedOn(v, f, day) <= Allowance(v, f)
    BY DEF TablesOK, DailyLimit
  <2>2. DayOf[hold[h].createdAt] <= DayOf[at] /\ DayOf[at] \in Days
    <3>1. hold[h].createdAt \in 0..Horizon
      BY <1>1, RowTypes DEF SeatHold
    <3>2. QED BY <3>1, CalendarAssumption DEF Days
  <2>3. BookedOn(hold[h].userId, hold[h].eventId, DayOf[at]) + hold[h].quantity
           <= Allowance(hold[h].userId, hold[h].eventId)
    BY <2>2 DEF TablesOK, AllowanceAhead
  <2>4. BookedOn(v, f, day) \in Int /\ hold[h].quantity \in Int
    BY <1>1, BookedFloor, RowTypes DEF SeatHold
  <2>5. CASE v = hold[h].userId /\ f = hold[h].eventId /\ day = DayOf[at]
    <3>1. BookedOn(v, f, day)' = BookedOn(v, f, day) + hold[h].quantity
      BY <1>9, <2>5
    <3>2. BookedOn(v, f, day) + hold[h].quantity <= Allowance(v, f)
      BY <2>3, <2>5
    <3>3. QED BY <1>9a, <2>4, <3>1, <3>2
  <2>6. CASE ~(v = hold[h].userId /\ f = hold[h].eventId /\ day = DayOf[at])
    <3>1. BookedOn(v, f, day)' = BookedOn(v, f, day)
      BY <1>9, <2>6
    <3>2. QED BY <1>9a, <2>1, <2>4, <3>1
  <2>7. QED BY <2>5, <2>6
<1>12. SeatsMatchBookings' /\ OneBookingPerHold'
  BY <1>1, SellKeepsSeats, SellKeepsLinks DEF TablesOK, TablesAgree
<1>13. TablesOK'
  BY <1>2, <1>6, <1>8, <1>10, <1>11, <1>12 DEF TablesOK, TablesAgree
<1>14. TablesGrow
  <2>1. now <= now'
    BY <1>1, <1>5, ParametersAssumption DEF TypeOK
  <2>2. \A g \in DOMAIN hold :
           /\ SameRequest(hold'[g], hold[g])
           /\ hold[g].status \in Settled => hold'[g] = hold[g]
    BY <1>1, <1>2, <1>3 DEF SameRequest
  <2>3. Len(booking) \in Nat /\ DOMAIN booking = 1..Len(booking)
    BY <1>1, RowTypes
  <2>4. \A b \in DOMAIN booking : b \in DOMAIN booking'
    BY <1>2, <2>3
  <2>5. \A b \in DOMAIN booking' \ DOMAIN booking : booking'[b] = BookingAt(h, at)
    BY <1>2, <2>3
  <2>6. QED BY <1>1, <1>2, <1>3, <1>4, <1>5, <1>9a, <2>1, <2>2, <2>4, <2>5 DEF TablesGrow
<1>15. QED BY <1>13, <1>14

LEMMA SettleStep ==
    ASSUME Inv, NEW c \in Calls, Settle(c)
    PROVE  /\ Inv' /\ TablesGrow
           /\ \A e \in DOMAIN event :
                 event'[e].bookedSeats > event[e].bookedSeats
                     => event'[e].bookedSeats <= event'[e].totalSeats
<1>1. PICK r : r = tx[c]
  OBVIOUS
<1>2. PICK h : h = r.id
  OBVIOUS
<1>3. PICK e : e = r.snapshot.hold[r.id].eventId
  OBVIOUS
<1>4. r.at = "settle" /\ r.at \in BookStatements
  BY <1>1 DEF Settle, BookStatements
<1>5. /\ c \in Transactions /\ Good(c, r) /\ r \in OpenTx /\ h \in DOMAIN hold
      /\ e \in DOMAIN event /\ e \in Nat /\ h \in Nat /\ EventOf(c) = e
  BY <1>1, <1>2, <1>3, <1>4, HoldOfBook
<1>6. /\ Lock("hold", h, "Update") \in r.locks
      /\ Lock("event", e, "NoKeyUpdate") \in r.locks
      /\ r.startedAt \in 0..Horizon
      /\ r.createdAt \in 0..Horizon /\ r.createdAt <= now
      /\ r.snapshot.hold[h].createdAt <= r.createdAt
      /\ r.quantity = r.snapshot.hold[h].quantity
      /\ r.snapshot.event[e].bookedSeats + r.quantity <= r.snapshot.event[e].totalSeats
  BY <1>2, <1>3, <1>4, <1>5 DEF Good, BookInv
<1>7. /\ hold[h] = r.snapshot.hold[h]
      /\ hold[h].status \notin Settled
      /\ event[e] = r.snapshot.event[e]
  <2>1. LockedAsRead(c, r)
    BY <1>5 DEF Good
  <2>2. PICK k, l : k = Lock("hold", h, "Update") /\ l = Lock("event", e, "NoKeyUpdate")
    OBVIOUS
  <2>3. /\ k.table = "hold" /\ k.id = h
        /\ l.table = "event" /\ l.id = e /\ l.mode # "KeyShare"
    BY <2>2 DEF Lock
  <2>4. k \in r.locks /\ l \in r.locks
    BY <1>6, <2>2
  <2>5. QED BY <2>1, <2>3, <2>4 DEF LockedAsRead
<1>8. hold[h].eventId = e /\ hold[h].quantity = r.quantity
  BY <1>2, <1>3, <1>6, <1>7
<1>9. hold[h].status \in ActiveStatuses /\ hold[h] \in SeatHold /\ event[e] \in Event
  <2>1. hold[h] \in SeatHold /\ event[e] \in Event
    BY <1>5, RowTypes DEF Inv, TablesOK
  <2>2. hold[h].status # "Cancelled"
    BY <1>5 DEF Inv, TablesOK, HoldsLive
  <2>3. QED BY <1>7, <2>1, <2>2 DEF SeatHold, SeatHoldStatus, Settled, ActiveStatuses
<1>10. PICK at, until : at = r.createdAt /\ until = r.startedAt + BOOKING_PAYMENT_TIME
  OBVIOUS
<1>11. /\ at \in 0..Horizon /\ at <= now /\ hold[h].createdAt <= at /\ until \in Nat
  BY <1>6, <1>7, <1>10, ParametersAssumption
<1>12. Sells(h, at, until)
  BY <1>1, <1>2, <1>5, <1>8, <1>10 DEF Settle, Sells, BookingAt, SettledRow
<1>13. TablesOK' /\ TablesGrow
  BY <1>5, <1>9, <1>11, <1>12, SaleKeepsTables DEF Inv
<1>14. /\ event'[e].bookedSeats = event[e].bookedSeats + r.quantity
       /\ event'[e].totalSeats = event[e].totalSeats
       /\ \A f \in DOMAIN event : f # e => event'[f] = event[f]
  BY <1>5, <1>8, <1>9, <1>12 DEF Sells, BookedSeatsAfter, Event
<1>15. event'[e].bookedSeats <= event'[e].totalSeats
  BY <1>6, <1>7, <1>14
<1>16. \A f \in DOMAIN event :
          event'[f].bookedSeats > event[f].bookedSeats
              => event'[f].bookedSeats <= event'[f].totalSeats
  <2>1. \A f \in DOMAIN event : event[f].bookedSeats \in Int
    BY RowTypes DEF Inv, TablesOK, Event
  <2>2. \A n \in Int : ~(n > n)
    OBVIOUS
  <2>3. QED BY <1>14, <1>15, <2>1, <2>2
<1>17. PICK done : done = {c}
  OBVIOUS
<1>18. tx' = [s \in Transactions |-> IF s \in done THEN Closed ELSE tx[s]]
  BY <1>17 DEF Settle, Inv, TxOK
<1>19. \A s \in Transactions : s \notin done => Untouched(tx[s])
  <2> SUFFICES ASSUME NEW s \in Transactions, s # c, NEW l \in tx[s].locks
               PROVE  /\ l.table = "hold" => hold'[l.id] = hold[l.id]
                      /\ l.table = "event" /\ l.mode # "KeyShare" => event'[l.id] = event[l.id]
    BY <1>17 DEF Untouched
  <2>1. PICK q : q = tx[s]
    OBVIOUS
  <2>2. LockedAsRead(s, q)
    <3>1. q # Closed
      BY <2>1 DEF Closed
    <3>2. QED BY <2>1, <3>1 DEF Inv, TxOK, Good
  <2>3. \A k \in r.locks : ~Conflict(k, l)
    BY <1>1, <1>5 DEF Inv, LocksExclusive
  <2>4. CASE l.table = "hold"
    <3>1. l.id \in DOMAIN hold
      BY <2>1, <2>2, <2>4 DEF LockedAsRead
    <3>2. ~Conflict(Lock("hold", h, "Update"), l)
      BY <1>6, <2>3
    <3>3. l.id # h
      BY <2>4, <3>2 DEF Conflict, Lock
    <3>4. QED BY <1>12, <2>4, <3>1, <3>3 DEF Sells
  <2>5. CASE l.table = "event" /\ l.mode # "KeyShare"
    <3>1. l.id \in DOMAIN event
      BY <2>1, <2>2, <2>5 DEF LockedAsRead
    <3>2. ~Conflict(Lock("event", e, "NoKeyUpdate"), l)
      BY <1>6, <2>3
    <3>3. l.id # e
      BY <2>5, <3>2 DEF Conflict, Lock
    <3>4. QED BY <1>14, <2>5, <3>1, <3>3
  <2>6. QED BY <2>4, <2>5
<1>20. Inv'
  BY <1>13, <1>18, <1>19, TablesStep
<1>21. QED BY <1>13, <1>16, <1>20

-----------------------------------------------------------------------------
(* The managers, the hourly job and the clock.                             *)

LEMMA EventsStep ==
    ASSUME Inv, now' \in 0..Horizon, now <= now', hold' = hold, booking' = booking,
           event' \in Seq(Event), DOMAIN event' = DOMAIN event,
           \A e \in DOMAIN event : event'[e].bookedSeats = event[e].bookedSeats,
           \A s \in Transactions : Untouched(tx[s]),
           tx' = tx
    PROVE  Inv' /\ TablesGrow
<1>1. TablesOK /\ TypeOK /\ now \in 0..Horizon
  BY DEF Inv, TablesOK, TypeOK
<1>2. TypeOK'
  <2>1. now \in Nat /\ now' \in Nat
    BY <1>1, ParametersAssumption
  <2>2. \A h \in DOMAIN hold : hold[h].createdAt \in Nat
    BY <1>1, RowTypes, ParametersAssumption DEF SeatHold
  <2>3. \A b \in DOMAIN booking : booking[b].createdAt \in Nat
    BY <1>1, RowTypes, ParametersAssumption DEF Booking
  <2>4. /\ \A h \in DOMAIN hold : hold[h].createdAt <= now'
        /\ \A b \in DOMAIN booking : booking[b].createdAt <= now'
    BY <1>1, <2>1, <2>2, <2>3 DEF TypeOK
  <2>5. QED BY <1>1, <2>4 DEF TypeOK
<1>3. HoldsLive' /\ OneActiveHold'
  <2>1. \A h \in DOMAIN hold : hold[h].expiresAt \in Int
    BY <1>1, RowTypes DEF SeatHold
  <2>2. now \in Int /\ now' \in Int /\ now <= now'
    BY <1>1, ParametersAssumption
  <2>3. HoldsLive'
    BY <1>1, <2>1, <2>2 DEF TablesOK, HoldsLive
  <2>4. QED BY <1>1, <2>3 DEF TablesOK, OneActiveHold
<1>4. /\ \A u, e, day : BookedOn(u, e, day)' = BookedOn(u, e, day)
      /\ \A u, e : Allowance(u, e)' = Allowance(u, e)
  BY SumsStay
<1>5. AllowanceAhead'
  BY <1>1, <1>4 DEF TablesOK, AllowanceAhead, Days
<1>6. DailyLimit'
  BY <1>1, <1>4 DEF TablesOK, DailyLimit, Days
<1>7. SeatsMatchBookings'
  BY <1>1 DEF TablesOK, TablesAgree, SeatsMatchBookings, BookingsOf
<1>8. OneBookingPerHold'
  BY <1>1 DEF TablesOK, TablesAgree, OneBookingPerHold
<1>9. TablesOK'
  BY <1>2, <1>3, <1>5, <1>6, <1>7, <1>8 DEF TablesOK, TablesAgree
<1>10. TablesGrow
  <2>1. \A u, e : Allowance(u, e) \in Int /\ Allowance(u, e) <= Allowance(u, e)
    BY <1>1, AllowanceType
  <2>2. QED BY <1>4, <2>1 DEF TablesGrow, SameRequest
<1>11. PICK done : done = {}
  OBVIOUS
<1>12. tx' = [s \in Transactions |-> IF s \in done THEN Closed ELSE tx[s]]
  BY <1>11 DEF Inv, TxOK
<1>13. Inv'
  BY <1>9, <1>10, <1>12, TablesStep
<1>14. QED BY <1>10, <1>13

\* Who changes an event row has nobody else's update lock on it.
LEMMA UnlockedRow ==
    ASSUME NEW e, Unlocked(e), NEW s \in Transactions, NEW l \in tx[s].locks,
           l.table = "event", l.mode # "KeyShare"
    PROVE  l.id # e
<1>1. ~Conflict(Lock("event", e, "NoKeyUpdate"), l)
  BY DEF Unlocked, Holders
<1>2. QED BY <1>1 DEF Conflict, Lock

LEMMA EditEventStep ==
    ASSUME Inv, EditEvent
    PROVE  /\ Inv' /\ TablesGrow
           /\ DOMAIN event' = DOMAIN event
           /\ \A e \in DOMAIN event : event'[e].bookedSeats = event[e].bookedSeats
<1>1. PICK m \in Managers, e \in DOMAIN event :
         /\ Unlocked(e)
         /\ \/ \E seats \in SeatCounts : UpdateEvent(m, e, seats, event[e].price, event[e].date)
            \/ \E status \in Statuses : UpdateEventStatus(m, e, status)
  BY DEF EditEvent
<1>2. event \in Seq(Event) /\ now \in 0..Horizon /\ event[e] \in Event
  BY RowTypes DEF Inv, TablesOK, TypeOK
<1>3. PICK row : /\ row \in Event /\ row.bookedSeats = event[e].bookedSeats
                 /\ event' = [event EXCEPT ![e] = row]
                 /\ now' = now /\ hold' = hold /\ booking' = booking
  <2>1. CASE \E seats \in SeatCounts : UpdateEvent(m, e, seats, event[e].price, event[e].date)
    <3>1. PICK seats \in SeatCounts : UpdateEvent(m, e, seats, event[e].price, event[e].date)
      BY <2>1
    <3>2. PICK row : row = [event[e] EXCEPT !.totalSeats = seats]
      OBVIOUS
    <3>3. row \in Event /\ row.bookedSeats = event[e].bookedSeats
      BY <1>2, <3>2, InputsAssumption DEF Event
    <3>4. row = [event[e] EXCEPT !.totalSeats = seats, !.price = event[e].price,
                                 !.date = event[e].date]
      BY <1>2, <3>2 DEF Event
    <3>5. event' = [event EXCEPT ![e] = row]
      BY <1>2, <3>1, <3>4 DEF UpdateEvent
    <3>6. QED BY <3>1, <3>3, <3>5 DEF UpdateEvent
  <2>2. CASE \E status \in Statuses : UpdateEventStatus(m, e, status)
    <3>1. PICK status \in Statuses : UpdateEventStatus(m, e, status)
      BY <2>2
    <3>2. PICK row : row = [event[e] EXCEPT !.status = status]
      OBVIOUS
    <3>3. row \in Event /\ row.bookedSeats = event[e].bookedSeats
      BY <1>2, <3>2, TransactionsAssumption DEF Event
    <3>4. event' = [event EXCEPT ![e] = row]
      BY <1>2, <3>1, <3>2 DEF UpdateEventStatus
    <3>5. QED BY <3>1, <3>3, <3>4 DEF UpdateEventStatus
  <2>3. QED BY <1>1, <2>1, <2>2
<1>4. event' \in Seq(Event) /\ DOMAIN event' = DOMAIN event
  BY <1>2, <1>3, ExceptSeq
<1>5. \A f \in DOMAIN event : event'[f].bookedSeats = event[f].bookedSeats
  BY <1>3
<1>6. \A s \in Transactions : Untouched(tx[s])
  <2> SUFFICES ASSUME NEW s \in Transactions, NEW l \in tx[s].locks,
                      l.table = "event", l.mode # "KeyShare"
               PROVE  event'[l.id] = event[l.id]
    BY <1>3 DEF Untouched
  <2>1. l.id # e
    BY <1>1, <1>3, UnlockedRow
  <2>2. QED BY <1>3, <2>1
<1>7. now' \in 0..Horizon /\ now <= now' /\ tx' = tx
  BY <1>2, <1>3, ParametersAssumption DEF EditEvent
<1>8. QED BY <1>3, <1>4, <1>5, <1>6, <1>7, EventsStep

LEMMA CompleteEventsStep ==
    ASSUME Inv, CompleteEvents
    PROVE  /\ Inv' /\ TablesGrow
           /\ DOMAIN event' = DOMAIN event
           /\ \A e \in DOMAIN event : event'[e].bookedSeats = event[e].bookedSeats
<1>1. event \in Seq(Event) /\ now \in 0..Horizon /\ \A e \in DOMAIN event : event[e] \in Event
  BY RowTypes DEF Inv, TablesOK, TypeOK
<1>2. /\ HandleCompletedEvents /\ \A e \in DOMAIN event : IsOver(event[e]) => Unlocked(e)
      /\ now' = now /\ hold' = hold /\ booking' = booking /\ tx' = tx
      /\ event' = [e \in DOMAIN event |-> event'[e]]
  BY DEF CompleteEvents, HandleCompletedEvents
<1>3. \A e \in DOMAIN event :
         /\ event'[e] \in Event
         /\ event'[e].bookedSeats = event[e].bookedSeats
         /\ ~IsOver(event[e]) => event'[e] = event[e]
  BY <1>1, <1>2 DEF HandleCompletedEvents, Event, EventStatus
<1>4. event' \in Seq(Event) /\ DOMAIN event' = DOMAIN event
  BY <1>1, <1>2, <1>3, RewriteRows
<1>5. \A s \in Transactions : Untouched(tx[s])
  <2> SUFFICES ASSUME NEW s \in Transactions, NEW l \in tx[s].locks,
                      l.table = "event", l.mode # "KeyShare"
               PROVE  event'[l.id] = event[l.id]
    BY <1>2 DEF Untouched
  <2>1. l.id \in DOMAIN event
    <3>1. tx[s] # Closed
      BY DEF Closed
    <3>2. LockedAsRead(s, tx[s])
      BY <3>1 DEF Inv, TxOK, Good
    <3>3. QED BY <3>2 DEF LockedAsRead
  <2>2. ~Unlocked(l.id)
    BY <1>2, UnlockedRow
  <2>3. QED BY <1>2, <1>3, <2>1, <2>2
<1>6. now' \in 0..Horizon /\ now <= now'
  BY <1>1, <1>2, ParametersAssumption
<1>7. QED BY <1>2, <1>3, <1>4, <1>5, <1>6, EventsStep

LEMMA ClockStep ==
    ASSUME Inv, Clock
    PROVE  Inv' /\ TablesGrow /\ event' = event
<1>1. event \in Seq(Event) /\ now \in 0..Horizon
  BY DEF Inv, TablesOK, TypeOK
<1>2. /\ now' \in 0..Horizon /\ now <= now'
      /\ event' = event /\ hold' = hold /\ booking' = booking /\ tx' = tx
  BY <1>1, ParametersAssumption DEF Clock, Tick
<1>3. \A s \in Transactions : Untouched(tx[s])
  BY <1>2 DEF Untouched
<1>4. QED BY <1>1, <1>2, <1>3, EventsStep

-----------------------------------------------------------------------------
(* The invariant.                                                          *)

LEMMA TxInitially == TxInit => Inv
<1> SUFFICES ASSUME TxInit PROVE Inv
  OBVIOUS
<1>1. /\ now = 0 /\ hold = <<>> /\ booking = <<>> /\ event = <<OpenEvent>>
      /\ DOMAIN hold = {} /\ DOMAIN booking = {}
      /\ tx = [t \in Transactions |-> Closed]
  BY EmptySeq DEF TxInit
<1>2. OpenEvent \in Event /\ OpenEvent.bookedSeats = 0
  BY TransactionsAssumption
<1>3. event \in Seq(Event) /\ DOMAIN event = {1} /\ event[1].bookedSeats = 0
  BY <1>1, <1>2
<1>4. TypeOK
  BY <1>1, <1>3, ParametersAssumption DEF TypeOK
<1>5. HoldsLive /\ OneActiveHold /\ AllowanceAhead
  BY <1>1 DEF HoldsLive, OneActiveHold, AllowanceAhead
<1>6. DailyLimit
  <2>1. \A v, f, day : BookingsOn(v, f, day) = {}
    BY <1>1 DEF BookingsOn
  <2>2. \A v, f, day : BookedOn(v, f, day) = 0
    BY <2>1, NothingBookedYet
  <2>3. \A v, f : GivenBack(v, f) \in Nat
    BY <1>4, BookedFloor
  <2>4. QED BY <2>2, <2>3, ParametersAssumption DEF DailyLimit, Allowance
<1>7. SeatsMatchBookings
  <2> SUFFICES ASSUME NEW e \in DOMAIN event
               PROVE  event[e].bookedSeats = Total([b \in BookingsOf(e) |-> booking[b].quantity])
    BY DEF SeatsMatchBookings
  <2> DEFINE c == [b \in BookingsOf(e) |-> booking[b].quantity]
  <2>1. DOMAIN c = {}
    BY <1>1 DEF BookingsOf
  <2> HIDE DEF c
  <2>2. Total(c) = 0
    BY <2>1, TotalEmpty
  <2>3. QED BY <1>3, <2>2 DEF c
<1>8. OneBookingPerHold
  BY <1>1 DEF OneBookingPerHold
<1>9. TxOK
  BY <1>1 DEF TxOK
<1>10. LocksExclusive
  BY <1>1 DEF LocksExclusive, Closed
<1>11. QED BY <1>4, <1>5, <1>6, <1>7, <1>8, <1>9, <1>10 DEF Inv, TablesOK, TablesAgree

\* Seats are counted only up to the seats there are.
WithinCapacity ==
    \A e \in DOMAIN event :
        event'[e].bookedSeats > event[e].bookedSeats
            => event'[e].bookedSeats <= event'[e].totalSeats

LEMMA NothingCounted ==
    ASSUME Inv, \A e \in DOMAIN event : event'[e].bookedSeats = event[e].bookedSeats
    PROVE  WithinCapacity
<1>1. \A e \in DOMAIN event : event[e].bookedSeats \in Int
  BY RowTypes DEF Inv, TablesOK, Event
<1>2. QED BY <1>1 DEF WithinCapacity

\* A statement that leaves the tables alone, a transaction that ends so, or a
\* commit.
LEMMA TxNextStep ==
    ASSUME Inv, [TxNext]_txvars
    PROVE  Inv' /\ (TablesGrow \/ UNCHANGED vars) /\ WithinCapacity
<1> DEFINE Quiet  == Inv' /\ UNCHANGED vars
           Commit == Inv' /\ TablesGrow /\ WithinCapacity
<1>1. Quiet => WithinCapacity
  BY NothingCounted DEF vars
<1>2. ASSUME NEW t \in Transactions, Rollback(t)
      PROVE  Quiet
  BY <1>2, RollbackStep DEF Rollback
<1>3. ASSUME NEW c \in Calls, Call(c)
      PROVE  Quiet
  BY <1>3, BeginHoldSeatsStep, BeginBookStep DEF Call, BeginHoldSeats, BeginBook, Begin
<1>4. ASSUME NEW c \in Calls, Serve(c)
      PROVE  Quiet \/ Commit
  <2>1. CASE FindEvent(c)
    BY <2>1, FindEventStep DEF FindEvent
  <2>2. CASE ExpireHold(c)
    BY <2>2, ExpireHoldStep DEF ExpireHold
  <2>3. CASE CheckLimits(c)
    BY <2>3, CheckLimitsStep DEF CheckLimits
  <2>4. CASE CreateHold(c)
    <3>1. Inv' /\ TablesGrow
      BY <2>4, CreateHoldStep
    <3>2. event' = event
      BY <2>4 DEF CreateHold
    <3>3. QED BY <3>1, <3>2, NothingCounted
  <2>5. CASE FindHold(c)
    BY <2>5, FindHoldStep DEF FindHold
  <2>6. CASE CreateBooking(c)
    BY <2>6, CreateBookingStep DEF CreateBooking
  <2>7. CASE CountSeats(c)
    BY <2>7, CountSeatsStep DEF CountSeats
  <2>8. CASE Settle(c)
    BY <2>8, SettleStep DEF WithinCapacity
  <2>9. CASE Throw(c)
    BY <1>2, <2>9 DEF Throw, Transactions
  <2>10. QED
    BY <1>4, <2>1, <2>2, <2>3, <2>4, <2>5, <2>6, <2>7, <2>8, <2>9 DEF Serve
<1>5. CASE BeginJob
  BY <1>1, <1>5, BeginJobStep DEF BeginJob
<1>6. CASE JobTakesRow
  BY <1>1, <1>6, JobTakesRowStep DEF JobTakesRow
<1>7. CASE JobCommits
  <2>1. event' = event
    BY <1>7 DEF JobCommits
  <2>2. QED BY <1>7, <2>1, JobCommitsStep, NothingCounted
<1>8. CASE \E t \in Transactions : Fail(t)
  BY <1>1, <1>2, <1>8 DEF Fail
<1>9. CASE BreakDeadlock
  <2>1. PICK t \in Transactions : Rollback(t)
    BY <1>9 DEF BreakDeadlock
  <2>2. QED BY <1>1, <1>2, <2>1
<1>10. CASE EditEvent
  BY <1>10, EditEventStep, NothingCounted
<1>11. CASE CompleteEvents
  BY <1>11, CompleteEventsStep, NothingCounted
<1>12. CASE Clock
  BY <1>12, ClockStep, NothingCounted
<1>13. CASE UNCHANGED txvars
  <2>1. UNCHANGED vars /\ tx' = tx
    BY <1>13 DEF txvars
  <2>2. TablesOK'
    BY <2>1, QuietTables DEF Inv
  <2>3. TxOK'
    <3> SUFFICES ASSUME NEW t \in Transactions PROVE (tx[t] = Closed \/ Good(t, tx[t]))'
      BY <2>1 DEF Inv, TxOK
    <3>1. PICK q : q = tx'[t]
      OBVIOUS
    <3>2. q = Closed \/ Good(t, q)
      BY <2>1, <3>1 DEF Inv, TxOK
    <3>3. q = Closed \/ Good(t, q)'
      BY <2>1, <3>2, QuietRows
    <3>4. QED BY <3>1, <3>3 DEF Closed
  <2>4. LocksExclusive'
    BY <2>1 DEF Inv, LocksExclusive, Conflict
  <2>5. QED BY <1>1, <2>1, <2>2, <2>3, <2>4 DEF Inv
<1>14. QED
  BY <1>1, <1>3, <1>4, <1>5, <1>6, <1>7, <1>8, <1>9, <1>10, <1>11, <1>12, <1>13
  DEF TxNext, ServeJob

LEMMA InvHolds == TxSpec => []Inv
<1>1. Inv /\ [TxNext]_txvars => Inv'
  BY TxNextStep
<1>2. QED BY <1>1, TxInitially, PTL DEF TxSpec

-----------------------------------------------------------------------------
(* What holds whatever statements of holdSeats, book and the job overlap.  *)

\* Every commit leaves rows of the right type, with the rows they refer to.
THEOREM TxTypeCorrect == TxSpec => []TypeOK
<1>1. Inv => TypeOK
  BY DEF Inv, TablesOK
<1>2. QED BY <1>1, InvHolds, PTL

\* Two requests of a user that overlap do not both get a hold of the event:
\* whichever statement of the one the other runs between.
THEOREM TxOneActiveHold == TxSpec => []OneActiveHold
<1>1. Inv => OneActiveHold
  BY DEF Inv, TablesOK
<1>2. QED BY <1>1, InvHolds, PTL

\* Nobody books more of an event on a day than MAX_EVENT_TICKETS_PER_DAY tickets
\* and twice what they gave back, for every quantity of a request, although holdSeats compares with the bookings of an old snapshot, on a
\* day that may have ended before it commits.
THEOREM TxDailyLimit == TxSpec => []DailyLimit
<1>1. Inv => DailyLimit
  BY DEF Inv, TablesOK
<1>2. QED BY <1>1, InvHolds, PTL

\* The seats counted are those booked, and completed holds and bookings match
\* one to one, after every commit, also when two requests book one hold.
THEOREM TxTablesAgree == TxSpec => []TablesAgree
<1>1. Inv => TablesAgree
  BY DEF Inv, TablesOK
<1>2. QED BY <1>1, InvHolds, PTL

\* No commit takes back a settled hold or changes a booking, also one that
\* read the row before it was settled.
THEOREM TxSettledIsFinal == TxSpec => SettledIsFinal
<1>1. Inv /\ [TxNext]_txvars =>
         [/\ \A h \in DOMAIN hold :
                 hold[h].status \in {"Completed", "Expired"} => hold'[h] = hold[h]
          /\ \A b \in DOMAIN booking : booking'[b] = booking[b]]_vars
  BY TxNextStep DEF TablesGrow, Settled
<1>2. QED BY <1>1, InvHolds, PTL DEF TxSpec, SettledIsFinal

\* Seats are counted only while the event has them, although book compares with
\* a total it read before it had the lock: the total it read is still there.
THEOREM TxSoldWithinCapacity == TxSpec => SoldWithinCapacity
<1>1. Inv /\ [TxNext]_txvars =>
         [\A e \in DOMAIN event :
             event'[e].bookedSeats > event[e].bookedSeats
                 => event'[e].bookedSeats <= event'[e].totalSeats]_txvars
  BY TxNextStep DEF WithinCapacity
<1>2. QED BY <1>1, InvHolds, PTL DEF TxSpec, SoldWithinCapacity
=============================================================================
