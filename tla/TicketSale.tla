----------------------------- MODULE TicketSale -----------------------------
(***************************************************************************)
(* What the booking service promises, without holds, rows or a clock:      *)
(* tickets are sold one order at a time, never beyond the seats an event   *)
(* has at that moment and never beyond a user's allowance of the day.  An  *)
(* order may be for a negative number: it gives tickets back, and widens   *)
(* the allowance by twice as many.  Events are numbered as they open.      *)
(***************************************************************************)
EXTENDS Integers, Sequences

CONSTANTS
    Users,
    Limit,        \* tickets a user may buy of an event in a day
    SeatCounts,   \* the sizes an event may have
    Orders        \* the numbers of tickets an order may be for

VARIABLES
    capacity,   \* capacity[e]: the seats of event e
    sold,       \* sold[e]: the seats of event e that are sold
    today,      \* today[u][e]: the tickets of event e that u bought today
    returned    \* returned[u][e]: the tickets of event e that u gave back, ever

svars == <<capacity, sold, today, returned>>

SaleInit ==
    /\ capacity = <<>>
    /\ sold = <<>>
    /\ today = [u \in Users |-> <<>>]
    /\ returned = [u \in Users |-> <<>>]

Open(seats) ==
    /\ capacity' = Append(capacity, seats)
    /\ sold' = Append(sold, 0)
    /\ today' = [u \in Users |-> Append(today[u], 0)]
    /\ returned' = [u \in Users |-> Append(returned[u], 0)]

\* Also below what is already sold: then nothing more is.
Resize(e, seats) ==
    /\ capacity' = [capacity EXCEPT ![e] = seats]
    /\ UNCHANGED <<sold, today, returned>>

Sell(u, e, n) ==
    /\ sold[e] + n <= capacity[e]
    /\ today[u][e] + n <= Limit + 2 * returned[u][e]
    /\ sold' = [sold EXCEPT ![e] = @ + n]
    /\ today' = [today EXCEPT ![u][e] = @ + n]
    /\ returned' = [returned EXCEPT ![u][e] = @ + (IF n < 0 THEN -n ELSE 0)]
    /\ UNCHANGED capacity

NewDay ==
    /\ today' = [u \in Users |-> [e \in DOMAIN capacity |-> 0]]
    /\ UNCHANGED <<capacity, sold, returned>>

SaleNext ==
    \/ \E seats \in SeatCounts : Open(seats)
    \/ \E e \in DOMAIN capacity, seats \in SeatCounts : Resize(e, seats)
    \/ \E u \in Users, e \in DOMAIN capacity, n \in Orders : Sell(u, e, n)
    \/ NewDay

SaleSpec == SaleInit /\ [][SaleNext]_svars
=============================================================================
