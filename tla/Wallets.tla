------------------------------ MODULE Wallets -------------------------------
(***************************************************************************)
(* Wallets, their ledgers and the split of a payment: wallet.service.ts,   *)
(* the revenue split of payments.service.ts, the wallet that               *)
(* users.service.ts creates with a user and the one prisma/seed.ts creates *)
(* after the admin.                                                        *)
(*                                                                         *)
(* An amount is a whole number of cents.  The columns are binary floats:   *)
(* what is lost when they are added up is not modelled, the rounding of    *)
(* the two shares to cents (toFixed(2)) is.                                *)
(***************************************************************************)
EXTENDS Integers, Sequences, FiniteSets, Totals, WalletParameters

CONSTANTS
    Users,        \* customers and event managers: one table
    MaxPayments   \* bound: payments

VARIABLES
    wallet,     \* table "wallet": the balance of each user that has one
    admin,      \* the balance of admin ADMIN_ID, Null before its wallet exists
    txn,        \* table "transaction"
    adminTxn,   \* table "admin_transactions"
    split       \* table "revenue_split"

wvars == <<wallet, admin, txn, adminTxn, split>>

-----------------------------------------------------------------------------
(* The schema.                                                             *)

TxnPurpose == {"WalletTopup", "BookingPayment", "EventManagerPayout"}

Transaction ==
    [userId : Users, amount : Int, type : {"Credit", "Debit"},
     purpose : TxnPurpose, referenceId : Nat \cup {Null}]

AdminTransaction ==
    [amount : Int, type : {"Credit"}, purpose : {"WalletTopup", "PlatformCommission"},
     referenceId : Nat \cup {Null}]

RevenueSplit == [bookingId : Nat, amount : Int, splitType : {"Admin", "Manager"}]

\* Table and row types, and the foreign keys of the ledgers.
TypeOK ==
    /\ DOMAIN wallet \subseteq Users
    /\ wallet = [u \in DOMAIN wallet |-> wallet[u]]
    /\ \A u \in DOMAIN wallet : wallet[u] \in Int
    /\ admin \in Int \cup {Null}
    /\ txn \in Seq(Transaction)
    /\ adminTxn \in Seq(AdminTransaction)
    /\ split \in Seq(RevenueSplit)
    /\ \A i \in DOMAIN txn : txn[i].userId \in DOMAIN wallet
    /\ adminTxn # <<>> => admin # Null

Init ==
    /\ wallet = <<>>
    /\ admin = Null
    /\ txn = <<>>
    /\ adminTxn = <<>>
    /\ split = <<>>

-----------------------------------------------------------------------------
(* Slips that are easy to make in the definitions below.  No action uses   *)
(* them: each stands in for the definition it names when a run is repeated *)
(* to see that a property would notice.                                    *)

\* CanPay of some money, not of the amount.
HasMoney(u, total) == wallet[u] > 0

\* ManagerShares of what the customer pays, the commission not taken off.
WholeTotal(total) == {total}

\* Paid with both updates made from the balances read before.
PaidFromReadBalances(u, m, total, share) ==
    [[wallet EXCEPT ![u] = wallet[u] - total] EXCEPT ![m] = wallet[m] + share]

\* PayoutRow without its booking.
PayoutRowUnreferenced(m, share, b) ==
    [userId |-> m, amount |-> share, type |-> "Credit",
     purpose |-> "EventManagerPayout", referenceId |-> Null]

-----------------------------------------------------------------------------
(* The operations.                                                         *)

\* users.create: a user and its wallet, in one transaction.
Register(u) ==
    /\ u \notin DOMAIN wallet
    /\ wallet' = [v \in DOMAIN wallet \cup {u} |->
                     IF v = u THEN OPENING_BALANCE ELSE wallet[v]]
    /\ UNCHANGED <<admin, txn, adminTxn, split>>

\* seed.ts creates the admin's wallet after the admin, not with it.
SeedAdminWallet ==
    /\ admin = Null
    /\ admin' = 0
    /\ UNCHANGED <<wallet, txn, adminTxn, split>>

TopupRow(u, amount) ==
    [userId |-> u, amount |-> amount, type |-> "Credit",
     purpose |-> "WalletTopup", referenceId |-> Null]

\* POST /wallet/deposit, of a user.
Deposit(u, amount) ==
    /\ u \in DOMAIN wallet
    /\ wallet' = [wallet EXCEPT ![u] = @ + amount]
    /\ txn' = Append(txn, TopupRow(u, amount))
    /\ UNCHANGED <<admin, adminTxn, split>>

\* POST /wallet/deposit, of the admin.
AdminDeposit(amount) ==
    /\ admin # Null
    /\ admin' = admin + amount
    /\ adminTxn' = Append(adminTxn, [amount |-> amount, type |-> "Credit",
                                     purpose |-> "WalletTopup", referenceId |-> Null])
    /\ UNCHANGED <<wallet, txn, split>>

\* A number of thousandths of a cent to two decimals.  Halfway between two
\* cents the binary product may lie on either side.
Cents(milli) ==
    {c \in {milli \div 1000, milli \div 1000 + 1} :
        2 * milli - 1000 <= 2000 * c /\ 2000 * c <= 2 * milli + 1000}

AdminShares(total)   == Cents(188 * total)   \* ADMIN_PERCENT = 18.8
ManagerShares(total) == Cents(812 * total)   \* MANAGER_PERCENT = 81.2

\* updateMany where balance: { gte: total }
CanPay(u, total) == wallet[u] >= total

\* The customer's decrement, then the manager's increment: a manager who
\* was a customer before may pay for a seat of an own event.
Paid(u, m, total, share) ==
    [[wallet EXCEPT ![u] = @ - total] EXCEPT ![m] = @ + share]

PayoutRow(m, share, b) ==
    [userId |-> m, amount |-> share, type |-> "Credit",
     purpose |-> "EventManagerPayout", referenceId |-> b]

DebitRow(u, total, b) ==
    [userId |-> u, amount |-> total, type |-> "Debit",
     purpose |-> "BookingPayment", referenceId |-> b]

CommissionRow(share, b) ==
    [amount |-> share, type |-> "Credit", purpose |-> "PlatformCommission",
     referenceId |-> b]

SplitRow(b, share, splitType) ==
    [bookingId |-> b, amount |-> share, splitType |-> splitType]

\* processBookingTransfer, and the split rows its caller adds with its result.
Transfer(u, m, total, b) ==
    /\ u \in DOMAIN wallet
    /\ m \in DOMAIN wallet
    /\ admin # Null
    /\ CanPay(u, total)
    /\ \E adminShare \in AdminShares(total), managerShare \in ManagerShares(total) :
           /\ wallet' = Paid(u, m, total, managerShare)
           /\ admin' = admin + adminShare
           /\ txn' = Append(Append(txn, PayoutRow(m, managerShare, b)), DebitRow(u, total, b))
           /\ adminTxn' = Append(adminTxn, CommissionRow(adminShare, b))
           /\ split' = Append(Append(split, SplitRow(b, adminShare, "Admin")),
                              SplitRow(b, managerShare, "Manager"))

-----------------------------------------------------------------------------

\* The rows of a purpose: a payment's reference is the id of its booking.
RowsFor(table, purpose) == {i \in DOMAIN table : table[i].purpose = purpose}

PaymentCount == Cardinality(RowsFor(txn, "BookingPayment"))

TopupCount ==
    Cardinality(RowsFor(txn, "WalletTopup")) + Cardinality(RowsFor(adminTxn, "WalletTopup"))

Account ==
    \/ \E u \in Users : Register(u)
    \/ SeedAdminWallet
    \/ /\ TopupCount < MaxTopups
       /\ \E amount \in Amounts : AdminDeposit(amount) \/ \E u \in Users : Deposit(u, amount)

Next ==
    \/ Account
    \/ /\ PaymentCount < MaxPayments
       /\ \E u, m \in Users, total \in Payments : Transfer(u, m, total, PaymentCount + 1)

Spec == Init /\ [][Next]_wvars

-----------------------------------------------------------------------------
(* Safety.                                                                 *)

CreditsOf(table, u) == {i \in DOMAIN table : table[i].userId = u /\ table[i].type = "Credit"}
DebitsOf(table, u)  == {i \in DOMAIN table : table[i].userId = u /\ table[i].type = "Debit"}

\* The amounts in some rows of a ledger.
AmountIn(table, ids) == Total([i \in ids |-> table[i].amount])

Credited(table, u) == AmountIn(table, CreditsOf(table, u))
Debited(table, u)  == AmountIn(table, DebitsOf(table, u))

\* What payouts of less than nothing take from a wallet: booking a negative
\* number of tickets pays the customer, and nothing asks whether its manager
\* has the money.
TakenFrom(table, u) == AmountIn(table, {i \in CreditsOf(table, u) : table[i].amount < 0})

\* No payment of its own overdraws a wallet, whoever else was paid from it
\* or took from it before: it is below zero by what such payouts took, at most.
NoOverdraft == \A u \in DOMAIN wallet : wallet[u] >= TakenFrom(txn, u)

\* The ledger explains every balance: the rows of /wallet/transactions add
\* up to what /wallet/balance shows, also when customer and manager are one.
LedgerMatchesBalance ==
    /\ \A u \in DOMAIN wallet :
           wallet[u] + Debited(txn, u) = OPENING_BALANCE + Credited(txn, u)
    /\ admin # Null => admin = AmountIn(adminTxn, DOMAIN adminTxn)

\* A payment is recorded in three ledgers that agree: each debit has its
\* payout, its commission and a split of each type, with the same amounts,
\* under the booking's id, and what the customer pays is what the others
\* receive, up to the cent that rounding both shares can add or lose.
PaymentsBalance ==
    \A d \in RowsFor(txn, "BookingPayment") :
        \E p \in RowsFor(txn, "EventManagerPayout"), c \in RowsFor(adminTxn, "PlatformCommission"),
           a, s \in DOMAIN split :
            /\ txn[p].referenceId = txn[d].referenceId
            /\ adminTxn[c].referenceId = txn[d].referenceId
            /\ split[a] = SplitRow(txn[d].referenceId, adminTxn[c].amount, "Admin")
            /\ split[s] = SplitRow(txn[d].referenceId, txn[p].amount, "Manager")
            /\ txn[p].amount + adminTxn[c].amount - txn[d].amount \in {-1, 0, 1}

\* No money appears or disappears: all balances together are the opening
\* balances and the top-ups, up to one cent for each payment.
MoneyConserved ==
    LET topups(table) == AmountIn(table, RowsFor(table, "WalletTopup"))
        held == Total(wallet) + (IF admin = Null THEN 0 ELSE admin)
        put  == Cardinality(DOMAIN wallet) * OPENING_BALANCE + topups(txn) + topups(adminTxn)
    IN  held - put \in -PaymentCount..PaymentCount
=============================================================================
