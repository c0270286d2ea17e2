---------------------------- MODULE WalletsProofs ---------------------------
(* Proofs about Wallets for every value of its constants.                  *)
EXTENDS Wallets, TotalsProofs

-----------------------------------------------------------------------------
(* The shares.                                                             *)

\* Rounded to cents, the two shares of a payment are never more than a cent
\* away from it.
LEMMA SharesAddUp ==
    ASSUME NEW total \in Int,
           NEW a \in AdminShares(total), NEW s \in ManagerShares(total)
    PROVE  a \in Int /\ s \in Int /\ s + a - total \in {-1, 0, 1}
<1>1. \A milli \in Int : \A c \in Cents(milli) :
         c \in Int /\ 2 * milli - 1000 <= 2000 * c /\ 2000 * c <= 2 * milli + 1000
  <2> SUFFICES ASSUME NEW milli \in Int, NEW c \in Cents(milli)
               PROVE  c \in Int /\ 2 * milli - 1000 <= 2000 * c /\ 2000 * c <= 2 * milli + 1000
    OBVIOUS
  <2>1. milli \div 1000 \in Int
    OBVIOUS
  <2>2. QED BY <2>1 DEF Cents
<1>2. 188 * total \in Int /\ 812 * total \in Int
  OBVIOUS
<1>3. /\ a \in Int /\ s \in Int
      /\ 2 * (188 * total) - 1000 <= 2000 * a /\ 2000 * a <= 2 * (188 * total) + 1000
      /\ 2 * (812 * total) - 1000 <= 2000 * s /\ 2000 * s <= 2 * (812 * total) + 1000
  BY <1>1, <1>2 DEF AdminShares, ManagerShares
<1>4. 2000 * total - 2000 <= 2000 * (a + s) /\ 2000 * (a + s) <= 2000 * total + 2000
  BY <1>3
<1>5. QED BY <1>3, <1>4

-----------------------------------------------------------------------------
(* What each operation does to the tables.                                 *)

TransferEffect(u, m, total, b, a, s) ==
    /\ s + a - total \in {-1, 0, 1}
    /\ u \in DOMAIN wallet /\ m \in DOMAIN wallet /\ wallet[u] >= total
    /\ DOMAIN wallet' = DOMAIN wallet
    /\ wallet' = [v \in DOMAIN wallet |-> wallet'[v]]
    /\ \A v \in DOMAIN wallet :
          wallet'[v] = wallet[v] - (IF v = u THEN total ELSE 0)
                                 + (IF v = m THEN s ELSE 0)
    /\ admin \in Int /\ admin' = admin + a
    /\ PayoutRow(m, s, b) \in Transaction
    /\ DebitRow(u, total, b) \in Transaction
    /\ CommissionRow(a, b) \in AdminTransaction
    /\ SplitRow(b, a, "Admin") \in RevenueSplit
    /\ SplitRow(b, s, "Manager") \in RevenueSplit
    /\ txn' = Append(Append(txn, PayoutRow(m, s, b)), DebitRow(u, total, b))
    /\ adminTxn' = Append(adminTxn, CommissionRow(a, b))
    /\ split' = Append(Append(split, SplitRow(b, a, "Admin")), SplitRow(b, s, "Manager"))

LEMMA TransferStep ==
    ASSUME TypeOK, NEW u \in Users, NEW m \in Users, NEW total \in Int, NEW b \in Nat,
           Transfer(u, m, total, b)
    PROVE  \E a, s \in Int : TransferEffect(u, m, total, b, a, s)
<1>1. PICK a \in AdminShares(total), s \in ManagerShares(total) :
         /\ wallet' = Paid(u, m, total, s)
         /\ admin' = admin + a
         /\ txn' = Append(Append(txn, PayoutRow(m, s, b)), DebitRow(u, total, b))
         /\ adminTxn' = Append(adminTxn, CommissionRow(a, b))
         /\ split' = Append(Append(split, SplitRow(b, a, "Admin")), SplitRow(b, s, "Manager"))
  BY DEF Transfer
<1>2. a \in Int /\ s \in Int /\ s + a - total \in {-1, 0, 1}
  BY SharesAddUp
<1>3. u \in DOMAIN wallet /\ m \in DOMAIN wallet /\ admin # Null /\ wallet[u] >= total
  BY DEF Transfer, CanPay
<1>4. admin \in Int
  BY <1>3 DEF TypeOK
<1>5. \A v \in DOMAIN wallet : wallet[v] \in Int
  BY DEF TypeOK
<1>6. /\ DOMAIN wallet' = DOMAIN wallet
      /\ wallet' = [v \in DOMAIN wallet |-> wallet'[v]]
      /\ \A v \in DOMAIN wallet :
            wallet'[v] = wallet[v] - (IF v = u THEN total ELSE 0) + (IF v = m THEN s ELSE 0)
  <2> DEFINE w == [wallet EXCEPT ![u] = @ - total]
  <2>1. /\ DOMAIN w = DOMAIN wallet
        /\ \A v \in DOMAIN wallet : w[v] = wallet[v] - (IF v = u THEN total ELSE 0)
    BY <1>3, <1>5
  <2>2. wallet' = [w EXCEPT ![m] = @ + s]
    BY <1>1 DEF Paid
  <2> HIDE DEF w
  <2>3. /\ DOMAIN wallet' = DOMAIN wallet
        /\ wallet' = [v \in DOMAIN wallet |-> wallet'[v]]
        /\ \A v \in DOMAIN wallet : wallet'[v] = IF v = m THEN w[v] + s ELSE w[v]
    BY <2>1, <2>2
  <2>4. \A v \in DOMAIN wallet : w[v] \in Int
    BY <1>5, <2>1
  <2>5. \A v \in DOMAIN wallet : wallet'[v] = w[v] + (IF v = m THEN s ELSE 0)
    BY <1>2, <2>3, <2>4
  <2>6. QED BY <2>1, <2>3, <2>5
<1>7. /\ PayoutRow(m, s, b) \in Transaction
      /\ DebitRow(u, total, b) \in Transaction
  BY <1>2 DEF PayoutRow, DebitRow, Transaction, TxnPurpose
<1>8. /\ CommissionRow(a, b) \in AdminTransaction
      /\ SplitRow(b, a, "Admin") \in RevenueSplit
      /\ SplitRow(b, s, "Manager") \in RevenueSplit
  BY <1>2 DEF CommissionRow, SplitRow, AdminTransaction, RevenueSplit
<1>9. TransferEffect(u, m, total, b, a, s)
  BY <1>1, <1>2, <1>3, <1>4, <1>6, <1>7, <1>8 DEF TransferEffect
<1>10. QED BY <1>2, <1>9

\* Registering, seeding and topping up.
LEMMA AccountStep ==
    ASSUME TypeOK, Account
    PROVE  \/ \E u \in Users : u \notin DOMAIN wallet /\ Register(u)
           \/ SeedAdminWallet
           \/ \E u \in Users, amount \in Nat :
                 /\ u \in DOMAIN wallet
                 /\ DOMAIN wallet' = DOMAIN wallet
                 /\ wallet' = [v \in DOMAIN wallet |-> wallet'[v]]
                 /\ \A v \in DOMAIN wallet :
                       wallet'[v] = wallet[v] + (IF v = u THEN amount ELSE 0)
                 /\ TopupRow(u, amount) \in Transaction
                 /\ txn' = Append(txn, TopupRow(u, amount))
                 /\ UNCHANGED <<admin, adminTxn, split>>
           \/ \E amount \in Nat, row \in AdminTransaction :
                 /\ admin \in Int /\ admin' = admin + amount
                 /\ row.amount = amount /\ row.purpose = "WalletTopup"
                 /\ adminTxn' = Append(adminTxn, row)
                 /\ UNCHANGED <<wallet, txn, split>>
<1>1. \A v \in DOMAIN wallet : wallet[v] \in Int
  BY DEF TypeOK
<1>2. ASSUME NEW u \in Users, NEW amount \in Amounts, Deposit(u, amount)
      PROVE  /\ u \in DOMAIN wallet
             /\ DOMAIN wallet' = DOMAIN wallet
             /\ wallet' = [v \in DOMAIN wallet |-> wallet'[v]]
             /\ \A v \in DOMAIN wallet : wallet'[v] = wallet[v] + (IF v = u THEN amount ELSE 0)
             /\ TopupRow(u, amount) \in Transaction
             /\ txn' = Append(txn, TopupRow(u, amount))
             /\ UNCHANGED <<admin, adminTxn, split>>
  <2>1. amount \in Nat
    BY WalletsAssumption
  <2>2. TopupRow(u, amount) \in Transaction
    BY <2>1 DEF TopupRow, Transaction, TxnPurpose
  <2>3. u \in DOMAIN wallet /\ wallet' = [wallet EXCEPT ![u] = wallet[u] + amount]
    BY <1>2 DEF Deposit
  <2>4. /\ DOMAIN wallet' = DOMAIN wallet
        /\ wallet' = [v \in DOMAIN wallet |-> wallet'[v]]
        /\ \A v \in DOMAIN wallet : wallet'[v] = IF v = u THEN wallet[v] + amount ELSE wallet[v]
    BY <2>3
  <2>5. \A v \in DOMAIN wallet : wallet'[v] = wallet[v] + (IF v = u THEN amount ELSE 0)
    BY <1>1, <2>1, <2>4
  <2>6. txn' = Append(txn, TopupRow(u, amount)) /\ UNCHANGED <<admin, adminTxn, split>>
    BY <1>2 DEF Deposit
  <2>7. QED BY <2>2, <2>3, <2>4, <2>5, <2>6
<1>3. ASSUME NEW amount \in Amounts, AdminDeposit(amount)
      PROVE  \E row \in AdminTransaction :
                /\ admin \in Int /\ admin' = admin + amount
                /\ row.amount = amount /\ row.purpose = "WalletTopup"
                /\ adminTxn' = Append(adminTxn, row)
                /\ UNCHANGED <<wallet, txn, split>>
  <2> DEFINE row == [amount |-> amount, type |-> "Credit",
                     purpose |-> "WalletTopup", referenceId |-> Null]
  <2>1. amount \in Nat
    BY WalletsAssumption
  <2>2. row \in AdminTransaction /\ row.amount = amount /\ row.purpose = "WalletTopup"
    BY <2>1 DEF AdminTransaction
  <2>3. admin \in Int /\ admin' = admin + amount /\ adminTxn' = Append(adminTxn, row)
        /\ UNCHANGED <<wallet, txn, split>>
    BY <1>3 DEF AdminDeposit, TypeOK
  <2> HIDE DEF row
  <2>4. QED BY <2>2, <2>3
<1>4. Amounts \subseteq Nat
  BY WalletsAssumption
<1>5. CASE \E u \in Users : Register(u)
  BY <1>5 DEF Register
<1>6. CASE SeedAdminWallet
  BY <1>6
<1>7. CASE \E amount \in Amounts, u \in Users : Deposit(u, amount)
  <2>1. PICK amount \in Amounts, u \in Users : Deposit(u, amount)
    BY <1>7
  <2>2. amount \in Nat
    BY <1>4
  <2>3. QED BY <1>2, <2>1, <2>2
<1>8. CASE \E amount \in Amounts : AdminDeposit(amount)
  <2>1. PICK amount \in Amounts : AdminDeposit(amount)
    BY <1>8
  <2>2. amount \in Nat
    BY <1>4
  <2>3. QED BY <1>3, <2>1, <2>2
<1>9. QED BY <1>5, <1>6, <1>7, <1>8 DEF Account

\* The number of payments recorded, which numbers the next one.
LEMMA PaymentCountType == TypeOK => PaymentCount \in Nat
<1> SUFFICES ASSUME TypeOK PROVE PaymentCount \in Nat
  OBVIOUS
<1>1. Len(txn) \in Nat /\ DOMAIN txn = 1..Len(txn)
  BY TableShape DEF TypeOK
<1>2. IsFiniteSet(RowsFor(txn, "BookingPayment"))
  <2>1. IsFiniteSet(1..Len(txn))
    BY <1>1, FS_Interval
  <2>2. RowsFor(txn, "BookingPayment") \subseteq 1..Len(txn)
    BY <1>1 DEF RowsFor
  <2>3. QED BY <2>1, <2>2, FS_Subset
<1>3. QED BY <1>2, FS_CardinalityType DEF PaymentCount

\* A payment Next makes is a Transfer of a whole number of cents.
LEMMA NextCases ==
    ASSUME TypeOK, [Next]_wvars
    PROVE  \/ Account
           \/ \E u, m \in Users, total \in Int, b \in Nat : Transfer(u, m, total, b)
           \/ UNCHANGED wvars
<1>1. PaymentCount + 1 \in Nat
  BY PaymentCountType
<1>2. CASE \E u, m \in Users, total \in Payments : Transfer(u, m, total, PaymentCount + 1)
  <2>1. PICK u \in Users, m \in Users, total \in Payments : Transfer(u, m, total, PaymentCount + 1)
    BY <1>2
  <2>2. PICK b \in Nat : b = PaymentCount + 1
    BY <1>1
  <2>3. total \in Int
    BY WalletsAssumption
  <2>4. Transfer(u, m, total, b)
    BY <2>1, <2>2
  <2>5. QED BY <2>3, <2>4
<1>3. QED BY <1>2 DEF Next

-----------------------------------------------------------------------------
(* Types.                                                                  *)

LEMMA TypeInit == Init => TypeOK
<1> SUFFICES ASSUME Init PROVE TypeOK
  OBVIOUS
<1>1. wallet = <<>> /\ txn = <<>> /\ adminTxn = <<>> /\ split = <<>> /\ admin = Null
  BY DEF Init
<1>2. DOMAIN wallet = {} /\ wallet = [u \in DOMAIN wallet |-> wallet[u]]
  BY <1>1, EmptySeq
<1>3. QED BY <1>1, <1>2, EmptySeq DEF TypeOK

\* Table k is table t with one row more.
RowAdded(t, row, k) ==
    /\ DOMAIN k = DOMAIN t \cup {Len(t) + 1}
    /\ Len(t) + 1 \notin DOMAIN t
    /\ \A i \in DOMAIN t : k[i] = t[i]
    /\ k[Len(t) + 1] = row

LEMMA RowAppended ==
    ASSUME NEW S, NEW t \in Seq(S), NEW row \in S, NEW k, k = Append(t, row)
    PROVE  k \in Seq(S) /\ k # <<>> /\ RowAdded(t, row, k)
<1>1. Len(t) \in Nat /\ DOMAIN t = 1..Len(t)
  BY TableShape
<1>2. /\ Append(t, row) \in Seq(S) /\ Append(t, row) # <<>>
      /\ Len(Append(t, row)) = Len(t) + 1
      /\ \A i \in 1..Len(t) : Append(t, row)[i] = t[i]
      /\ Append(t, row)[Len(t) + 1] = row
  BY AppendProperties
<1>3. DOMAIN Append(t, row) = 1..(Len(t) + 1)
  BY <1>2, TableShape
<1>4. 1..(Len(t) + 1) = 1..Len(t) \cup {Len(t) + 1} /\ Len(t) + 1 \notin 1..Len(t)
  BY <1>1
<1>5. QED BY <1>1, <1>2, <1>3, <1>4 DEF RowAdded

\* What holds of every row of a table and of the new one.
LEMMA EveryRowAfter ==
    ASSUME NEW t, NEW row, NEW k, RowAdded(t, row, k)
    PROVE  /\ \A i \in DOMAIN k : (i \in DOMAIN t /\ k[i] = t[i]) \/ k[i] = row
           /\ \A i \in DOMAIN t : i \in DOMAIN k /\ k[i] = t[i]
           /\ \E i \in DOMAIN k : k[i] = row
BY DEF RowAdded

LEMMA TypeNext == TypeOK /\ [Next]_wvars => TypeOK'
<1> SUFFICES ASSUME TypeOK, [Next]_wvars PROVE TypeOK'
  OBVIOUS
<1>1. /\ DOMAIN wallet \subseteq Users
      /\ wallet = [u \in DOMAIN wallet |-> wallet[u]]
      /\ \A u \in DOMAIN wallet : wallet[u] \in Int
      /\ admin \in Int \cup {Null}
      /\ txn \in Seq(Transaction)
      /\ adminTxn \in Seq(AdminTransaction)
      /\ split \in Seq(RevenueSplit)
      /\ \A i \in DOMAIN txn : txn[i].userId \in DOMAIN wallet
      /\ adminTxn # <<>> => admin # Null
  BY DEF TypeOK
<1>2. \A n \in Int : n # Null
  BY WalletsAssumption
<1>3. ASSUME NEW u \in Users, NEW m \in Users, NEW total \in Int, NEW b \in Nat,
             Transfer(u, m, total, b)
      PROVE  TypeOK'
  <2>1. PICK a \in Int, s \in Int : TransferEffect(u, m, total, b, a, s)
    BY <1>3, TransferStep
  <2>2. /\ u \in DOMAIN wallet /\ m \in DOMAIN wallet
        /\ DOMAIN wallet' = DOMAIN wallet
        /\ wallet' = [v \in DOMAIN wallet |-> wallet'[v]]
        /\ \A v \in DOMAIN wallet :
              wallet'[v] = wallet[v] - (IF v = u THEN total ELSE 0) + (IF v = m THEN s ELSE 0)
        /\ admin \in Int /\ admin' = admin + a
    BY <2>1 DEF TransferEffect
  <2>3. \A v \in DOMAIN wallet' : wallet'[v] \in Int
    <3>1. \A v \in DOMAIN wallet :
             wallet[v] - (IF v = u THEN total ELSE 0) + (IF v = m THEN s ELSE 0) \in Int
      BY <1>1
    <3>2. QED BY <2>2, <3>1
  <2>4. admin' \in Int /\ admin' # Null
    BY <1>2, <2>2
  <2>5. /\ PayoutRow(m, s, b) \in Transaction /\ PayoutRow(m, s, b).userId = m
        /\ DebitRow(u, total, b) \in Transaction /\ DebitRow(u, total, b).userId = u
    BY <2>1 DEF TransferEffect, PayoutRow, DebitRow
  <2>6. PICK t, payout, debit :
           /\ payout = PayoutRow(m, s, b) /\ debit = DebitRow(u, total, b)
           /\ t = Append(txn, payout) /\ txn' = Append(t, debit)
    BY <2>1 DEF TransferEffect
  <2>7. t \in Seq(Transaction) /\ \A i \in DOMAIN t : t[i].userId \in DOMAIN wallet
    <3>1. payout \in Transaction /\ payout.userId \in DOMAIN wallet
      BY <2>2, <2>5, <2>6
    <3>2. QED BY <1>1, <2>6, <3>1, RowAppended
  <2>8. txn' \in Seq(Transaction) /\ \A i \in DOMAIN txn' : txn'[i].userId \in DOMAIN wallet
    <3>1. debit \in Transaction /\ debit.userId \in DOMAIN wallet
      BY <2>2, <2>5, <2>6
    <3>2. QED BY <2>6, <2>7, <3>1, RowAppended
  <2>9. adminTxn' \in Seq(AdminTransaction)
    BY <1>1, <2>1, RowAppended DEF TransferEffect
  <2>10. split' \in Seq(RevenueSplit)
    <3>1. Append(split, SplitRow(b, a, "Admin")) \in Seq(RevenueSplit)
      BY <1>1, <2>1, RowAppended DEF TransferEffect
    <3>2. QED BY <2>1, <3>1, RowAppended DEF TransferEffect
  <2>11. QED BY <1>1, <2>2, <2>3, <2>4, <2>8, <2>9, <2>10 DEF TypeOK
<1>4. CASE Account
  <2>1. ASSUME NEW u \in Users, u \notin DOMAIN wallet, Register(u)
        PROVE  TypeOK'
    <3>1. /\ DOMAIN wallet' = DOMAIN wallet \cup {u}
          /\ wallet' = [v \in DOMAIN wallet' |-> wallet'[v]]
          /\ \A v \in DOMAIN wallet' : wallet'[v] = IF v = u THEN OPENING_BALANCE ELSE wallet[v]
          /\ UNCHANGED <<admin, txn, adminTxn, split>>
      BY <2>1 DEF Register
    <3>2. \A v \in DOMAIN wallet' : wallet'[v] \in Int
      BY <1>1, <3>1, WalletsAssumption
    <3>3. QED BY <1>1, <3>1, <3>2 DEF TypeOK
  <2>2. CASE SeedAdminWallet
    BY <1>1, <1>2, <2>2 DEF SeedAdminWallet, TypeOK
  <2>3. ASSUME NEW u \in Users, NEW amount \in Nat,
               u \in DOMAIN wallet, DOMAIN wallet' = DOMAIN wallet,
               wallet' = [v \in DOMAIN wallet |-> wallet'[v]],
               \A v \in DOMAIN wallet : wallet'[v] = wallet[v] + (IF v = u THEN amount ELSE 0),
               TopupRow(u, amount) \in Transaction,
               txn' = Append(txn, TopupRow(u, amount)),
               UNCHANGED <<admin, adminTxn, split>>
        PROVE  TypeOK'
    <3>1. ASSUME NEW v \in DOMAIN wallet' PROVE wallet'[v] \in Int
      <4>1. v \in DOMAIN wallet /\ wallet[v] \in Int
        BY <1>1, <2>3, <3>1
      <4>2. wallet'[v] = wallet[v] + amount \/ wallet'[v] = wallet[v] + 0
        BY <2>3, <4>1
      <4>3. QED BY <4>1, <4>2
    <3>2. txn' \in Seq(Transaction) /\ \A i \in DOMAIN txn' : txn'[i].userId \in DOMAIN wallet
      <4>1. TopupRow(u, amount).userId = u
        BY DEF TopupRow
      <4>2. QED BY <1>1, <2>3, <4>1, RowAppended
    <3>3. QED BY <1>1, <2>3, <3>1, <3>2 DEF TypeOK
  <2>4. ASSUME NEW amount \in Nat, NEW row \in AdminTransaction,
               admin \in Int, admin' = admin + amount, adminTxn' = Append(adminTxn, row),
               UNCHANGED <<wallet, txn, split>>
        PROVE  TypeOK'
    <3>1. admin' \in Int /\ admin' # Null
      BY <1>2, <2>4
    <3>2. adminTxn' \in Seq(AdminTransaction)
      BY <1>1, <2>4, RowAppended
    <3>3. QED BY <1>1, <2>4, <3>1, <3>2 DEF TypeOK
  <2>5. QED BY <1>4, <2>1, <2>2, <2>3, <2>4, AccountStep
<1>5. CASE UNCHANGED wvars
  BY <1>1, <1>5 DEF wvars, TypeOK
<1>6. QED BY <1>3, <1>4, <1>5, NextCases

\* Every table keeps its type, every ledger row a wallet it belongs to.
THEOREM TypeCorrect == Spec => []TypeOK
BY TypeInit, TypeNext, PTL DEF Spec

-----------------------------------------------------------------------------
(* Ledgers.                                                                *)

\* The amounts in the rows a table had stay what they were.
LEMMA AmountsKept ==
    ASSUME NEW S, \A r \in S : r.amount \in Int,
           NEW t \in Seq(S), NEW row \in S, NEW ids \in SUBSET (DOMAIN t),
           NEW k, RowAdded(t, row, k)
    PROVE  AmountIn(k, ids) = AmountIn(t, ids)
<1>1. \A i \in ids : k[i] = t[i]
  BY DEF RowAdded
<1>2. [i \in ids |-> k[i].amount] = [i \in ids |-> t[i].amount]
  BY <1>1
<1>3. QED BY <1>2 DEF AmountIn

\* They are a whole number together.
LEMMA AmountsType ==
    ASSUME NEW S, \A r \in S : r.amount \in Int,
           NEW t \in Seq(S), NEW ids \in SUBSET (DOMAIN t)
    PROVE  AmountIn(t, ids) \in Int
<1> DEFINE c == [i \in ids |-> t[i].amount]
<1>1. Len(t) \in Nat /\ DOMAIN t = 1..Len(t) /\ \A i \in 1..Len(t) : t[i] \in S
  BY TableShape
<1>2. ids \in SUBSET (1..Len(t)) /\ c \in [ids -> Int]
  BY <1>1
<1> HIDE DEF c
<1>3. Total(c) \in Int
  BY <1>1, <1>2, SumOfRows
<1>4. QED BY <1>3 DEF AmountIn, c

\* With the row that is added they grow by its amount.
LEMMA AmountsWithNew ==
    ASSUME NEW S, \A r \in S : r.amount \in Int,
           NEW t \in Seq(S), NEW row \in S, NEW ids \in SUBSET (DOMAIN t),
           NEW k, RowAdded(t, row, k),
           NEW new, new = Len(t) + 1
    PROVE  AmountIn(k, ids \cup {new}) = AmountIn(t, ids) + row.amount
<1> DEFINE n == Len(t)
           c == [i \in ids |-> t[i].amount]
           d == [i \in ids \cup {n + 1} |-> k[i].amount]
<1>1. n \in Nat /\ DOMAIN t = 1..n /\ \A i \in 1..n : t[i] \in S
  BY TableShape
<1>2. (\A i \in 1..n : k[i] = t[i]) /\ k[n + 1] = row
  BY <1>1 DEF RowAdded
<1>3. ids \in SUBSET (1..n) /\ c \in [ids -> Int]
  BY <1>1
<1>6. row.amount \in Int
  OBVIOUS
<1>7. d[n + 1] = row.amount /\ (\A i \in ids : d[i] = c[i])
  BY <1>1, <1>2, <1>3
<1>8. d \in [ids \cup {n + 1} -> Int]
  BY <1>3, <1>6, <1>7
<1> HIDE DEF c, d, n
<1>9. Total(d) = Total(c) + row.amount
  BY <1>1, <1>3, <1>6, <1>7, <1>8, SumAfterAppend
<1>10. new = n + 1
  BY DEF n
<1>11. AmountIn(k, ids \cup {new}) = Total(d) /\ AmountIn(t, ids) = Total(c)
  BY <1>10 DEF c, d, AmountIn
<1>12. QED BY <1>9, <1>11

\* What a row adds to the credits and debits of a user.
LEMMA RowSums ==
    ASSUME NEW t \in Seq(Transaction), NEW row \in Transaction, NEW u,
           NEW k, RowAdded(t, row, k)
    PROVE  /\ Credited(t, u) \in Int /\ Debited(t, u) \in Int
           /\ Credited(k, u) = Credited(t, u)
                 + (IF row.userId = u /\ row.type = "Credit" THEN row.amount ELSE 0)
           /\ Debited(k, u) = Debited(t, u)
                 + (IF row.userId = u /\ row.type = "Debit" THEN row.amount ELSE 0)
<1>1. \A r \in Transaction : r.amount \in Int
  BY DEF Transaction
<1>2. PICK new : new = Len(t) + 1
  OBVIOUS
<1>3. /\ DOMAIN k = DOMAIN t \cup {new} /\ new \notin DOMAIN t
      /\ (\A i \in DOMAIN t : k[i] = t[i]) /\ k[new] = row
  BY <1>2 DEF RowAdded
<1>4. CreditsOf(t, u) \in SUBSET (DOMAIN t) /\ DebitsOf(t, u) \in SUBSET (DOMAIN t)
  BY DEF CreditsOf, DebitsOf
<1>5. /\ CreditsOf(k, u) = IF row.userId = u /\ row.type = "Credit"
                           THEN CreditsOf(t, u) \cup {new} ELSE CreditsOf(t, u)
      /\ DebitsOf(k, u) = IF row.userId = u /\ row.type = "Debit"
                          THEN DebitsOf(t, u) \cup {new} ELSE DebitsOf(t, u)
  BY <1>3 DEF CreditsOf, DebitsOf
<1>6. ASSUME NEW ids \in SUBSET (DOMAIN t)
      PROVE  /\ AmountIn(t, ids) \in Int
             /\ AmountIn(k, ids) = AmountIn(t, ids)
             /\ AmountIn(k, ids \cup {new}) = AmountIn(t, ids) + row.amount
  <2>1. AmountIn(t, ids) \in Int
    BY <1>1, AmountsType
  <2>2. AmountIn(k, ids) = AmountIn(t, ids)
    BY <1>1, AmountsKept
  <2>3. AmountIn(k, ids \cup {new}) = AmountIn(t, ids) + row.amount
    BY <1>1, <1>2, AmountsWithNew
  <2>4. QED BY <2>1, <2>2, <2>3
<1>7. row.amount \in Int
  BY <1>1
<1>8. Credited(t, u) \in Int /\ Debited(t, u) \in Int
  BY <1>4, <1>6 DEF Credited, Debited
<1>9. Credited(k, u) = Credited(t, u)
                 + (IF row.userId = u /\ row.type = "Credit" THEN row.amount ELSE 0)
  <2>1. CASE row.userId = u /\ row.type = "Credit"
    BY <1>4, <1>5, <1>6, <2>1 DEF Credited
  <2>2. CASE ~(row.userId = u /\ row.type = "Credit")
    <3>1. Credited(k, u) = Credited(t, u)
      BY <1>4, <1>5, <1>6, <2>2 DEF Credited
    <3>2. QED BY <1>8, <2>2, <3>1
  <2>3. QED BY <2>1, <2>2
<1>10. Debited(k, u) = Debited(t, u)
                 + (IF row.userId = u /\ row.type = "Debit" THEN row.amount ELSE 0)
  <2>1. CASE row.userId = u /\ row.type = "Debit"
    BY <1>4, <1>5, <1>6, <2>1 DEF Debited
  <2>2. CASE ~(row.userId = u /\ row.type = "Debit")
    <3>1. Debited(k, u) = Debited(t, u)
      BY <1>4, <1>5, <1>6, <2>2 DEF Debited
    <3>2. QED BY <1>8, <2>2, <3>1
  <2>3. QED BY <2>1, <2>2
<1>11. QED BY <1>8, <1>9, <1>10

\* No rows, nothing in them.
LEMMA NothingInNoRows ==
    ASSUME NEW t
    PROVE  AmountIn(t, {}) = 0
<1>1. DOMAIN [i \in {} |-> t[i].amount] = {}
  OBVIOUS
<1>2. QED BY <1>1, TotalEmpty DEF AmountIn

\* What the two rows of a payment add to the sums over the users' ledger.
LEMMA PaymentSums ==
    ASSUME NEW t0 \in Seq(Transaction), NEW t \in Seq(Transaction),
           NEW payout \in Transaction, NEW debit \in Transaction,
           NEW k, RowAdded(t0, payout, t), RowAdded(t, debit, k),
           NEW u, NEW m, NEW total, NEW s, NEW v,
           payout.userId = m, payout.type = "Credit", payout.amount = s,
           debit.userId = u, debit.type = "Debit", debit.amount = total
    PROVE  /\ Credited(t0, v) \in Int /\ Debited(t0, v) \in Int
           /\ Credited(k, v) = Credited(t0, v) + (IF v = m THEN s ELSE 0)
           /\ Debited(k, v) = Debited(t0, v) + (IF v = u THEN total ELSE 0)
<1>4. total \in Int /\ s \in Int
  BY DEF Transaction
<1>7. /\ Credited(t0, v) \in Int /\ Debited(t0, v) \in Int
      /\ Credited(t, v) = Credited(t0, v) + (IF v = m THEN s ELSE 0)
      /\ Debited(t, v) = Debited(t0, v)
  <2>1. /\ Credited(t0, v) \in Int /\ Debited(t0, v) \in Int
        /\ Credited(t, v) = Credited(t0, v)
              + (IF payout.userId = v /\ payout.type = "Credit" THEN payout.amount ELSE 0)
        /\ Debited(t, v) = Debited(t0, v)
              + (IF payout.userId = v /\ payout.type = "Debit" THEN payout.amount ELSE 0)
    BY RowSums
  <2>2. QED BY <1>4, <2>1
<1>8. /\ Credited(k, v) = Credited(t, v)
      /\ Debited(k, v) = Debited(t, v) + (IF v = u THEN total ELSE 0)
  <2>1. /\ Credited(t, v) \in Int /\ Debited(t, v) \in Int
        /\ Credited(k, v) = Credited(t, v)
              + (IF debit.userId = v /\ debit.type = "Credit" THEN debit.amount ELSE 0)
        /\ Debited(k, v) = Debited(t, v)
              + (IF debit.userId = v /\ debit.type = "Debit" THEN debit.amount ELSE 0)
    BY RowSums
  <2>2. QED BY <1>4, <2>1
<1>9. QED BY <1>7, <1>8

\* The admin's ledger with a row more.
LEMMA AdminSum ==
    ASSUME NEW t \in Seq(AdminTransaction), NEW row \in AdminTransaction,
           NEW k, k = Append(t, row)
    PROVE  AmountIn(k, DOMAIN k) = AmountIn(t, DOMAIN t) + row.amount
<1>1. RowAdded(t, row, k)
  BY RowAppended
<1>2. PICK new : new = Len(t) + 1
  OBVIOUS
<1>3. DOMAIN k = DOMAIN t \cup {new}
  BY <1>1, <1>2 DEF RowAdded
<1>4. \A r \in AdminTransaction : r.amount \in Int
  BY DEF AdminTransaction
<1>5. PICK ids : ids = DOMAIN t
  OBVIOUS
<1>6. AmountIn(k, ids \cup {new}) = AmountIn(t, ids) + row.amount
  BY <1>1, <1>2, <1>4, <1>5, AmountsWithNew
<1>7. QED BY <1>3, <1>5, <1>6

\* A user without a wallet has no rows.
LEMMA NoWalletNoRows ==
    ASSUME TypeOK, NEW u, u \notin DOMAIN wallet
    PROVE  Credited(txn, u) = 0 /\ Debited(txn, u) = 0
<1>1. \A i \in DOMAIN txn : txn[i].userId # u
  BY DEF TypeOK
<1>2. CreditsOf(txn, u) = {} /\ DebitsOf(txn, u) = {}
  BY <1>1 DEF CreditsOf, DebitsOf
<1>3. QED BY <1>2, NothingInNoRows DEF Credited, Debited

UserLedgers ==
    \A u \in DOMAIN wallet : wallet[u] + Debited(txn, u) = OPENING_BALANCE + Credited(txn, u)

AdminLedger == admin # Null => admin = AmountIn(adminTxn, DOMAIN adminTxn)

LEMMA UserLedgersNext == TypeOK /\ UserLedgers /\ [Next]_wvars => UserLedgers'
<1> SUFFICES ASSUME TypeOK, UserLedgers, [Next]_wvars PROVE UserLedgers'
  OBVIOUS
<1>1. \A v \in DOMAIN wallet : wallet[v] \in Int
  BY DEF TypeOK
<1>2. OPENING_BALANCE \in Nat
  BY WalletsAssumption
<1>3. PICK k, w : k = txn' /\ w = wallet'
  OBVIOUS
<1>4. SUFFICES ASSUME NEW v \in DOMAIN w
               PROVE  w[v] + Debited(k, v) = OPENING_BALANCE + Credited(k, v)
  BY <1>3 DEF UserLedgers
<1>5. v \in DOMAIN wallet =>
         wallet[v] + Debited(txn, v) = OPENING_BALANCE + Credited(txn, v)
  BY DEF UserLedgers
<1>6. ASSUME NEW u \in Users, NEW m \in Users, NEW total \in Int, NEW b \in Nat,
             Transfer(u, m, total, b)
      PROVE  w[v] + Debited(k, v) = OPENING_BALANCE + Credited(k, v)
  <2>1. PICK a \in Int, s \in Int : TransferEffect(u, m, total, b, a, s)
    BY <1>6, TransferStep
  <2>2. /\ v \in DOMAIN wallet
        /\ w[v] = wallet[v] - (IF v = u THEN total ELSE 0) + (IF v = m THEN s ELSE 0)
    BY <1>3, <2>1 DEF TransferEffect
  <2>3. PICK t0 : t0 = txn
    OBVIOUS
  <2>4. t0 \in Seq(Transaction)
    BY <2>3 DEF TypeOK
  <2>5. PICK t, payout, debit :
           /\ payout = PayoutRow(m, s, b) /\ debit = DebitRow(u, total, b)
           /\ t = Append(t0, payout) /\ k = Append(t, debit)
    BY <1>3, <2>1, <2>3 DEF TransferEffect
  <2>6. /\ Credited(t0, v) \in Int /\ Debited(t0, v) \in Int
        /\ Credited(k, v) = Credited(t0, v) + (IF v = m THEN s ELSE 0)
        /\ Debited(k, v) = Debited(t0, v) + (IF v = u THEN total ELSE 0)
    <3>1. payout \in Transaction /\ debit \in Transaction
      BY <2>1, <2>5 DEF TransferEffect
    <3>2. /\ payout.userId = m /\ payout.type = "Credit" /\ payout.amount = s
          /\ debit.userId = u /\ debit.type = "Debit" /\ debit.amount = total
      BY <2>5 DEF PayoutRow, DebitRow
    <3>3. t \in Seq(Transaction) /\ RowAdded(t0, payout, t)
      BY <2>4, <2>5, <3>1, RowAppended
    <3>4. RowAdded(t, debit, k)
      BY <2>5, <3>1, <3>3, RowAppended
    <3>5. QED BY <2>4, <3>1, <3>2, <3>3, <3>4, PaymentSums
  <2>7. wallet[v] + Debited(t0, v) = OPENING_BALANCE + Credited(t0, v)
    BY <1>5, <2>2, <2>3
  <2>8. QED BY <1>1, <1>2, <2>2, <2>6, <2>7
<1>7. CASE wallet' = wallet /\ txn' = txn
  BY <1>3, <1>5, <1>7
<1>8. CASE Account
  <2>1. ASSUME NEW u \in Users, u \notin DOMAIN wallet, Register(u)
        PROVE  w[v] + Debited(k, v) = OPENING_BALANCE + Credited(k, v)
    <3>1. /\ k = txn /\ (v = u \/ v \in DOMAIN wallet)
          /\ w[v] = IF v = u THEN OPENING_BALANCE ELSE wallet[v]
      BY <1>3, <2>1 DEF Register
    <3>2. CASE v = u
      BY <1>2, <2>1, <3>1, <3>2, NoWalletNoRows
    <3>3. CASE v # u
      BY <1>5, <3>1, <3>3
    <3>4. QED BY <3>2, <3>3
  <2>2. ASSUME NEW u \in Users, NEW amount \in Nat,
               DOMAIN wallet' = DOMAIN wallet,
               \A x \in DOMAIN wallet : wallet'[x] = wallet[x] + (IF x = u THEN amount ELSE 0),
               TopupRow(u, amount) \in Transaction,
               txn' = Append(txn, TopupRow(u, amount))
        PROVE  w[v] + Debited(k, v) = OPENING_BALANCE + Credited(k, v)
    <3>1. v \in DOMAIN wallet /\ w[v] = wallet[v] + (IF v = u THEN amount ELSE 0)
      BY <1>3, <2>2
    <3>2. PICK row : row = TopupRow(u, amount)
      OBVIOUS
    <3>3. row \in Transaction /\ row.userId = u /\ row.type = "Credit" /\ row.amount = amount
      BY <2>2, <3>2 DEF TopupRow
    <3>4. txn \in Seq(Transaction) /\ k = Append(txn, row)
      BY <1>3, <2>2, <3>2 DEF TypeOK
    <3>5. RowAdded(txn, row, k)
      BY <3>3, <3>4, RowAppended
    <3>6. /\ Credited(txn, v) \in Int /\ Debited(txn, v) \in Int
          /\ Credited(k, v) = Credited(txn, v)
                + (IF row.userId = v /\ row.type = "Credit" THEN row.amount ELSE 0)
          /\ Debited(k, v) = Debited(txn, v)
                + (IF row.userId = v /\ row.type = "Debit" THEN row.amount ELSE 0)
      BY <3>3, <3>4, <3>5, RowSums
    <3>7. /\ Credited(k, v) = Credited(txn, v) + (IF v = u THEN amount ELSE 0)
          /\ Debited(k, v) = Debited(txn, v)
      BY <3>3, <3>6
    <3>8. QED BY <1>1, <1>2, <1>5, <3>1, <3>6, <3>7
  <2>3. QED BY <1>7, <1>8, <2>1, <2>2, AccountStep DEF SeedAdminWallet
<1>9. CASE UNCHANGED wvars
  BY <1>7, <1>9 DEF wvars
<1>10. QED BY <1>6, <1>8, <1>9, NextCases

LEMMA AdminLedgerNext == TypeOK /\ AdminLedger /\ [Next]_wvars => AdminLedger'
<1> SUFFICES ASSUME TypeOK, AdminLedger, [Next]_wvars PROVE AdminLedger'
  OBVIOUS
<1>1. adminTxn \in Seq(AdminTransaction) /\ (\A n \in Int : n # Null)
  BY WalletsAssumption DEF TypeOK
<1>2. PICK k : k = adminTxn'
  OBVIOUS
<1>3. ASSUME NEW row \in AdminTransaction, admin \in Int, admin' = admin + row.amount,
             adminTxn' = Append(adminTxn, row)
      PROVE  AdminLedger'
  <2>1. AmountIn(k, DOMAIN k) = AmountIn(adminTxn, DOMAIN adminTxn) + row.amount
    BY <1>1, <1>2, <1>3, AdminSum
  <2>2. admin = AmountIn(adminTxn, DOMAIN adminTxn)
    BY <1>1, <1>3 DEF AdminLedger
  <2>3. admin' = AmountIn(k, DOMAIN k)
    BY <1>3, <2>1, <2>2
  <2>4. QED BY <1>2, <2>3 DEF AdminLedger
<1>4. ASSUME NEW u \in Users, NEW m \in Users, NEW total \in Int, NEW b \in Nat,
             Transfer(u, m, total, b)
      PROVE  AdminLedger'
  <2>1. PICK a \in Int, s \in Int : TransferEffect(u, m, total, b, a, s)
    BY <1>4, TransferStep
  <2>2. PICK row : row = CommissionRow(a, b)
    OBVIOUS
  <2>3. row \in AdminTransaction /\ row.amount = a
    BY <2>1, <2>2 DEF TransferEffect, CommissionRow
  <2>4. admin \in Int /\ admin' = admin + row.amount /\ adminTxn' = Append(adminTxn, row)
    BY <2>1, <2>2, <2>3 DEF TransferEffect
  <2>5. QED BY <1>3, <2>3, <2>4
<1>5. CASE UNCHANGED <<admin, adminTxn>>
  BY <1>5 DEF AdminLedger
<1>6. CASE SeedAdminWallet
  <2>1. admin' = 0 /\ k = <<>>
    BY <1>2, <1>6 DEF SeedAdminWallet, TypeOK
  <2>2. DOMAIN k = {}
    BY <2>1, EmptySeq
  <2>3. AmountIn(k, DOMAIN k) = 0
    BY <2>2, NothingInNoRows
  <2>4. QED BY <1>2, <2>1, <2>3 DEF AdminLedger
<1>7. CASE Account
  <2>1. CASE \E u \in Users : Register(u)
    BY <1>5, <2>1 DEF Register
  <2>2. QED BY <1>3, <1>5, <1>6, <1>7, <2>1, AccountStep
<1>8. CASE UNCHANGED wvars
  BY <1>5, <1>8 DEF wvars
<1>9. QED BY <1>4, <1>7, <1>8, NextCases

\* The rows of /wallet/transactions explain every balance /wallet/balance
\* shows, in every reachable state.
THEOREM LedgersExplainBalances == Spec => []LedgerMatchesBalance
<1>1. LedgerMatchesBalance <=> UserLedgers /\ AdminLedger
  BY DEF LedgerMatchesBalance, UserLedgers, AdminLedger
<1>2. Init => UserLedgers /\ AdminLedger
  BY EmptySeq DEF Init, UserLedgers, AdminLedger
<1>3. QED BY <1>1, <1>2, TypeInit, TypeNext, UserLedgersNext, AdminLedgerNext, PTL DEF Spec

-----------------------------------------------------------------------------
(* Overdrafts.                                                             *)

\* What such payouts took is never above zero.
LEMMA TakenType ==
    ASSUME NEW t \in Seq(Transaction), NEW u
    PROVE  TakenFrom(t, u) \in Int /\ TakenFrom(t, u) <= 0
<1> DEFINE ids == {i \in CreditsOf(t, u) : t[i].amount < 0}
           c == [i \in ids |-> t[i].amount]
           zeros == [i \in ids |-> 0]
<1>1. Len(t) \in Nat /\ DOMAIN t = 1..Len(t) /\ \A i \in 1..Len(t) : t[i] \in Transaction
  BY TableShape
<1>2. ids \in SUBSET (1..Len(t))
  BY <1>1 DEF CreditsOf
<1>3. \A i \in ids : t[i].amount \in Int /\ t[i].amount < 0
  BY <1>1, <1>2 DEF Transaction
<1>4. TakenFrom(t, u) = Total(c)
  BY DEF TakenFrom, AmountIn
<1> HIDE DEF ids
<1>5. IsFiniteSet(ids)
  <2>1. IsFiniteSet(1..Len(t))
    BY <1>1, FS_Interval
  <2>2. QED BY <1>2, <2>1, FS_Subset
<1>6. c \in [ids -> Int] /\ zeros \in [ids -> Int] /\ \A i \in ids : c[i] <= zeros[i]
  BY <1>3
<1>7. \A i \in DOMAIN zeros : zeros[i] = 0
  OBVIOUS
<1> HIDE DEF c, zeros
<1>8. Total(zeros) = 0
  BY <1>7, TotalOfZeros
<1>9. Total(c) \in Int /\ Total(c) <= Total(zeros)
  BY <1>5, <1>6, TotalMonotone
<1>10. QED BY <1>4, <1>8, <1>9

\* What a row adds to it.
LEMMA RowTakes ==
    ASSUME NEW t \in Seq(Transaction), NEW row \in Transaction, NEW u,
           NEW k, RowAdded(t, row, k)
    PROVE  /\ row.userId = u /\ row.type = "Credit" /\ row.amount < 0 =>
                 TakenFrom(k, u) = TakenFrom(t, u) + row.amount
           /\ ~(row.userId = u /\ row.type = "Credit" /\ row.amount < 0) =>
                 TakenFrom(k, u) = TakenFrom(t, u)
<1>1. \A r \in Transaction : r.amount \in Int
  BY DEF Transaction
<1>2. PICK new : new = Len(t) + 1
  OBVIOUS
<1>3. /\ DOMAIN k = DOMAIN t \cup {new} /\ new \notin DOMAIN t
      /\ (\A i \in DOMAIN t : k[i] = t[i]) /\ k[new] = row
  BY <1>2 DEF RowAdded
<1>4. PICK old : old = {i \in CreditsOf(t, u) : t[i].amount < 0}
  OBVIOUS
<1>5. old \in SUBSET (DOMAIN t)
  BY <1>4 DEF CreditsOf
<1>6. {i \in CreditsOf(k, u) : k[i].amount < 0}
         = IF row.userId = u /\ row.type = "Credit" /\ row.amount < 0
           THEN old \cup {new} ELSE old
  BY <1>3, <1>4 DEF CreditsOf
<1>7. AmountIn(k, old) = AmountIn(t, old)
  BY <1>1, <1>5, AmountsKept
<1>8. AmountIn(k, old \cup {new}) = AmountIn(t, old) + row.amount
  BY <1>1, <1>2, <1>5, AmountsWithNew
<1>9. QED BY <1>4, <1>6, <1>7, <1>8 DEF TakenFrom

LEMMA NoOverdraftNext == TypeOK /\ NoOverdraft /\ [Next]_wvars => NoOverdraft'
<1> SUFFICES ASSUME TypeOK, NoOverdraft, [Next]_wvars PROVE NoOverdraft'
  OBVIOUS
<1>1. /\ \A v \in DOMAIN wallet : wallet[v] \in Int /\ wallet[v] >= TakenFrom(txn, v)
      /\ txn \in Seq(Transaction)
  BY DEF TypeOK, NoOverdraft
<1>2. \A v : TakenFrom(txn, v) \in Int /\ TakenFrom(txn, v) <= 0
  BY <1>1, TakenType
<1>3. PICK k, w : k = txn' /\ w = wallet'
  OBVIOUS
<1> SUFFICES ASSUME NEW v \in DOMAIN w
             PROVE  w[v] >= TakenFrom(k, v)
  BY <1>3 DEF NoOverdraft
<1>4. ASSUME NEW u \in Users, NEW m \in Users, NEW total \in Int, NEW b \in Nat,
             Transfer(u, m, total, b)
      PROVE  w[v] >= TakenFrom(k, v)
  <2>1. PICK a \in Int, s \in Int : TransferEffect(u, m, total, b, a, s)
    BY <1>4, TransferStep
  <2>2. /\ v \in DOMAIN wallet /\ wallet[u] >= total
        /\ w[v] = wallet[v] - (IF v = u THEN total ELSE 0) + (IF v = m THEN s ELSE 0)
    BY <1>3, <2>1 DEF TransferEffect
  <2>3. PICK t, payout, debit :
           /\ payout = PayoutRow(m, s, b) /\ debit = DebitRow(u, total, b)
           /\ t = Append(txn, payout) /\ k = Append(t, debit)
    BY <1>3, <2>1 DEF TransferEffect
  <2>4. payout \in Transaction /\ debit \in Transaction
    BY <2>1, <2>3 DEF TransferEffect
  <2>5. /\ payout.userId = m /\ payout.type = "Credit" /\ payout.amount = s
        /\ debit.type = "Debit"
    BY <2>3 DEF PayoutRow, DebitRow
  <2>6. t \in Seq(Transaction) /\ RowAdded(txn, payout, t)
    BY <1>1, <2>3, <2>4, RowAppended
  <2>7. RowAdded(t, debit, k)
    BY <2>3, <2>4, <2>6, RowAppended
  <2>8. TakenFrom(k, v) = TakenFrom(t, v)
    BY <2>4, <2>5, <2>6, <2>7, RowTakes
  <2>9. /\ v = m /\ s < 0 => TakenFrom(t, v) = TakenFrom(txn, v) + s
        /\ ~(v = m /\ s < 0) => TakenFrom(t, v) = TakenFrom(txn, v)
    BY <1>1, <2>4, <2>5, <2>6, RowTakes
  <2>10. PICK x, y \in Int : x = wallet[v] /\ y = TakenFrom(txn, v)
    BY <1>1, <1>2, <2>2
  <2>11. x >= y /\ y <= 0 /\ (v = u => x >= total)
    BY <1>1, <1>2, <2>2, <2>10
  <2>12. CASE v = u /\ v = m
    BY <2>2, <2>8, <2>9, <2>10, <2>11, <2>12
  <2>13. CASE v = u /\ v # m
    BY <2>2, <2>8, <2>9, <2>10, <2>11, <2>13
  <2>14. CASE v # u /\ v = m
    BY <2>2, <2>8, <2>9, <2>10, <2>11, <2>14
  <2>15. CASE v # u /\ v # m
    BY <2>2, <2>8, <2>9, <2>10, <2>11, <2>15
  <2>16. QED BY <2>12, <2>13, <2>14, <2>15
<1>5. CASE wallet' = wallet /\ txn' = txn
  BY <1>1, <1>3, <1>5
<1>6. CASE Account
  <2>1. ASSUME NEW u \in Users, u \notin DOMAIN wallet, Register(u)
        PROVE  w[v] >= TakenFrom(k, v)
    <3>1. /\ k = txn /\ (v = u \/ v \in DOMAIN wallet)
          /\ w[v] = IF v = u THEN OPENING_BALANCE ELSE wallet[v]
      BY <1>3, <2>1 DEF Register
    <3>2. QED BY <1>1, <1>2, <3>1, WalletsAssumption
  <2>2. ASSUME NEW u \in Users, NEW amount \in Nat,
               DOMAIN wallet' = DOMAIN wallet,
               \A x \in DOMAIN wallet : wallet'[x] = wallet[x] + (IF x = u THEN amount ELSE 0),
               TopupRow(u, amount) \in Transaction,
               txn' = Append(txn, TopupRow(u, amount))
        PROVE  w[v] >= TakenFrom(k, v)
    <3>1. v \in DOMAIN wallet /\ w[v] = wallet[v] + (IF v = u THEN amount ELSE 0)
      BY <1>3, <2>2
    <3>2. PICK row : row = TopupRow(u, amount)
      OBVIOUS
    <3>3. row \in Transaction /\ row.amount = amount
      BY <2>2, <3>2 DEF TopupRow
    <3>4. RowAdded(txn, row, k)
      BY <1>1, <1>3, <2>2, <3>2, <3>3, RowAppended
    <3>5. TakenFrom(k, v) = TakenFrom(txn, v)
      BY <1>1, <3>3, <3>4, RowTakes
    <3>6. QED BY <1>1, <1>2, <3>1, <3>5
  <2>3. QED BY <1>5, <1>6, <2>1, <2>2, AccountStep DEF SeedAdminWallet
<1>7. CASE UNCHANGED wvars
  BY <1>5, <1>7 DEF wvars
<1>8. QED BY <1>4, <1>6, <1>7, NextCases

\* A wallet is never further below zero than payouts of less than nothing
\* have taken from it.
THEOREM NoOverdraftHolds == Spec => []NoOverdraft
<1>1. Init => NoOverdraft
  BY EmptySeq DEF Init, NoOverdraft
<1>2. QED BY <1>1, TypeInit, TypeNext, NoOverdraftNext, PTL DEF Spec

-----------------------------------------------------------------------------
(* The records of a payment.                                               *)

\* What PaymentsBalance says of the debit row of one payment.
Documented(debit, tx, ad, sp) ==
    \E p \in RowsFor(tx, "EventManagerPayout"), c \in RowsFor(ad, "PlatformCommission"),
       a, s \in DOMAIN sp :
        /\ tx[p].referenceId = debit.referenceId
        /\ ad[c].referenceId = debit.referenceId
        /\ sp[a] = SplitRow(debit.referenceId, ad[c].amount, "Admin")
        /\ sp[s] = SplitRow(debit.referenceId, tx[p].amount, "Manager")
        /\ tx[p].amount + ad[c].amount - debit.amount \in {-1, 0, 1}

\* No row of table t is lost or changed in table k.
Kept(t, k) == \A i \in DOMAIN t : i \in DOMAIN k /\ k[i] = t[i]

\* Rows that are added leave a payment documented.
LEMMA StaysDocumented ==
    ASSUME NEW debit, NEW tx, NEW ad, NEW sp, NEW tx2, NEW ad2, NEW sp2,
           Documented(debit, tx, ad, sp), Kept(tx, tx2), Kept(ad, ad2), Kept(sp, sp2)
    PROVE  Documented(debit, tx2, ad2, sp2)
<1>1. PICK p \in RowsFor(tx, "EventManagerPayout"), c \in RowsFor(ad, "PlatformCommission"),
           a \in DOMAIN sp, s \in DOMAIN sp :
         /\ tx[p].referenceId = debit.referenceId
         /\ ad[c].referenceId = debit.referenceId
         /\ sp[a] = SplitRow(debit.referenceId, ad[c].amount, "Admin")
         /\ sp[s] = SplitRow(debit.referenceId, tx[p].amount, "Manager")
         /\ tx[p].amount + ad[c].amount - debit.amount \in {-1, 0, 1}
  BY DEF Documented
<1>2. /\ p \in RowsFor(tx2, "EventManagerPayout") /\ tx2[p] = tx[p]
      /\ c \in RowsFor(ad2, "PlatformCommission") /\ ad2[c] = ad[c]
      /\ a \in DOMAIN sp2 /\ sp2[a] = sp[a]
      /\ s \in DOMAIN sp2 /\ sp2[s] = sp[s]
  BY DEF Kept, RowsFor
<1>3. /\ tx2[p].referenceId = debit.referenceId
      /\ ad2[c].referenceId = debit.referenceId
      /\ sp2[a] = SplitRow(debit.referenceId, ad2[c].amount, "Admin")
      /\ sp2[s] = SplitRow(debit.referenceId, tx2[p].amount, "Manager")
      /\ tx2[p].amount + ad2[c].amount - debit.amount \in {-1, 0, 1}
  BY <1>1, <1>2
<1>4. QED BY <1>2, <1>3 DEF Documented

LEMMA AddedKeeps ==
    ASSUME NEW t, NEW row, NEW k, RowAdded(t, row, k)
    PROVE  Kept(t, k)
BY EveryRowAfter DEF Kept

LEMMA KeptTwice ==
    ASSUME NEW t, NEW k, NEW l, Kept(t, k), Kept(k, l)
    PROVE  Kept(t, l)
BY DEF Kept

\* The rows of one payment document it.
LEMMA PaymentDocumented ==
    ASSUME NEW total \in Int, NEW a \in Int, NEW s \in Int, NEW u, NEW m, NEW b,
           s + a - total \in {-1, 0, 1},
           NEW tx, NEW ad, NEW sp,
           \E i \in DOMAIN tx : tx[i] = PayoutRow(m, s, b),
           \E i \in DOMAIN ad : ad[i] = CommissionRow(a, b),
           \E i \in DOMAIN sp : sp[i] = SplitRow(b, a, "Admin"),
           \E i \in DOMAIN sp : sp[i] = SplitRow(b, s, "Manager")
    PROVE  Documented(DebitRow(u, total, b), tx, ad, sp)
<1>1. PICK p \in DOMAIN tx : tx[p] = PayoutRow(m, s, b)
  OBVIOUS
<1>2. PICK c \in DOMAIN ad : ad[c] = CommissionRow(a, b)
  OBVIOUS
<1>3. PICK i \in DOMAIN sp : sp[i] = SplitRow(b, a, "Admin")
  OBVIOUS
<1>4. PICK j \in DOMAIN sp : sp[j] = SplitRow(b, s, "Manager")
  OBVIOUS
<1>5. PICK debit : debit = DebitRow(u, total, b)
  OBVIOUS
<1>6. debit.referenceId = b /\ debit.amount = total
  BY <1>5 DEF DebitRow
<1>7. /\ p \in RowsFor(tx, "EventManagerPayout")
      /\ tx[p].referenceId = b /\ tx[p].amount = s
  BY <1>1 DEF PayoutRow, RowsFor
<1>8. /\ c \in RowsFor(ad, "PlatformCommission")
      /\ ad[c].referenceId = b /\ ad[c].amount = a
  BY <1>2 DEF CommissionRow, RowsFor
<1>9. tx[p].amount + ad[c].amount - debit.amount \in {-1, 0, 1}
  BY <1>6, <1>7, <1>8
<1>10. Documented(debit, tx, ad, sp)
  BY <1>3, <1>4, <1>6, <1>7, <1>8, <1>9 DEF Documented
<1>11. QED BY <1>5, <1>10

LEMMA PaymentsBalanceNext == TypeOK /\ PaymentsBalance /\ [Next]_wvars => PaymentsBalance'
<1> SUFFICES ASSUME TypeOK, PaymentsBalance, [Next]_wvars PROVE PaymentsBalance'
  OBVIOUS
<1>1. /\ txn \in Seq(Transaction) /\ adminTxn \in Seq(AdminTransaction)
      /\ split \in Seq(RevenueSplit)
  BY DEF TypeOK
<1>2. PICK tx, ad, sp, tx2, ad2, sp2 :
         /\ tx = txn /\ ad = adminTxn /\ sp = split
         /\ tx2 = txn' /\ ad2 = adminTxn' /\ sp2 = split'
  OBVIOUS
<1>3. \A d \in RowsFor(tx, "BookingPayment") : Documented(tx[d], tx, ad, sp)
  BY <1>2 DEF PaymentsBalance, Documented
<1>4. SUFFICES \A d \in RowsFor(tx2, "BookingPayment") : Documented(tx2[d], tx2, ad2, sp2)
  BY <1>2 DEF PaymentsBalance, Documented
<1>5. ASSUME Kept(tx, tx2), Kept(ad, ad2), Kept(sp, sp2),
             \A d \in RowsFor(tx2, "BookingPayment") :
                d \in DOMAIN tx \/ Documented(tx2[d], tx2, ad2, sp2)
      PROVE  \A d \in RowsFor(tx2, "BookingPayment") : Documented(tx2[d], tx2, ad2, sp2)
  <2> SUFFICES ASSUME NEW d \in RowsFor(tx2, "BookingPayment"), d \in DOMAIN tx
               PROVE  Documented(tx2[d], tx2, ad2, sp2)
    BY <1>5
  <2>1. d \in RowsFor(tx, "BookingPayment") /\ tx2[d] = tx[d]
    BY <1>5 DEF Kept, RowsFor
  <2>2. Documented(tx[d], tx, ad, sp)
    BY <1>3, <2>1
  <2>3. Documented(tx[d], tx2, ad2, sp2)
    BY <1>5, <2>2, StaysDocumented
  <2>4. QED BY <2>1, <2>3
<1>6. ASSUME NEW u \in Users, NEW m \in Users, NEW total \in Int, NEW b \in Nat,
             Transfer(u, m, total, b)
      PROVE  \A d \in RowsFor(tx2, "BookingPayment") : Documented(tx2[d], tx2, ad2, sp2)
  <2>1. PICK a \in Int, s \in Int : TransferEffect(u, m, total, b, a, s)
    BY <1>6, TransferStep
  <2>2. PICK t, payout, debit, row, part, one, two :
           /\ payout = PayoutRow(m, s, b) /\ debit = DebitRow(u, total, b)
           /\ row = CommissionRow(a, b)
           /\ one = SplitRow(b, a, "Admin") /\ two = SplitRow(b, s, "Manager")
           /\ t = Append(tx, payout) /\ tx2 = Append(t, debit)
           /\ ad2 = Append(ad, row)
           /\ part = Append(sp, one) /\ sp2 = Append(part, two)
    BY <1>2, <2>1 DEF TransferEffect
  <2>3. /\ payout \in Transaction /\ debit \in Transaction /\ row \in AdminTransaction
        /\ one \in RevenueSplit /\ two \in RevenueSplit
        /\ s + a - total \in {-1, 0, 1}
    BY <2>1, <2>2 DEF TransferEffect
  <2>4. t \in Seq(Transaction) /\ RowAdded(tx, payout, t)
    BY <1>1, <1>2, <2>2, <2>3, RowAppended
  <2>5. RowAdded(t, debit, tx2)
    BY <2>2, <2>3, <2>4, RowAppended
  <2>6. RowAdded(ad, row, ad2)
    BY <1>1, <1>2, <2>2, <2>3, RowAppended
  <2>7. part \in Seq(RevenueSplit) /\ RowAdded(sp, one, part)
    BY <1>1, <1>2, <2>2, <2>3, RowAppended
  <2>8. RowAdded(part, two, sp2)
    BY <2>2, <2>3, <2>7, RowAppended
  <2>9. Kept(tx, t) /\ Kept(t, tx2) /\ Kept(ad, ad2) /\ Kept(sp, part) /\ Kept(part, sp2)
    BY <2>4, <2>5, <2>6, <2>7, <2>8, AddedKeeps
  <2>10. Kept(tx, tx2) /\ Kept(ad, ad2) /\ Kept(sp, sp2)
    BY <2>9, KeptTwice
  <2>11. /\ \E i \in DOMAIN tx2 : tx2[i] = PayoutRow(m, s, b)
         /\ \E i \in DOMAIN ad2 : ad2[i] = CommissionRow(a, b)
         /\ \E i \in DOMAIN sp2 : sp2[i] = SplitRow(b, a, "Admin")
         /\ \E i \in DOMAIN sp2 : sp2[i] = SplitRow(b, s, "Manager")
    <3>1. /\ \E i \in DOMAIN t : t[i] = payout
          /\ \E i \in DOMAIN ad2 : ad2[i] = row
          /\ \E i \in DOMAIN part : part[i] = one
          /\ \E i \in DOMAIN sp2 : sp2[i] = two
      BY <2>4, <2>6, <2>7, <2>8, EveryRowAfter
    <3>2. /\ \E i \in DOMAIN tx2 : tx2[i] = payout
          /\ \E i \in DOMAIN sp2 : sp2[i] = one
      BY <2>9, <3>1 DEF Kept
    <3>3. QED BY <2>2, <3>1, <3>2
  <2>12. Documented(debit, tx2, ad2, sp2)
    <3>1. Documented(DebitRow(u, total, b), tx2, ad2, sp2)
      BY <2>3, <2>11, PaymentDocumented
    <3>2. QED BY <2>2, <3>1
  <2>13. \A d \in RowsFor(tx2, "BookingPayment") : d \in DOMAIN tx \/ tx2[d] = debit
    <3>1. payout.purpose = "EventManagerPayout"
      BY <2>2 DEF PayoutRow
    <3>2. SUFFICES ASSUME NEW d \in RowsFor(tx2, "BookingPayment")
                   PROVE  d \in DOMAIN tx \/ tx2[d] = debit
      OBVIOUS
    <3>3. d \in DOMAIN tx2 /\ tx2[d].purpose = "BookingPayment"
      BY DEF RowsFor
    <3>4. CASE d \in DOMAIN t /\ tx2[d] = t[d]
      <4>1. d \in DOMAIN tx \/ t[d] = payout
        BY <2>4, <3>4, EveryRowAfter
      <4>2. QED BY <3>1, <3>3, <3>4, <4>1
    <3>5. QED BY <2>5, <3>3, <3>4, EveryRowAfter
  <2>14. QED BY <1>5, <2>10, <2>12, <2>13
<1>7. ASSUME Kept(tx, tx2), ad2 = ad \/ Kept(ad, ad2), sp2 = sp,
             \A d \in RowsFor(tx2, "BookingPayment") : d \in DOMAIN tx
      PROVE  \A d \in RowsFor(tx2, "BookingPayment") : Documented(tx2[d], tx2, ad2, sp2)
  <2>1. Kept(ad, ad2) /\ Kept(sp, sp2)
    BY <1>7 DEF Kept
  <2>2. QED BY <1>5, <1>7, <2>1
<1>8. CASE txn' = txn /\ split' = split /\ Kept(ad, ad2)
  <2>1. tx2 = tx /\ sp2 = sp
    BY <1>2, <1>8
  <2>2. Kept(tx, tx2) /\ (\A d \in RowsFor(tx2, "BookingPayment") : d \in DOMAIN tx)
    BY <2>1 DEF Kept, RowsFor
  <2>3. QED BY <1>7, <1>8, <2>1, <2>2
<1>9. CASE UNCHANGED <<txn, adminTxn, split>>
  <2>1. Kept(ad, ad2)
    BY <1>2, <1>9 DEF Kept
  <2>2. QED BY <1>8, <1>9, <2>1
<1>10. CASE Account
  <2>1. ASSUME NEW row \in AdminTransaction, adminTxn' = Append(adminTxn, row),
               UNCHANGED <<wallet, txn, split>>
        PROVE  \A d \in RowsFor(tx2, "BookingPayment") : Documented(tx2[d], tx2, ad2, sp2)
    <3>1. RowAdded(ad, row, ad2)
      BY <1>1, <1>2, <2>1, RowAppended
    <3>2. QED BY <1>8, <2>1, <3>1, AddedKeeps
  <2>2. ASSUME NEW u \in Users, NEW amount \in Nat,
               TopupRow(u, amount) \in Transaction,
               txn' = Append(txn, TopupRow(u, amount)),
               UNCHANGED <<admin, adminTxn, split>>
        PROVE  \A d \in RowsFor(tx2, "BookingPayment") : Documented(tx2[d], tx2, ad2, sp2)
    <3>1. PICK row : row = TopupRow(u, amount)
      OBVIOUS
    <3>2. row \in Transaction /\ row.purpose = "WalletTopup"
      BY <2>2, <3>1 DEF TopupRow
    <3>3. RowAdded(tx, row, tx2)
      BY <1>1, <1>2, <2>2, <3>1, <3>2, RowAppended
    <3>4. \A d \in RowsFor(tx2, "BookingPayment") : d \in DOMAIN tx
      <4> SUFFICES ASSUME NEW d \in RowsFor(tx2, "BookingPayment"), d \notin DOMAIN tx
                   PROVE  FALSE
        OBVIOUS
      <4>1. d \in DOMAIN tx2 /\ tx2[d].purpose = "BookingPayment"
        BY DEF RowsFor
      <4>2. tx2[d] = row
        BY <3>3, <4>1, EveryRowAfter
      <4>3. QED BY <3>2, <4>1, <4>2
    <3>5. ad2 = ad /\ sp2 = sp
      BY <1>2, <2>2
    <3>6. QED BY <1>7, <3>3, <3>4, <3>5, AddedKeeps
  <2>3. CASE \E u \in Users : Register(u)
    BY <1>9, <2>3 DEF Register
  <2>4. CASE SeedAdminWallet
    BY <1>9, <2>4 DEF SeedAdminWallet
  <2>5. QED BY <1>10, <2>1, <2>2, <2>3, <2>4, AccountStep
<1>11. CASE UNCHANGED wvars
  BY <1>9, <1>11 DEF wvars
<1>12. QED BY <1>6, <1>10, <1>11, NextCases

\* The ledgers agree on every payment ever made.
THEOREM PaymentsAgree == Spec => []PaymentsBalance
<1>1. Init => PaymentsBalance
  BY EmptySeq DEF Init, PaymentsBalance, RowsFor
<1>2. QED BY <1>1, TypeInit, TypeNext, PaymentsBalanceNext, PTL DEF Spec

-----------------------------------------------------------------------------
(* Counting payments: the number of the next one.                          *)

LEMMA PaymentRowsFinite ==
    ASSUME TypeOK
    PROVE  IsFiniteSet(RowsFor(txn, "BookingPayment"))
<1>1. Len(txn) \in Nat /\ DOMAIN txn = 1..Len(txn)
  BY TableShape DEF TypeOK
<1>2. IsFiniteSet(1..Len(txn)) /\ RowsFor(txn, "BookingPayment") \subseteq 1..Len(txn)
  BY <1>1, FS_Interval DEF RowsFor
<1>3. QED BY <1>2, FS_Subset

\* A payment is counted once, whatever is paid out with it.
LEMMA TransferCounts ==
    ASSUME TypeOK, NEW u \in Users, NEW m \in Users, NEW total \in Int, NEW b \in Nat,
           Transfer(u, m, total, b)
    PROVE  PaymentCount' = PaymentCount + 1
<1>1. PICK a \in Int, s \in Int : TransferEffect(u, m, total, b, a, s)
  BY TransferStep
<1>2. PICK t, payout, debit :
         /\ payout = PayoutRow(m, s, b) /\ payout \in Transaction
         /\ debit = DebitRow(u, total, b) /\ debit \in Transaction
         /\ t = Append(txn, payout) /\ txn' = Append(t, debit)
  BY <1>1 DEF TransferEffect
<1>3. payout.purpose # "BookingPayment" /\ debit.purpose = "BookingPayment"
  BY <1>2 DEF PayoutRow, DebitRow
<1>4. RowAdded(txn, payout, t) /\ t \in Seq(Transaction)
  BY <1>2, RowAppended DEF TypeOK
<1>5. RowAdded(t, debit, txn')
  BY <1>2, <1>4, RowAppended
<1>6. RowsFor(t, "BookingPayment") = RowsFor(txn, "BookingPayment")
  BY <1>3, <1>4 DEF RowsFor, RowAdded
<1>7. /\ RowsFor(txn', "BookingPayment") = RowsFor(t, "BookingPayment") \cup {Len(t) + 1}
      /\ Len(t) + 1 \notin RowsFor(t, "BookingPayment")
  BY <1>3, <1>5 DEF RowsFor, RowAdded
<1>8. QED BY <1>6, <1>7, PaymentRowsFinite, FS_AddElement DEF PaymentCount

LEMMA AccountCountsNothing ==
    ASSUME TypeOK, Account
    PROVE  PaymentCount' = PaymentCount
<1>1. CASE txn' = txn
  BY <1>1 DEF PaymentCount
<1>2. ASSUME NEW u \in Users, NEW amount \in Nat, TopupRow(u, amount) \in Transaction,
             txn' = Append(txn, TopupRow(u, amount))
      PROVE  PaymentCount' = PaymentCount
  <2>1. PICK row : row = TopupRow(u, amount) /\ row \in Transaction
    BY <1>2
  <2>2. RowAdded(txn, row, txn')
    BY <1>2, <2>1, RowAppended DEF TypeOK
  <2>3. row.purpose # "BookingPayment"
    BY <2>1 DEF TopupRow
  <2>4. RowsFor(txn', "BookingPayment") = RowsFor(txn, "BookingPayment")
    BY <2>2, <2>3 DEF RowsFor, RowAdded
  <2>5. QED BY <2>4 DEF PaymentCount
<1>3. QED BY <1>1, <1>2, AccountStep DEF Register, SeedAdminWallet

LEMMA NothingCounted == Init => PaymentCount = 0
<1> SUFFICES ASSUME Init PROVE PaymentCount = 0
  OBVIOUS
<1>1. RowsFor(txn, "BookingPayment") = {}
  BY EmptySeq DEF Init, RowsFor
<1>2. QED BY <1>1, FS_EmptySet DEF PaymentCount

-----------------------------------------------------------------------------
(* All the money together.                                                 *)

Topups(t) == AmountIn(t, RowsFor(t, "WalletTopup"))

\* A row counts among the top-ups if it is one.
LEMMA TopupsAfter ==
    ASSUME NEW S, \A r \in S : r.amount \in Int,
           NEW t \in Seq(S), NEW row \in S, NEW k, RowAdded(t, row, k)
    PROVE  /\ Topups(t) \in Int
           /\ Topups(k) = Topups(t) + (IF row.purpose = "WalletTopup" THEN row.amount ELSE 0)
<1> DEFINE ids == RowsFor(t, "WalletTopup")
<1>1. ids \in SUBSET (DOMAIN t)
  BY DEF RowsFor
<1>2. PICK new : new = Len(t) + 1
  OBVIOUS
<1>3. RowsFor(k, "WalletTopup") = IF row.purpose = "WalletTopup" THEN ids \cup {new} ELSE ids
  BY <1>2 DEF RowsFor, RowAdded
<1> HIDE DEF ids
<1>4. AmountIn(t, ids) \in Int /\ AmountIn(k, ids) = AmountIn(t, ids)
  BY <1>1, AmountsType, AmountsKept
<1>5. AmountIn(k, ids \cup {new}) = AmountIn(t, ids) + row.amount
  BY <1>1, <1>2, AmountsWithNew
<1>6. Topups(t) \in Int /\ Topups(t) = AmountIn(t, ids)
  BY <1>4 DEF Topups, ids
<1>7. CASE row.purpose = "WalletTopup"
  BY <1>3, <1>5, <1>6, <1>7 DEF Topups
<1>8. CASE row.purpose # "WalletTopup"
  BY <1>3, <1>4, <1>6, <1>8 DEF Topups
<1>9. QED BY <1>7, <1>8

\* The sums that MoneyConserved compares.
Held    == Total(wallet)
Owned   == IF admin = Null THEN 0 ELSE admin
Opened  == Cardinality(DOMAIN wallet) * OPENING_BALANCE

LEMMA MoneyInParts ==
    MoneyConserved <=>
        (Held + Owned) - (Opened + Topups(txn) + Topups(adminTxn)) \in -PaymentCount..PaymentCount
BY DEF MoneyConserved, Held, Owned, Opened, Topups

\* There are finitely many wallets: what a sum over them needs.
FiniteWallets == IsFiniteSet(DOMAIN wallet)

LEMMA FiniteWalletsNext == TypeOK /\ FiniteWallets /\ [Next]_wvars => FiniteWallets'
<1> SUFFICES ASSUME TypeOK, FiniteWallets, [Next]_wvars PROVE FiniteWallets'
  OBVIOUS
<1>1. CASE DOMAIN wallet' = DOMAIN wallet
  BY <1>1 DEF FiniteWallets
<1>2. ASSUME NEW u \in Users, NEW m \in Users, NEW total \in Int, NEW b \in Nat,
             Transfer(u, m, total, b)
      PROVE  DOMAIN wallet' = DOMAIN wallet
  BY <1>2, TransferStep DEF TransferEffect
<1>3. ASSUME NEW u \in Users, Register(u)
      PROVE  FiniteWallets'
  <2>1. DOMAIN wallet' = DOMAIN wallet \cup {u}
    BY <1>3 DEF Register
  <2>2. IsFiniteSet(DOMAIN wallet \cup {u})
    BY FS_AddElement DEF FiniteWallets
  <2>3. QED BY <2>1, <2>2 DEF FiniteWallets
<1>4. CASE Account
  BY <1>1, <1>3, <1>4, AccountStep DEF SeedAdminWallet
<1>5. CASE UNCHANGED wvars
  BY <1>1, <1>5 DEF wvars
<1>6. QED BY <1>1, <1>2, <1>4, <1>5, NextCases

\* Every balance is a whole number.
LEMMA BalancesAreInt ==
    ASSUME TypeOK
    PROVE  wallet \in [DOMAIN wallet -> Int]
<1>1. \A u \in DOMAIN wallet : wallet[u] \in Int
  BY DEF TypeOK
<1>2. wallet = [u \in DOMAIN wallet |-> wallet[u]]
  BY DEF TypeOK
<1>3. QED BY <1>1, <1>2

\* A payment moves the total out of one wallet and the manager's share into
\* another, or the same.
LEMMA TransferMovesMoney ==
    ASSUME TypeOK, FiniteWallets,
           NEW u \in Users, NEW m \in Users, NEW total \in Int, NEW b \in Nat,
           NEW a \in Int, NEW s \in Int, TransferEffect(u, m, total, b, a, s)
    PROVE  Held \in Int /\ Held' = Held - total + s
<1> DEFINE D == DOMAIN wallet
           w == [v \in D |-> IF v = u THEN wallet[v] - total ELSE wallet[v]]
<1>1. /\ u \in D /\ m \in D /\ wallet[u] >= total
      /\ wallet' = [v \in D |-> wallet'[v]]
      /\ \A v \in D :
            wallet'[v] = wallet[v] - (IF v = u THEN total ELSE 0) + (IF v = m THEN s ELSE 0)
  BY DEF TransferEffect
<1>2. wallet \in [D -> Int] /\ IsFiniteSet(D)
  BY BalancesAreInt DEF FiniteWallets
<1> HIDE DEF D
<1>3. w \in [D -> Int] /\ w[u] = wallet[u] - total /\ \A v \in D : v # u => w[v] = wallet[v]
  BY <1>1, <1>2
<1>4. \A v \in D : wallet'[v] = w[v] + (IF v = m THEN s ELSE 0)
  BY <1>1, <1>2
<1> HIDE DEF w
<1>5. wallet' \in [D -> Int]
  <2>1. \A v \in D : wallet'[v] \in Int
    BY <1>3, <1>4
  <2>2. QED BY <1>1, <2>1
<1>6. Total(wallet) \in Int /\ Total(w) \in Int /\ Total(w) + wallet[u] = Total(wallet) + w[u]
  BY <1>1, <1>2, <1>3, TotalChange
<1>7. PICK k : k = wallet'
  OBVIOUS
<1>8. k \in [D -> Int] /\ k[m] = w[m] + s /\ \A v \in D : v # m => k[v] = w[v]
  BY <1>1, <1>3, <1>4, <1>5, <1>7
<1>9. Total(k) \in Int /\ Total(k) + w[m] = Total(w) + k[m]
  BY <1>1, <1>2, <1>3, <1>8, TotalChange
<1>10. wallet[u] \in Int /\ w[m] \in Int
  BY <1>1, <1>2, <1>3
<1>11. Total(k) = Total(wallet) - total + s
  <2>1. Total(w) = Total(wallet) - total
    BY <1>3, <1>6, <1>10
  <2>2. Total(k) = Total(w) + s
    <3>1. PICK x, y, z : x = Total(k) /\ y = Total(w) /\ z = w[m]
      OBVIOUS
    <3>2. x \in Int /\ y \in Int /\ z \in Int /\ x + z = y + (z + s)
      BY <1>6, <1>8, <1>9, <1>10, <3>1
    <3>3. QED BY <3>1, <3>2
  <2>3. QED BY <2>1, <2>2
<1>12. Held' = Total(k)
  BY <1>7 DEF Held
<1>13. QED BY <1>6, <1>11, <1>12 DEF Held

\* The users' top-ups are no part of a payment.
LEMMA PaymentTopsUpNothing ==
    ASSUME TypeOK, NEW u \in Users, NEW m \in Users, NEW total \in Int, NEW b \in Nat,
           NEW a \in Int, NEW s \in Int, TransferEffect(u, m, total, b, a, s)
    PROVE  /\ Topups(txn) \in Int /\ Topups(txn') = Topups(txn)
           /\ Topups(adminTxn) \in Int /\ Topups(adminTxn') = Topups(adminTxn)
<1>1. (\A r \in Transaction : r.amount \in Int) /\ (\A r \in AdminTransaction : r.amount \in Int)
  BY DEF Transaction, AdminTransaction
<1>2. PICK t, payout, debit, row, k, l :
         /\ payout = PayoutRow(m, s, b) /\ payout \in Transaction
         /\ debit = DebitRow(u, total, b) /\ debit \in Transaction
         /\ row = CommissionRow(a, b) /\ row \in AdminTransaction
         /\ t = Append(txn, payout) /\ k = txn' /\ k = Append(t, debit)
         /\ l = adminTxn' /\ l = Append(adminTxn, row)
  BY DEF TransferEffect
<1>3. /\ payout.purpose # "WalletTopup" /\ debit.purpose # "WalletTopup"
      /\ row.purpose # "WalletTopup"
  BY <1>2 DEF PayoutRow, DebitRow, CommissionRow
<1>4. txn \in Seq(Transaction) /\ adminTxn \in Seq(AdminTransaction)
  BY DEF TypeOK
<1>5. t \in Seq(Transaction) /\ RowAdded(txn, payout, t)
  BY <1>2, <1>4, RowAppended
<1>6. RowAdded(t, debit, k) /\ RowAdded(adminTxn, row, l)
  BY <1>2, <1>4, <1>5, RowAppended
<1>7. Topups(txn) \in Int /\ Topups(t) = Topups(txn)
  <2>1. /\ Topups(txn) \in Int
        /\ Topups(t) = Topups(txn) + (IF payout.purpose = "WalletTopup" THEN payout.amount ELSE 0)
    BY <1>1, <1>2, <1>4, <1>5, TopupsAfter
  <2>2. QED BY <1>3, <2>1
<1>8. Topups(k) = Topups(t)
  <2>1. Topups(k) = Topups(t) + (IF debit.purpose = "WalletTopup" THEN debit.amount ELSE 0)
    BY <1>1, <1>2, <1>5, <1>6, TopupsAfter
  <2>2. QED BY <1>3, <1>7, <2>1
<1>9. Topups(adminTxn) \in Int /\ Topups(l) = Topups(adminTxn)
  BY <1>1, <1>2, <1>3, <1>4, <1>6, TopupsAfter
<1>10. QED BY <1>2, <1>7, <1>8, <1>9

LEMMA SumsAreInt ==
    ASSUME TypeOK, FiniteWallets
    PROVE  /\ Held \in Int /\ Owned \in Int /\ Opened \in Int /\ PaymentCount \in Nat
           /\ Topups(txn) \in Int /\ Topups(adminTxn) \in Int
<1>1. Held \in Int
  BY BalancesAreInt, TotalType DEF Held, FiniteWallets
<1>2. Owned \in Int
  BY DEF Owned, TypeOK
<1>3. Opened \in Int
  <2>1. Cardinality(DOMAIN wallet) \in Nat
    BY FS_CardinalityType DEF FiniteWallets
  <2>2. QED BY <2>1, WalletsAssumption DEF Opened
<1>4. Topups(txn) \in Int
  <2>1. \A r \in Transaction : r.amount \in Int
    BY DEF Transaction
  <2>2. RowsFor(txn, "WalletTopup") \in SUBSET (DOMAIN txn)
    BY DEF RowsFor
  <2>3. QED BY <2>1, <2>2, AmountsType DEF Topups, TypeOK
<1>5. Topups(adminTxn) \in Int
  <2>1. \A r \in AdminTransaction : r.amount \in Int
    BY DEF AdminTransaction
  <2>2. RowsFor(adminTxn, "WalletTopup") \in SUBSET (DOMAIN adminTxn)
    BY DEF RowsFor
  <2>3. QED BY <2>1, <2>2, AmountsType DEF Topups, TypeOK
<1>6. QED BY <1>1, <1>2, <1>3, <1>4, <1>5, PaymentCountType

\* What is put in by registering and topping up is what is held then.
LEMMA AccountKeepsBooks ==
    ASSUME TypeOK, FiniteWallets, Account
    PROVE  \E n \in Nat :
              /\ Held' + Owned' = Held + Owned + n
              /\ Opened' + Topups(txn') + Topups(adminTxn')
                    = Opened + Topups(txn) + Topups(adminTxn) + n
<1>1. /\ Held \in Int /\ Owned \in Int /\ Opened \in Int
      /\ Topups(txn) \in Int /\ Topups(adminTxn) \in Int
  BY SumsAreInt
<1>2. wallet \in [DOMAIN wallet -> Int] /\ IsFiniteSet(DOMAIN wallet)
  BY BalancesAreInt DEF FiniteWallets
<1>3. ASSUME NEW u \in Users, u \notin DOMAIN wallet, Register(u)
      PROVE  /\ Held' = Held + OPENING_BALANCE /\ Opened' = Opened + OPENING_BALANCE
             /\ UNCHANGED <<admin, txn, adminTxn>>
  <2>1. /\ DOMAIN wallet' = DOMAIN wallet \cup {u}
        /\ wallet'[u] = OPENING_BALANCE
        /\ \A v \in DOMAIN wallet : wallet'[v] = wallet[v]
        /\ UNCHANGED <<admin, txn, adminTxn>>
    BY <1>3 DEF Register
  <2>2. OPENING_BALANCE \in Nat
    BY WalletsAssumption
  <2>3. Held' = Held + OPENING_BALANCE
    <3>1. PICK k : k = wallet'
      OBVIOUS
    <3>2. k \in [DOMAIN wallet \cup {u} -> Int] /\ \A v \in DOMAIN wallet : k[v] = wallet[v]
      BY <1>2, <1>3, <2>2, <3>1 DEF Register
    <3>3. Total(k) = Total(wallet) + k[u]
      BY <1>2, <1>3, <3>2, TotalAdd
    <3>4. QED BY <2>1, <3>1, <3>3 DEF Held
  <2>4. Opened' = Opened + OPENING_BALANCE
    <3>1. Cardinality(DOMAIN wallet) \in Nat
      BY <1>2, FS_CardinalityType
    <3>2. Cardinality(DOMAIN wallet \cup {u}) = Cardinality(DOMAIN wallet) + 1
      BY <1>2, <1>3, FS_AddElement
    <3>3. \A c, o \in Nat : (c + 1) * o = c * o + o
      OBVIOUS
    <3>4. QED BY <2>1, <2>2, <3>1, <3>2, <3>3 DEF Opened
  <2>5. QED BY <2>1, <2>3, <2>4
<1>4. ASSUME NEW u \in Users, NEW amount \in Nat, u \in DOMAIN wallet,
             DOMAIN wallet' = DOMAIN wallet,
             wallet' = [v \in DOMAIN wallet |-> wallet'[v]],
             \A v \in DOMAIN wallet : wallet'[v] = wallet[v] + (IF v = u THEN amount ELSE 0),
             TopupRow(u, amount) \in Transaction,
             txn' = Append(txn, TopupRow(u, amount))
      PROVE  Held' = Held + amount /\ Opened' = Opened /\ Topups(txn') = Topups(txn) + amount
  <2>1. PICK k, t, row, D : k = wallet' /\ t = txn' /\ row = TopupRow(u, amount) /\ D = DOMAIN wallet
    OBVIOUS
  <2>2. /\ wallet \in [D -> Int] /\ IsFiniteSet(D) /\ u \in D
        /\ k = [v \in D |-> k[v]]
        /\ \A v \in D : k[v] = wallet[v] + (IF v = u THEN amount ELSE 0)
    BY <1>2, <1>4, <2>1
  <2>3. k \in [D -> Int] /\ k[u] = wallet[u] + amount /\ \A v \in D : v # u => k[v] = wallet[v]
    <3>1. \A v \in D : k[v] \in Int /\ (v # u => k[v] = wallet[v])
      BY <2>2
    <3>2. QED BY <2>2, <3>1
  <2>4. Total(k) \in Int /\ Total(k) + wallet[u] = Total(wallet) + k[u]
    BY <2>2, <2>3, TotalChange
  <2>5. wallet[u] \in Int /\ Total(wallet) \in Int
    BY <1>1, <2>2 DEF Held
  <2>6. Held' = Held + amount
    <3>1. Total(k) = Total(wallet) + amount
      BY <2>3, <2>4, <2>5
    <3>2. QED BY <2>1, <3>1 DEF Held
  <2>7. Opened' = Opened
    BY <1>4 DEF Opened
  <2>8. Topups(t) = Topups(txn) + amount
    <3>1. \A r \in Transaction : r.amount \in Int
      BY DEF Transaction
    <3>2. row \in Transaction /\ row.purpose = "WalletTopup" /\ row.amount = amount
      BY <1>4, <2>1 DEF TopupRow
    <3>3. txn \in Seq(Transaction)
      BY DEF TypeOK
    <3>4. RowAdded(txn, row, t)
      BY <1>4, <2>1, <3>2, <3>3, RowAppended
    <3>5. Topups(t) = Topups(txn) + (IF row.purpose = "WalletTopup" THEN row.amount ELSE 0)
      BY <3>1, <3>2, <3>3, <3>4, TopupsAfter
    <3>6. QED BY <3>2, <3>5
  <2>9. QED BY <2>1, <2>6, <2>7, <2>8
<1>5. ASSUME NEW amount \in Nat, NEW row \in AdminTransaction,
             admin \in Int, admin' = admin + amount,
             row.amount = amount, row.purpose = "WalletTopup",
             adminTxn' = Append(adminTxn, row)
      PROVE  Owned' = Owned + amount /\ Topups(adminTxn') = Topups(adminTxn) + amount
  <2>1. PICK t : t = adminTxn'
    OBVIOUS
  <2>2. \A r \in AdminTransaction : r.amount \in Int
    BY DEF AdminTransaction
  <2>3. adminTxn \in Seq(AdminTransaction)
    BY DEF TypeOK
  <2>4. RowAdded(adminTxn, row, t)
    BY <1>5, <2>1, <2>3, RowAppended
  <2>5. Topups(t) = Topups(adminTxn) + (IF row.purpose = "WalletTopup" THEN row.amount ELSE 0)
    BY <2>2, <2>3, <2>4, TopupsAfter
  <2>6. admin # Null /\ admin' # Null
    BY <1>5, WalletsAssumption
  <2>7. QED BY <1>5, <2>1, <2>5, <2>6 DEF Owned
<1>6. CASE \E u \in Users : u \notin DOMAIN wallet /\ Register(u)
  <2>1. /\ Held' = Held + OPENING_BALANCE /\ Opened' = Opened + OPENING_BALANCE
        /\ UNCHANGED <<admin, txn, adminTxn>>
    BY <1>3, <1>6
  <2>2. Owned' = Owned /\ OPENING_BALANCE \in Nat
    BY <2>1, WalletsAssumption DEF Owned
  <2>3. QED BY <1>1, <2>1, <2>2
<1>7. CASE SeedAdminWallet
  <2>1. Owned' = Owned /\ Held' = Held /\ Opened' = Opened /\ UNCHANGED <<txn, adminTxn>>
    BY <1>7 DEF SeedAdminWallet, Owned, Held, Opened
  <2>2. QED BY <1>1, <2>1
<1>8. CASE \E u \in Users, amount \in Nat :
              /\ u \in DOMAIN wallet
              /\ DOMAIN wallet' = DOMAIN wallet
              /\ wallet' = [v \in DOMAIN wallet |-> wallet'[v]]
              /\ \A v \in DOMAIN wallet :
                    wallet'[v] = wallet[v] + (IF v = u THEN amount ELSE 0)
              /\ TopupRow(u, amount) \in Transaction
              /\ txn' = Append(txn, TopupRow(u, amount))
              /\ UNCHANGED <<admin, adminTxn, split>>
  <2>1. PICK amount \in Nat :
           /\ Held' = Held + amount /\ Opened' = Opened /\ Topups(txn') = Topups(txn) + amount
           /\ UNCHANGED <<admin, adminTxn>>
    BY <1>4, <1>8
  <2>2. Owned' = Owned
    BY <2>1 DEF Owned
  <2>3. QED BY <1>1, <2>1, <2>2
<1>9. CASE \E amount \in Nat, row \in AdminTransaction :
              /\ admin \in Int /\ admin' = admin + amount
              /\ row.amount = amount /\ row.purpose = "WalletTopup"
              /\ adminTxn' = Append(adminTxn, row)
              /\ UNCHANGED <<wallet, txn, split>>
  <2>1. PICK amount \in Nat :
           /\ Owned' = Owned + amount /\ Topups(adminTxn') = Topups(adminTxn) + amount
           /\ UNCHANGED <<wallet, txn>>
    BY <1>5, <1>9
  <2>2. Held' = Held /\ Opened' = Opened
    BY <2>1 DEF Held, Opened
  <2>3. QED BY <1>1, <2>1, <2>2
<1>10. QED BY <1>6, <1>7, <1>8, <1>9, AccountStep

\* MoneyConserved is not inductive alone: a sum over the wallets means
\* something only while they are finitely many.
MoneyInv == TypeOK /\ FiniteWallets /\ MoneyConserved

LEMMA MoneyNext == MoneyInv /\ [Next]_wvars => MoneyInv'
<1> SUFFICES ASSUME MoneyInv, [Next]_wvars PROVE MoneyInv'
  OBVIOUS
<1>1. TypeOK /\ FiniteWallets /\ MoneyConserved
  BY DEF MoneyInv
<1>2. TypeOK' /\ FiniteWallets'
  BY <1>1, TypeNext, FiniteWalletsNext
<1> SUFFICES MoneyConserved'
  BY <1>1, <1>2 DEF MoneyInv
<1>3. /\ Held \in Int /\ Owned \in Int /\ Opened \in Int /\ PaymentCount \in Nat
      /\ Topups(txn) \in Int /\ Topups(adminTxn) \in Int
  BY <1>1, SumsAreInt
<1>4. (Held + Owned) - (Opened + Topups(txn) + Topups(adminTxn)) \in -PaymentCount..PaymentCount
  BY <1>1, MoneyInParts
<1>5. MoneyConserved' <=>
         (Held' + Owned') - (Opened' + Topups(txn') + Topups(adminTxn'))
             \in -PaymentCount'..PaymentCount'
  BY DEF MoneyConserved, Held, Owned, Opened, Topups
<1>6. ASSUME NEW u \in Users, NEW m \in Users, NEW total \in Int, NEW b \in Nat,
             Transfer(u, m, total, b)
      PROVE  MoneyConserved'
  <2>1. PICK a \in Int, s \in Int : TransferEffect(u, m, total, b, a, s)
    BY <1>1, <1>6, TransferStep
  <2>2. Held' = Held - total + s
    BY <1>1, <2>1, TransferMovesMoney
  <2>3. Topups(txn') = Topups(txn) /\ Topups(adminTxn') = Topups(adminTxn)
    BY <1>1, <2>1, PaymentTopsUpNothing
  <2>4. Opened' = Opened /\ Owned' = Owned + a /\ s + a - total \in {-1, 0, 1}
    <3>1. \A n \in Int : n # Null
      BY WalletsAssumption
    <3>2. QED BY <2>1, <3>1 DEF TransferEffect, Opened, Owned
  <2>5. PaymentCount' = PaymentCount + 1
    BY <1>1, <1>6, TransferCounts
  <2>6. (Held' + Owned') - (Opened' + Topups(txn') + Topups(adminTxn'))
           = ((Held + Owned) - (Opened + Topups(txn) + Topups(adminTxn))) + ((s + a) - total)
    BY <1>3, <2>2, <2>3, <2>4
  <2>7. QED BY <1>3, <1>4, <1>5, <2>4, <2>5, <2>6
<1>7. CASE Account
  <2>1. PICK n \in Nat :
           /\ Held' + Owned' = Held + Owned + n
           /\ Opened' + Topups(txn') + Topups(adminTxn')
                 = Opened + Topups(txn) + Topups(adminTxn) + n
    BY <1>1, <1>7, AccountKeepsBooks
  <2>2. PaymentCount' = PaymentCount
    BY <1>1, <1>7, AccountCountsNothing
  <2>3. (Held' + Owned') - (Opened' + Topups(txn') + Topups(adminTxn'))
           = (Held + Owned) - (Opened + Topups(txn) + Topups(adminTxn))
    BY <1>3, <2>1
  <2>4. (Held' + Owned') - (Opened' + Topups(txn') + Topups(adminTxn'))
           \in -PaymentCount'..PaymentCount'
    BY <1>4, <2>2, <2>3
  <2>5. QED BY <1>5, <2>4
<1>8. CASE UNCHANGED wvars
  <2>1. /\ Held' = Held /\ Owned' = Owned /\ Opened' = Opened /\ PaymentCount' = PaymentCount
        /\ txn' = txn /\ adminTxn' = adminTxn
    BY <1>8 DEF wvars, Held, Owned, Opened, PaymentCount
  <2>2. (Held' + Owned') - (Opened' + Topups(txn') + Topups(adminTxn'))
           \in -PaymentCount'..PaymentCount'
    BY <1>4, <2>1
  <2>3. QED BY <1>5, <2>2
<1>9. QED BY <1>1, <1>6, <1>7, <1>8, NextCases

LEMMA MoneyInit == Init => MoneyInv
<1> SUFFICES ASSUME Init PROVE MoneyInv
  OBVIOUS
<1>1. wallet = <<>> /\ txn = <<>> /\ adminTxn = <<>> /\ admin = Null
  BY DEF Init
<1>2. DOMAIN wallet = {} /\ DOMAIN txn = {} /\ DOMAIN adminTxn = {}
  BY <1>1, EmptySeq
<1>3. FiniteWallets /\ Opened = 0
  <2>1. IsFiniteSet({}) /\ Cardinality({}) = 0
    BY FS_EmptySet
  <2>2. QED BY <1>2, <2>1, WalletsAssumption DEF FiniteWallets, Opened
<1>4. Held = 0 /\ Owned = 0
  BY <1>1, <1>2, TotalEmpty DEF Held, Owned
<1>5. Topups(txn) = 0 /\ Topups(adminTxn) = 0
  <2>1. RowsFor(txn, "WalletTopup") = {} /\ RowsFor(adminTxn, "WalletTopup") = {}
    BY <1>2 DEF RowsFor
  <2>2. QED BY <2>1, NothingInNoRows DEF Topups
<1>6. PaymentCount = 0
  BY NothingCounted
<1>7. MoneyConserved
  BY <1>3, <1>4, <1>5, <1>6, MoneyInParts
<1>8. QED BY <1>3, <1>7, TypeInit DEF MoneyInv

\* Whatever is paid, by whom and to whom, all balances together are what was
\* opened and topped up, up to a cent for each payment.
THEOREM MoneyIsConserved == Spec => []MoneyConserved
<1>1. MoneyInv => MoneyConserved
  BY DEF MoneyInv
<1>2. QED BY <1>1, MoneyInit, MoneyNext, PTL DEF Spec
=============================================================================
