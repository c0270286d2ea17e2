-------------------------- MODULE WalletParameters --------------------------
(***************************************************************************)
(* The parameters of wallets that every module about them shares.          *)
(***************************************************************************)
EXTENDS Integers

CONSTANTS
    OPENING_BALANCE,   \* @default(1000) of Wallet.balance
    Null,              \* no row, or a column without a value
    \* the inputs the model offers
    Amounts, Payments,   \* a deposit has @Min(1), a payment no such check
    MaxTopups          \* bound: top-ups

ASSUME WalletsAssumption ==
    /\ OPENING_BALANCE \in Nat
    /\ Amounts \subseteq Nat
    /\ Payments \subseteq Int
    /\ Null \notin Int
=============================================================================
